---------------------------------- MODULE Votes ----------------------------------
(***************************************************************************)
(* rlm0/harness/baselines.py with grading.py: one task put to a baseline.  *)
(* The direct solver makes one call, or none when the context does not     *)
(* fit; the retrieval solver makes one over the documents it selected;     *)
(* self-consistency makes several and returns the answer most of them      *)
(* agree on, with the evidence most of those cite.  A call may raise,      *)
(* which loses the solver and what it paid.                                *)
(*                                                                         *)
(* An answer is what the grader makes of its text: `key` is its normal     *)
(* form and `number` what float() reads off it.                            *)
(***************************************************************************)
EXTENDS Naturals, Sequences, FiniteSets, FiniteSetsExt, Functions

CONSTANTS
    Replies,     \* what a model may say: its ANSWER lines and its EVIDENCE
    Samples,     \* calls of a self-consistency vote
    Docs, TopK,
    Required,    \* the documents a solve must have read
    Expected     \* the sample's answer

VARIABLES
    solver,    \* "direct", "retrieval" or "vote"
    shown,     \* the documents in its prompt
    calls,     \* completions paid for
    votes,     \* the replies that answered, parsed
    result,    \* the SolverResult, once there is one
    stage      \* "asking", "returned" or "raised"

vars == <<solver, shown, calls, votes, result, stage>>

NotANumber == 0
Blank == [key |-> "", number |-> NotANumber]
Unknown == [key |-> "unknown", number |-> NotANumber]
NoAnswer == Blank

Result(answer, cited, paid) == [answer |-> answer, cited |-> cited, calls |-> paid]

-----------------------------------------------------------------------------
(* Grading.                                                                  *)

SameAnswer(a, b) == a.key = b.key \/ (a.number # NotANumber /\ a.number = b.number)

Correct(r) == r.answer # NoAnswer /\ SameAnswer(r.answer, Expected)

\* grade's `supported`: complete evidence of a precision of a half or more.
Supported(r) ==
    /\ Correct(r) /\ Required \subseteq r.cited
    /\ 2 * Cardinality(Required \cap r.cited) >= Cardinality(r.cited)

-----------------------------------------------------------------------------
(* One call.                                                                 *)

\* parse_baseline_reply: the last ANSWER line, the known documents.
Parsed(reply) ==
    [answer |-> IF reply.answers = <<>> \/ reply.answers[Len(reply.answers)] = Unknown THEN NoAnswer
                ELSE reply.answers[Len(reply.answers)],
     cited |-> reply.cited \cap shown]

Calls == IF solver = "vote" THEN Samples ELSE 1

-----------------------------------------------------------------------------
(* The vote.                                                                 *)

\* normalise.
Key(vote) == <<vote.answer.key>>

Group(i) == {j \in DOMAIN votes : Key(votes[j]) = Key(votes[i])}

\* _modal: the largest group, the earliest of several.
Modal ==
    {j \in DOMAIN votes : \E i \in DOMAIN votes :
        /\ j \in Group(i)
        /\ \A k \in DOMAIN votes :
            /\ Cardinality(Group(k)) <= Cardinality(Group(i))
            /\ Cardinality(Group(k)) = Cardinality(Group(i)) => Min(Group(i)) <= Min(Group(k))}

CitedBy(doc, group) == Cardinality({i \in group : doc \in votes[i].cited})

\* Seeded fault: a document is held against all the votes, not the group.
MajorityEvidenceOfAll(group) ==
    LET most == {d \in Docs : 2 * CitedBy(d, DOMAIN votes) > Cardinality(group)}
    IN IF group = {} THEN {} ELSE IF most # {} THEN most ELSE votes[Min(group)].cited

\* _majority_evidence.
MajorityEvidence(group) ==
    LET most == {d \in Docs : 2 * CitedBy(d, group) > Cardinality(group)}
    IN IF group = {} THEN {} ELSE IF most # {} THEN most ELSE votes[Min(group)].cited

-----------------------------------------------------------------------------
(* Solving.                                                                  *)

TypeOK ==
    /\ solver \in {"direct", "retrieval", "vote"}
    /\ shown \subseteq Docs
    /\ calls \in 0..Calls
    /\ Len(votes) <= calls
    /\ stage \in {"asking", "returned", "raised"}
    /\ stage = "returned" => result[1].cited \subseteq Docs

\* rank_documents keeps TopK of them; the others are shown them all.
Init ==
    /\ solver \in {"direct", "retrieval", "vote"}
    /\ IF solver = "retrieval" THEN shown \in kSubset(TopK, Docs) ELSE shown = Docs
    /\ calls = 0 /\ votes = <<>> /\ result = <<>> /\ stage = "asking"

Return(r) == result' = <<r>> /\ stage' = "returned"

\* A context over the stated limit is refused without a call.
Refuse ==
    /\ stage = "asking" /\ solver = "direct"
    /\ Return(Result(NoAnswer, {}, 0))
    /\ UNCHANGED <<solver, shown, calls, votes>>

\* Only a reply with an answer has a vote.
Ask ==
    /\ stage = "asking" /\ solver = "vote" /\ calls < Samples
    /\ \E reply \in Replies :
        LET parsed == Parsed(reply)
        IN votes' = IF parsed.answer = NoAnswer THEN votes
                    ELSE Append(votes, parsed)
    /\ calls' = calls + 1
    /\ UNCHANGED <<solver, shown, result, stage>>

\* The direct and the retrieval solver return what the one reply says.
AskOnce ==
    /\ stage = "asking" /\ solver # "vote"
    /\ \E reply \in Replies : Return(Result(Parsed(reply).answer, Parsed(reply).cited, 1))
    /\ calls' = 1
    /\ UNCHANGED <<solver, shown, votes>>

\* The provider raises: the solver has no result, whatever it has paid.
Raise ==
    /\ stage = "asking" /\ calls < Calls
    /\ stage' = "raised"
    /\ UNCHANGED <<solver, shown, calls, votes, result>>

\* The vote is over: _depth_zero_result makes one attempt of all its calls.
Answer ==
    /\ stage = "asking" /\ solver = "vote" /\ calls = Samples
    /\ Return(Result(IF Modal = {} THEN NoAnswer ELSE votes[Min(Modal)].answer,
                     MajorityEvidence(Modal), calls))
    /\ UNCHANGED <<solver, shown, calls, votes>>

Next == Refuse \/ AskOnce \/ Ask \/ Raise \/ Answer

Spec == Init /\ [][Next]_vars

-----------------------------------------------------------------------------

Voted == stage = "returned" /\ solver = "vote"

Giving(key) == {i \in DOMAIN votes : votes[i].answer.key = key}

\* An answer that more than half of the samples that answered give is the answer; a
\* sample that abstains takes nothing from it, and one that answers is enough.
MajorityIsHeard ==
    Voted =>
        /\ \A i \in DOMAIN votes :
            2 * Cardinality(Giving(votes[i].answer.key)) > Len(votes) =>
                result[1].answer.key = votes[i].answer.key
        /\ (result[1].answer = NoAnswer) <=> (votes = <<>>)
        /\ NoAnswer \notin {votes[i].answer : i \in DOMAIN votes}

\* The evidence is that of the samples that gave the answer: one that answered
\* something else lends its citations to nobody.  When each would be supported
\* and no needless document is cited by most of them, so is the vote.
EvidenceIsTheirs ==
    Voted =>
        LET agreed == Giving(result[1].answer.key) IN
        /\ result[1].cited \subseteq UNION {votes[i].cited : i \in agreed}
        /\ (/\ agreed # {}
            /\ \A i \in agreed : Supported(votes[i])
            /\ \A d \in Docs \ Required : 2 * CitedBy(d, agreed) <= Cardinality(agreed))
           => Supported(result[1])

\* The vote is the majority's, answer and evidence.
VoteIsTheMajoritys == MajorityIsHeard /\ EvidenceIsTheirs
=============================================================================
