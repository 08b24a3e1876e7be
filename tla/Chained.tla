-------------------------------- MODULE Chained --------------------------------
(***************************************************************************)
(* rlm0/research/chained.py: execute_chained runs fresh roots in turn.     *)
(* Each is given the task, the context and the handoff of the one before;  *)
(* a handoff is parsed against its limits and its artifact stored before   *)
(* the next root starts.  The first final handoff ends the chain with a    *)
(* ResearchRun (rlm0/research/contracts.py) that pairs the last root with  *)
(* a control measured before.                                              *)
(*                                                                         *)
(* A text is its length, a blank one being 0.  A run's budget summary is   *)
(* what budget.py's summary() prints: ceilings and what has been spent.    *)
(***************************************************************************)
EXTENDS Naturals, Sequences, FiniteSets

CONSTANTS
    Answers,      \* what roots answer: records of Handoff, or of NotAHandoff
    HandoffLimit, \* summary, blackboard, next and artifact_update, in characters
    MaxRoots,
    Spendings     \* what a run may have spent by its end

VARIABLES
    roots,      \* the runs accepted, each a handoff with its spending
    sees,       \* the handoff each root was given, with none for the first
    artifacts,  \* what is in the store, by the root that produced it
    pending,    \* the answer of the root that has returned
    control,    \* the spending in the control's budget summary
    outcome     \* "running", "returned" or the error execute_chained raised

vars == <<roots, sees, artifacts, pending, control, outcome>>

Fields == {"summary", "blackboard", "next", "artifact_update"}
NotAHandoff == [protocol |-> FALSE]
Errors == {"protocol", "artifact", "limit", "record"}

TypeOK ==
    /\ roots \in Seq([answer : Answers, spent : Spendings])
    /\ Len(roots) <= MaxRoots
    /\ sees \in Seq(Answers \cup {NotAHandoff})
    /\ artifacts \subseteq 1..MaxRoots
    /\ pending \in Seq([answer : Answers, spent : Spendings])
    /\ control \in Spendings
    /\ outcome \in Errors \cup {"running", "returned"}

Init ==
    /\ roots = <<>> /\ sees = <<>> /\ artifacts = {} /\ pending = <<>>
    /\ control \in Spendings
    /\ outcome = "running"

Bounded(handoff, field) == handoff[field] \in 1..HandoffLimit[field]

\* parse_handoff, with ChainedHandoff.validate.
Acceptable(answer) ==
    /\ answer.protocol
    /\ \A f \in {"summary", "blackboard", "artifact_update"} : Bounded(answer, f)
    /\ IF answer.final THEN answer["next"] = 0 ELSE Bounded(answer, "next")

\* The handoff the next root is given: _root_context.
Previous == IF roots = <<>> THEN NotAHandoff ELSE roots[Len(roots)].answer

\* A fresh root runs to its end and is paid for.  One that raises, answers
\* nothing or changes the task is an answer that is no handoff.
RunRoot ==
    /\ outcome = "running" /\ pending = <<>> /\ Len(roots) < MaxRoots
    /\ sees' = Append(sees, Previous)
    /\ \E a \in Answers, s \in Spendings : pending' = <<[answer |-> a, spent |-> s]>>
    /\ UNCHANGED <<roots, artifacts, control, outcome>>

Reject ==
    /\ outcome = "running" /\ pending # <<>> /\ ~Acceptable(pending[1].answer)
    /\ outcome' = "protocol"
    /\ UNCHANGED <<roots, sees, artifacts, pending, control>>

\* The store refuses the artifact: too large, or no room left.
StoreRefuses ==
    /\ outcome = "running" /\ pending # <<>> /\ Acceptable(pending[1].answer)
    /\ outcome' = "artifact"
    /\ UNCHANGED <<roots, sees, artifacts, pending, control>>

\* Trials are compared with their control by the budget summary of each.
Recordable(spent) == spent = control

\* Seeded fault: the artifact is left to the end of the chain.
AcceptWithoutArtifact ==
    /\ outcome = "running" /\ pending # <<>> /\ Acceptable(pending[1].answer)
    /\ roots' = Append(roots, pending[1])
    /\ pending' = <<>>
    /\ outcome' = IF ~pending[1].answer.final THEN "running"
                  ELSE IF Recordable(pending[1].spent) THEN "returned" ELSE "record"
    /\ UNCHANGED <<sees, artifacts, control>>

\* Stored, then kept; a final handoff ends the chain.
Accept ==
    /\ outcome = "running" /\ pending # <<>> /\ Acceptable(pending[1].answer)
    /\ artifacts' = artifacts \cup {Len(roots) + 1}
    /\ roots' = Append(roots, pending[1])
    /\ pending' = <<>>
    /\ outcome' = IF ~pending[1].answer.final THEN "running"
                  ELSE IF Recordable(pending[1].spent) THEN "returned" ELSE "record"
    /\ UNCHANGED <<sees, control>>

GiveUp ==
    /\ outcome = "running" /\ pending = <<>> /\ Len(roots) = MaxRoots
    /\ outcome' = "limit"
    /\ UNCHANGED <<roots, sees, artifacts, pending, control>>

Next == RunRoot \/ Reject \/ StoreRefuses \/ Accept \/ GiveUp

Spec == Init /\ [][Next]_vars

-----------------------------------------------------------------------------

\* A root acts on nothing but the handoff before it, and on that only when it
\* was within its limits and its artifact in the store.
SeesOnlyWhatIsStored ==
    \A i \in DOMAIN sees :
        IF i = 1 THEN sees[i] = NotAHandoff
        ELSE /\ Acceptable(sees[i]) /\ ~sees[i].final
             /\ i - 1 \in artifacts

\* A valid final handoff is the end of a chain that is returned.
FinalHandoffIsReturned ==
    roots # <<>> /\ roots[Len(roots)].answer.final => outcome = "returned"
=============================================================================
