------------------------------ MODULE AgentHarness ------------------------------
(***************************************************************************)
(* rlm0/research/agent_harness.py: run_agent_harness over a declared tree. *)
(* Every node runs once its parent has, in a thread pool of its sibling    *)
(* set; one semaphore bounds the runs of all pools together.  A run may    *)
(* fail, or return what the harness refuses, or give an answer that the    *)
(* artifact store refuses; pool.map then lets the siblings that were       *)
(* submitted before run, cancels those still queued and raises.            *)
(***************************************************************************)
EXTENDS Naturals, Sequences, FiniteSets, SequencesExt

CONSTANTS
    Root,
    Children,            \* the children of every node, in their declared order
    MaxDepth, MaxChildrenPerNode, MaxNodes, MaxConcurrency

Node == DOMAIN Children

VARIABLES
    slots,    \* of the semaphore, still free
    stage     \* where execute_node is, for every node

vars == <<slots, stage>>

Stages == {"undeclared", "queued", "waiting", "executing", "storing", "fanning",
           "cancelled", "failed", "done"}
Over == {"cancelled", "failed", "done"}
InPool == {"waiting", "executing", "storing", "fanning"}

-----------------------------------------------------------------------------
(* The plan, checked before the first call.                                  *)

Lesser(a, b) == IF a < b THEN a ELSE b

\* The nodes visited at each depth, with repetitions.
Levels[d \in Nat] ==
    IF d = 0 THEN <<Root>>
    ELSE FlattenSeq([i \in DOMAIN Levels[d - 1] |-> Children[Levels[d - 1][i]]])

Visited == FlattenSeq([d \in 1..(MaxDepth + 1) |-> Levels[d - 1]])

\* _validate_tree.
Valid ==
    /\ Levels[MaxDepth + 1] = <<>>
    /\ \A n \in Range(Visited) : Len(Children[n]) <= MaxChildrenPerNode
    /\ IsInjective(Visited)
    /\ Len(Visited) <= MaxNodes

ParentOf(n) == CHOOSE p \in Node : n \in Range(Children[p])
Siblings(n) == Children[ParentOf(n)]

TypeOK ==
    /\ slots \in 0..MaxConcurrency
    /\ stage \in [Node -> Stages]
    /\ slots + Cardinality({n \in Node : stage[n] = "executing"}) = MaxConcurrency

Init ==
    /\ slots = MaxConcurrency
    /\ stage = [n \in Node |-> IF n = Root /\ Valid THEN "waiting" ELSE "undeclared"]

-----------------------------------------------------------------------------
(* One node: execute_node.                                                   *)

Workers(n) == Lesser(MaxConcurrency, Len(Siblings(n)))
Busy(n) == Cardinality({s \in Range(Siblings(n)) : stage[s] \in InPool})

\* A worker of the pool takes the first node that is queued.
TakeUp(n) ==
    /\ stage[n] = "queued" /\ Busy(n) < Workers(n)
    /\ \A i, j \in DOMAIN Siblings(n) :
        Siblings(n)[j] = n /\ i < j => stage[Siblings(n)[i]] # "queued"
    /\ stage' = [stage EXCEPT ![n] = "waiting"]
    /\ UNCHANGED slots

Enter(n) ==
    /\ stage[n] = "waiting" /\ slots > 0
    /\ slots' = slots - 1
    /\ stage' = [stage EXCEPT ![n] = "executing"]

\* The executor returns or raises; either way the slot is free.  A run without
\* a depth-zero control is an error of the node.
LeaveSlot(n) ==
    /\ stage[n] = "executing"
    /\ slots' = slots + 1
    /\ \E out \in {"failed", "storing"} : stage' = [stage EXCEPT ![n] = out]

\* put_text may refuse the answer.  All the children are submitted at once.
Store(n) ==
    /\ stage[n] = "storing"
    /\ \/ stage' = [stage EXCEPT ![n] = "failed"]
       \/ stage' = [m \in Node |->
              IF m = n THEN IF Children[n] = <<>> THEN "done" ELSE "fanning"
              ELSE IF m \in Range(Children[n]) THEN "queued" ELSE stage[m]]
    /\ UNCHANGED slots

\* pool.map takes the results in order, and at the first failure cancels what
\* no worker has taken up.
Gathered(n) == {i \in DOMAIN Children[n] :
                  \A j \in 1..i : stage[Children[n][j]] = "done"}
FailureSeen(n) == \E i \in DOMAIN Children[n] :
                    /\ stage[Children[n][i]] = "failed"
                    /\ \A j \in 1..(i - 1) : stage[Children[n][j]] = "done"

CancelQueued(n) ==
    /\ stage[n] = "fanning" /\ FailureSeen(n)
    /\ \E m \in Range(Children[n]) : stage[m] = "queued"
    /\ stage' = [m \in Node |-> IF m \in Range(Children[n]) /\ stage[m] = "queued"
                                THEN "cancelled" ELSE stage[m]]
    /\ UNCHANGED slots

\* Seeded fault: a sibling that was cancelled is waited for.
FailWithoutCancelled(n) ==
    /\ stage[n] = "fanning" /\ FailureSeen(n)
    /\ \A m \in Range(Children[n]) : stage[m] \in {"failed", "done"}
    /\ stage' = [stage EXCEPT ![n] = "failed"]
    /\ UNCHANGED slots

\* Leaving the pool waits for the siblings that are running.
Fail(n) ==
    /\ stage[n] = "fanning" /\ FailureSeen(n)
    /\ \A m \in Range(Children[n]) : stage[m] \in Over
    /\ stage' = [stage EXCEPT ![n] = "failed"]
    /\ UNCHANGED slots

Gather(n) ==
    /\ stage[n] = "fanning" /\ Gathered(n) = DOMAIN Children[n]
    /\ stage' = [stage EXCEPT ![n] = "done"]
    /\ UNCHANGED slots

Step(n) == TakeUp(n) \/ Enter(n) \/ LeaveSlot(n) \/ Store(n)
           \/ CancelQueued(n) \/ Fail(n) \/ Gather(n)

Next == \E n \in Node : Step(n)

\* Some thread that can go on does, and an executor returns.
Spec == Init /\ [][Next]_vars /\ WF_vars(Next)

-----------------------------------------------------------------------------

\* However the pools nest, no more agents run at once than the limit says.
BoundedAcrossPools ==
    Cardinality({n \in Node : stage[n] = "executing"}) <= MaxConcurrency

\* A node is over only when nothing under it runs: the caller that gets the
\* result, or the error, has no agent still spending behind its back.
NothingRunsBehind ==
    \A n \in Node : stage[n] \in Over =>
        \A m \in Range(Children[n]) : stage[m] \notin InPool \cup {"queued"}

\* The harness comes to an end with fewer slots than a branch has nodes: none waits for
\* a slot that its own ancestor holds.
HarnessEnds == stage[Root] = "waiting" ~> stage[Root] \in Over

\* The harness keeps its bounds and still ends.
HarnessIsBoundedAndEnds ==
    []BoundedAcrossPools /\ []NothingRunsBehind /\ HarnessEnds
=============================================================================
