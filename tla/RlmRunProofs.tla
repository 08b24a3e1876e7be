----------------------------- MODULE RlmRunProofs -----------------------------
(***************************************************************************)
(* What holds of the ladder of attempts for every policy, every ceiling    *)
(* and every bound on depth, attempts and calls.                           *)
(***************************************************************************)
EXTENDS RlmRun, Sums

\* Where the ladder stands.  While an attempt runs there is room for it and it is
\* deeper than all before it; once it is closed it is the last of the list.
Standing ==
    /\ phase = "attempt" =>
        /\ Len(attempts) < MaxAttempts
        /\ \A i \in 1..Len(attempts) : attempts[i].depth < depth
        /\ attempts = <<>> => depth = 0
    /\ phase # "attempt" =>
        /\ Len(attempts) > 0
        /\ attempts[Len(attempts)].depth = depth

\* While an attempt runs, the escalating policy had reason to start it.
EveryoneFailed ==
    policy = "escalating" /\ phase = "attempt" =>
        \A i \in 1..Len(attempts) :
            /\ attempts[i].outcome # "answered"
            /\ StopOnError => attempts[i].outcome # "errored"

\* The inductive invariant of a run.
IInv ==
    /\ TypeOK
    /\ Standing
    /\ LadderIsOrdered
    /\ EveryoneFailed
    /\ EscalatesOnlyAfterFailure

-----------------------------------------------------------------------------
(* The ledger's types, under the two verbs a run uses and the clock.         *)

\* A call that is charged leaves the ledger's counters natural numbers.
LEMMA ChargeType ==
    ASSUME BudgetTypeOK, NEW usage \in Quantity, NEW priced \in BOOLEAN,
           Charge(usage, priced)
    PROVE  BudgetTypeOK'
<1>1. usage["tokens"] \in Nat /\ usage["usd"] \in Nat
  BY AmountAssumption DEF Quantity, Resource
<1>2. settled' \in Amount
  BY <1>1 DEF Charge, BudgetTypeOK, Amount, Resource
<1> QED BY <1>2 DEF Charge, BudgetTypeOK

\* So do two calls that are granted and lost.
LEMMA ReserveType ==
    ASSUME BudgetTypeOK, NEW e \in Amounts, Reserve(2, Tokens(e))
    PROVE  BudgetTypeOK'
<1>1. e \in Nat
  BY AmountAssumption
<1>2. \A r \in Resource : Tokens(e)[r] \in Nat
  BY <1>1 DEF Tokens, Resource
<1>3. pending' \in Amount
  BY <1>2 DEF Reserve, BudgetTypeOK, Amount
<1> QED BY <1>3 DEF Reserve, BudgetTypeOK

\* And so does a step that leaves the ledger alone.
LEMMA QuietType == BudgetTypeOK /\ UNCHANGED budgetVars => BudgetTypeOK'
BY DEF BudgetTypeOK, budgetVars

-----------------------------------------------------------------------------
(* The steps.                                                                *)

\* The depths of the closed attempts are numbers.
LEMMA DepthsAreNumbers ==
    ASSUME TypeOK
    PROVE  Len(attempts) \in Nat /\ \A i \in 1..Len(attempts) : attempts[i].depth \in Nat
<1>1. attempts \in Seq(Attempt)
  BY DEF TypeOK
<1>2. ASSUME NEW i \in 1..Len(attempts) PROVE attempts[i] \in Attempt
  BY <1>1
<1> QED BY <1>1, <1>2 DEF Attempt

\* An attempt that closes is put at the end of the list, and was the deepest.
LEMMA CloseKeeps ==
    ASSUME IInv, BudgetTypeOK', NEW how \in Outcome, NEW extra \in Nat,
           CloseAttempt(how, extra)
    PROVE  IInv'
<1> DEFINE a == [depth |-> depth, outcome |-> how, calls |-> calls + extra, subs |-> subs]
<1>1. a \in Attempt
  BY DEF IInv, TypeOK, Attempt
<1>2. /\ attempts \in Seq(Attempt) /\ Len(attempts) \in Nat
      /\ attempts' = Append(attempts, a)
      /\ phase = "attempt" /\ phase' = "decide"
      /\ depth' = depth /\ policy' = policy /\ experimental' = experimental
  BY DEF IInv, TypeOK, CloseAttempt, ClosedCalls, built
<1>3. /\ Len(attempts') = Len(attempts) + 1
      /\ attempts'[Len(attempts')] = a
      /\ \A i \in 1..Len(attempts) : attempts'[i] = attempts[i]
      /\ attempts' \in Seq(Attempt)
  BY <1>1, <1>2
<1> HIDE DEF a
<1>4. a.depth = depth
  BY DEF a
<1>5. TypeOK'
  <2>1. calls' = 0 /\ subs' = 0
    BY DEF CloseAttempt
  <2>2. Len(attempts') <= MaxAttempts
    BY <1>2, <1>3, RunAssumption DEF IInv, Standing
  <2>3. depth \in Nat /\ policy \in PolicyName /\ experimental \in BOOLEAN
    BY DEF IInv, TypeOK
  <2> QED BY <1>2, <1>3, <2>1, <2>2, <2>3 DEF TypeOK
<1>6. Standing'
  BY <1>2, <1>3, <1>4 DEF Standing
<1>7. LadderIsOrdered'
  <2>1. \A i \in 1..Len(attempts) : attempts[i].depth < depth
    BY <1>2 DEF IInv, Standing
  <2>2. attempts'[1].depth = 0
    <3>1. CASE attempts = <<>>
      <4>1. Len(attempts) = 0 /\ depth = 0
        BY <1>2, <3>1 DEF IInv, Standing
      <4> QED BY <1>3, <1>4, <4>1
    <3>2. CASE attempts # <<>>
      <4>1. 1 \in 1..Len(attempts) /\ attempts[1].depth = 0
        BY <1>2, <3>2 DEF IInv, LadderIsOrdered, ControlComesFirst
      <4> QED BY <1>3, <4>1
    <3> QED BY <3>1, <3>2
  <2>3. \A i, j \in 1..Len(attempts') : i < j => attempts'[i].depth < attempts'[j].depth
    <3> SUFFICES ASSUME NEW i \in 1..Len(attempts'), NEW j \in 1..Len(attempts'), i < j
                 PROVE  attempts'[i].depth < attempts'[j].depth
      OBVIOUS
    <3>1. i \in 1..Len(attempts) /\ attempts'[i] = attempts[i]
      BY <1>2, <1>3
    <3>2. CASE j = Len(attempts')
      BY <1>3, <1>4, <2>1, <3>1, <3>2
    <3>3. CASE j # Len(attempts')
      <4>1. j \in 1..Len(attempts) /\ attempts'[j] = attempts[j]
        BY <1>2, <1>3, <3>3
      <4> QED BY <3>1, <4>1 DEF IInv, LadderIsOrdered, ControlComesFirst
    <3> QED BY <3>2, <3>3
  <2>4. ControlComesFirst'
    BY <1>2, <2>2, <2>3 DEF ControlComesFirst
  <2>5. ShallowUnlessExperimental'
    BY <1>2, <1>3, <1>4 DEF IInv, LadderIsOrdered, ShallowUnlessExperimental
  <2> QED BY <2>4, <2>5 DEF LadderIsOrdered
<1>8. EveryoneFailed' /\ EscalatesOnlyAfterFailure'
  BY <1>2, <1>3 DEF IInv, EveryoneFailed, EscalatesOnlyAfterFailure
<1> QED BY <1>5, <1>6, <1>7, <1>8 DEF IInv

\* What a policy proposes is Unset or a depth.
LEMMA ProposalIsADepth ==
    ASSUME NEW proposal \in Proposals
    PROVE  proposal = Unset \/ proposal \in Nat
BY RunAssumption DEF Proposals

\* The escalating policy proposes a depth only after a failure at the task.
LEMMA ProposalHasAReason ==
    ASSUME policy = "escalating", NEW proposal \in Proposals, proposal # Unset
    PROVE  EscalatesFrom(attempts[Len(attempts)].outcome)
<1>1. Wants(proposal)
  BY DEF Proposals
<1> QED BY <1>1 DEF Wants, LastOf

\* The next attempt is deeper than every one before it.
LEMMA EscalateKeeps == ASSUME IInv, Escalate PROVE IInv'
<1>1. PICK proposal \in Proposals :
        Deeper(proposal) /\ Allowed(proposal) /\ AttemptsLeft /\ depth' = proposal
  BY DEF Escalate
<1>2. /\ phase = "decide" /\ phase' = "attempt" /\ attempts' = attempts
      /\ policy' = policy /\ experimental' = experimental
      /\ calls' = calls /\ subs' = subs /\ UNCHANGED budgetVars
  BY DEF Escalate, built
<1>3. proposal \in Nat /\ proposal > depth /\ proposal # Unset
  BY <1>1, <1>2, ProposalIsADepth DEF IInv, Deeper
<1>4. /\ Len(attempts) \in Nat /\ Len(attempts) > 0
      /\ attempts[Len(attempts)].depth = depth /\ depth \in Nat
      /\ \A i \in 1..Len(attempts) : attempts[i].depth \in Nat
  BY <1>2, DepthsAreNumbers DEF IInv, TypeOK, Standing
<1>5. TypeOK'
  BY <1>1, <1>2, <1>3, QuietType DEF IInv, TypeOK
<1>6. \A i \in 1..Len(attempts) : attempts[i].depth < proposal
  <2> SUFFICES ASSUME NEW i \in 1..Len(attempts) PROVE attempts[i].depth < proposal
    OBVIOUS
  <2>1. attempts[i].depth <= depth
    <3>1. CASE i = Len(attempts)
      BY <1>4, <3>1
    <3>2. CASE i # Len(attempts)
      <4>1. attempts[i].depth < attempts[Len(attempts)].depth
        BY <1>4, <3>2 DEF IInv, LadderIsOrdered, ControlComesFirst
      <4> QED BY <1>4, <4>1
    <3> QED BY <3>1, <3>2
  <2> QED BY <1>3, <1>4, <2>1
<1>7. Standing'
  BY <1>1, <1>2, <1>4, <1>6 DEF Standing, AttemptsLeft
<1>8. LadderIsOrdered'
  BY <1>1, <1>2, <1>3
  DEF IInv, LadderIsOrdered, ControlComesFirst, ShallowUnlessExperimental, Allowed
<1>9. EveryoneFailed'
  <2> SUFFICES ASSUME policy = "escalating", NEW i \in 1..Len(attempts)
               PROVE  /\ attempts[i].outcome # "answered"
                      /\ StopOnError => attempts[i].outcome # "errored"
    BY <1>2 DEF EveryoneFailed
  <2>1. CASE i = Len(attempts)
    BY <1>1, <1>3, <2>1, ProposalHasAReason DEF EscalatesFrom
  <2>2. CASE i # Len(attempts)
    <3>1. i \in 1..(Len(attempts) - 1)
      BY <1>4, <2>2
    <3> QED BY <3>1 DEF IInv, EscalatesOnlyAfterFailure
  <2> QED BY <2>1, <2>2
<1>10. EscalatesOnlyAfterFailure'
  BY <1>2 DEF IInv, EscalatesOnlyAfterFailure
<1> QED BY <1>5, <1>7, <1>8, <1>9, <1>10 DEF IInv

\* A run that ends is accepted: the constructor's checks ask for less than the
\* ladder keeps.
LEMMA StopKeeps == ASSUME IInv, Stop \/ RefuseDepth PROVE IInv'
<1>1. /\ phase = "decide" /\ phase' \in {"built", "raised"}
      /\ UNCHANGED <<budgetVars, built, depth, calls, subs, attempts>>
  BY DEF Stop, RefuseDepth
<1>2. phase' = "raised" => ~experimental
  <2>1. CASE RefuseDepth
    BY <2>1 DEF RefuseDepth, Allowed
  <2>2. CASE Stop
    <3>1. Accepts(attempts)
      <4>1. Len(attempts) \in Nat /\ Len(attempts) > 0 /\ attempts # <<>>
        BY <1>1 DEF IInv, TypeOK, Standing
      <4>2. \A i \in 1..Len(attempts) : attempts[i].depth \in Nat
        BY DepthsAreNumbers DEF IInv
      <4> QED BY <4>1, <4>2 DEF Accepts, IInv, LadderIsOrdered, ControlComesFirst
    <3> QED BY <2>2, <3>1 DEF Stop
  <2> QED BY <2>1, <2>2
<1>3. TypeOK'
  BY <1>1, QuietType DEF IInv, TypeOK, built
<1>4. Standing' /\ EveryoneFailed'
  BY <1>1 DEF IInv, Standing, EveryoneFailed
<1>5. LadderIsOrdered' /\ EscalatesOnlyAfterFailure'
  BY <1>1, <1>2
  DEF IInv, LadderIsOrdered, ControlComesFirst, ShallowUnlessExperimental,
      EscalatesOnlyAfterFailure, built
<1> QED BY <1>3, <1>4, <1>5 DEF IInv

\* A step inside the running attempt changes its calls and the ledger only.
LEMMA InsideKeeps ==
    ASSUME IInv, BudgetTypeOK', calls' \in Nat, subs' \in 0..calls',
           UNCHANGED <<built, phase, depth, attempts>>
    PROVE  IInv'
<1>1. TypeOK'
  BY DEF IInv, TypeOK, built
<1> QED BY <1>1
        DEF IInv, Standing, EveryoneFailed, LadderIsOrdered, ControlComesFirst,
            ShallowUnlessExperimental, EscalatesOnlyAfterFailure, built

\* Every step of a run keeps the invariant.
LEMMA RunNextInv == IInv /\ [Next]_vars => IInv'
<1> SUFFICES ASSUME IInv, [Next]_vars PROVE IInv'
  OBVIOUS
<1>1. BudgetTypeOK
  BY DEF IInv, TypeOK
<1>2. CASE PaidTurn
  <2>1. BudgetTypeOK'
    BY <1>1, <1>2, ChargeType DEF PaidTurn
  <2>2. /\ calls' \in Nat /\ subs' \in 0..calls'
        /\ UNCHANGED <<built, phase, depth, attempts>>
    BY <1>2 DEF PaidTurn, IInv, TypeOK
  <2> QED BY <2>1, <2>2, InsideKeeps
<1>3. CASE Answers
  BY <1>1, <1>3, QuietType, CloseKeeps DEF Answers, Outcome
<1>4. CASE RunsOutOfTurns
  BY <1>1, <1>4, QuietType, CloseKeeps DEF RunsOutOfTurns, Outcome
<1>5. CASE TimesOut
  BY <1>1, <1>5, QuietType, CloseKeeps DEF TimesOut, Outcome
<1>6. CASE Errs
  <2>1. BudgetTypeOK'
    BY <1>1, <1>6, QuietType, ReserveType DEF Errs
  <2> QED BY <1>6, <2>1, CloseKeeps DEF Errs, Outcome
<1>7. CASE Exhausts
  <2>1. BudgetTypeOK'
    BY <1>1, <1>7, QuietType, ChargeType DEF Exhausts
  <2>2. CloseAttempt("budget_exhausted", 1) \/ CloseAttempt("budget_exhausted", 0)
    BY <1>7 DEF Exhausts
  <2> QED BY <2>1, <2>2, CloseKeeps DEF Outcome
<1>8. CASE Escalate
  BY <1>8, EscalateKeeps
<1>9. CASE Stop \/ RefuseDepth
  BY <1>9, StopKeeps
<1>10. CASE PassTime \/ UNCHANGED vars
  <2>1. BudgetTypeOK'
    BY <1>1, <1>10, QuietType DEF PassTime, Tick, BudgetTypeOK, vars
  <2>2. /\ calls' \in Nat /\ subs' \in 0..calls'
        /\ UNCHANGED <<built, phase, depth, attempts>>
    BY <1>10 DEF PassTime, vars, runVars, IInv, TypeOK
  <2> QED BY <2>1, <2>2, InsideKeeps
<1> QED BY <1>2, <1>3, <1>4, <1>5, <1>6, <1>7, <1>8, <1>9, <1>10 DEF Next

\* The invariant holds of every run.
THEOREM RunInvariant == Spec => []IInv
<1>1. Init => IInv
  <2> SUFFICES ASSUME Init PROVE IInv
    OBVIOUS
  <2>1. BudgetTypeOK
    BY DEF Init, BudgetInit, BudgetTypeOK, NoAmount, Amount
  <2>2. TypeOK
    BY <2>1, RunAssumption DEF Init, TypeOK
  <2> QED BY <2>2, RunAssumption
          DEF Init, IInv, Standing, EveryoneFailed, LadderIsOrdered, ControlComesFirst,
              ShallowUnlessExperimental, EscalatesOnlyAfterFailure
<1> QED BY <1>1, RunNextInv, PTL DEF Spec

\* A run keeps its types, and no more attempts than max_attempts.
THEOREM RunTypeCorrect == Spec => []TypeOK
BY RunInvariant, PTL DEF IInv

\* Whatever the policy proposes, attempts start at depth zero, strictly deepen, stay
\* shallow without the opt-in, and make a run that its constructor accepts.
THEOREM LadderIsOrderedHolds == Spec => []LadderIsOrdered
BY RunInvariant, PTL DEF IInv

\* The escalating policy never pays for a deeper attempt after an answer, nor after
\* an error when it is to stop on one.
THEOREM EscalatesOnlyAfterFailureHolds == Spec => []EscalatesOnlyAfterFailure
BY RunInvariant, PTL DEF IInv

-----------------------------------------------------------------------------
(* Facts about numbers and sums, by the least counterexample: the natural    *)
(* numbers are well ordered, so a property that some number lacks is lacking *)
(* at a least one.                                                           *)

\* A set of indices that has an element has a greatest one.
LEMMA GreatestIndex ==
    ASSUME NEW n \in Nat, NEW S \in SUBSET (1..n), S # {}
    PROVE  Max(S) \in S /\ \A i \in S : i <= Max(S)
<1> DEFINE T == {k \in 0..n : n - k \in S}
<1>1. T \in SUBSET Nat /\ T # {}
  <2>1. PICK i \in S : TRUE
    OBVIOUS
  <2>2. n - i \in 0..n /\ n - (n - i) = i
    OBVIOUS
  <2>3. n - i \in T
    BY <2>1, <2>2
  <2>4. \A k \in T : k \in Nat
    OBVIOUS
  <2> QED BY <2>3, <2>4
<1>2. PICK k \in T : \A m \in T : k <= m
  BY <1>1, LeastNat
<1>3. n - k \in S /\ \A i \in S : n - k >= i
  <2> SUFFICES ASSUME NEW i \in S PROVE n - k >= i
    OBVIOUS
  <2>1. n - i \in 0..n /\ n - (n - i) = i /\ k \in 0..n
    OBVIOUS
  <2>2. k <= n - i
    BY <1>2, <2>1
  <2> QED BY <2>1, <2>2
<1>4. Max(S) \in S /\ \A i \in S : Max(S) >= i
  BY <1>3 DEF Max
<1> QED BY <1>4

\* The calls of the attempts whose indices are in a set.  The fold that adds them
\* up is a recursive function over the sets of indices.
Adds(g, s, n) ==
    g = [t \in SUBSET (1..n) |->
           IF t = {} THEN 0 ELSE g[t \ {Max(t)}] + s[Max(t)].calls]

Billed(s) == FoldLeft(LAMBDA n, a : n + a.calls, 0, s)

\* That function exists, for every number of attempts: an index more is added to
\* a sum over the others.
LEMMA AddsExists ==
    ASSUME NEW s
    PROVE  \A n \in Nat : \E g : Adds(g, s, n)
<1> DEFINE T == {n \in Nat : ~\E g : Adds(g, s, n)}
<1> SUFFICES ASSUME T # {} PROVE FALSE
  OBVIOUS
<1>1. PICK n \in T : \A m \in T : n <= m
  BY LeastNat
<1>2. n # 0
  <2>1. Adds([t \in SUBSET (1..0) |-> 0], s, 0)
    BY DEF Adds
  <2> QED BY <2>1
<1>3. n \in Nat /\ n - 1 \in Nat
  BY <1>2
<1>4. PICK g : Adds(g, s, n - 1)
  BY <1>1, <1>3
<1> DEFINE h == [t \in SUBSET (1..n) |->
                   IF n \in t THEN g[t \ {n}] + s[n].calls ELSE g[t]]
<1>5. ASSUME NEW t \in SUBSET (1..n)
      PROVE  h[t] = IF t = {} THEN 0 ELSE h[t \ {Max(t)}] + s[Max(t)].calls
  <2>1. CASE n \in t
    <3>1. Max(t) = n
      <4>1. Max(t) \in t /\ \A i \in t : i <= Max(t)
        BY <1>3, <2>1, GreatestIndex
      <4>2. Max(t) \in 1..n /\ n <= Max(t)
        BY <2>1, <4>1
      <4> QED BY <1>3, <4>2
    <3>2. t \ {n} \in SUBSET (1..n) /\ n \notin t \ {n}
      OBVIOUS
    <3>3. h[t \ {n}] = g[t \ {n}]
      BY <3>2
    <3> QED BY <2>1, <3>1, <3>3
  <2>2. CASE n \notin t
    <3>1. t \in SUBSET (1..(n - 1)) /\ \A u \in SUBSET t : u \in SUBSET (1..n) /\ n \notin u
      BY <1>3, <2>2
    <3>2. g[t] = IF t = {} THEN 0 ELSE g[t \ {Max(t)}] + s[Max(t)].calls
      BY <1>4, <3>1 DEF Adds
    <3>3. h[t] = g[t] /\ h[t \ {Max(t)}] = g[t \ {Max(t)}]
      BY <3>1
    <3> QED BY <3>2, <3>3
  <2> QED BY <2>1, <2>2
<1> HIDE DEF h
<1>6. h = [t \in SUBSET (1..n) |-> h[t]]
  BY DEF h
<1>7. Adds(h, s, n)
  BY <1>5, <1>6 DEF Adds
<1> QED BY <1>7

\* So the fold is the value of some such function.
LEMMA BilledIsASum ==
    ASSUME NEW s, NEW n \in Nat, DOMAIN s = 1..n
    PROVE  \E g : Adds(g, s, n) /\ Billed(s) = g[1..n]
<1> DEFINE g == CHOOSE f : Adds(f, s, n)
<1>1. Adds(g, s, n)
  BY AddsExists
<1>2. Billed(s) = g[1..n]
  BY DEF Billed, FoldLeft, MapThenFoldSet, Adds
<1> QED BY <1>1, <1>2

\* Over an initial segment a sum is the sum without its last index, plus that.
LEMMA AddsSegment ==
    ASSUME NEW s, NEW n \in Nat, NEW g, Adds(g, s, n)
    PROVE  /\ g[1..0] = 0
           /\ \A m \in 1..n : g[1..m] = g[1..(m - 1)] + s[m].calls
<1>1. g[1..0] = 0
  BY DEF Adds
<1>2. ASSUME NEW m \in 1..n PROVE g[1..m] = g[1..(m - 1)] + s[m].calls
  <2>1. 1..m \in SUBSET (1..n) /\ m \in 1..m /\ m \in Nat
    OBVIOUS
  <2>2. Max(1..m) = m
    <3>1. Max(1..m) \in 1..m /\ \A i \in 1..m : i <= Max(1..m)
      BY <2>1, GreatestIndex
    <3> QED BY <2>1, <3>1
  <2>3. (1..m) \ {m} = 1..(m - 1)
    BY <2>1
  <2> QED BY <2>1, <2>2, <2>3 DEF Adds
<1> QED BY <1>1, <1>2

\* Two lists that agree on their first indices have billed the same up to there.
LEMMA AddsAgree ==
    ASSUME NEW s, NEW n \in Nat, NEW g, Adds(g, s, n),
           NEW ss, NEW nn \in Nat, NEW gg, Adds(gg, ss, nn),
           n <= nn, \A i \in 1..n : s[i] = ss[i]
    PROVE  \A m \in 0..n : g[1..m] = gg[1..m]
<1> DEFINE T == {m \in 0..n : g[1..m] # gg[1..m]}
<1> SUFFICES ASSUME T # {} PROVE FALSE
  OBVIOUS
<1>0. T \in SUBSET Nat
  OBVIOUS
<1>1. PICK m \in T : \A k \in T : m <= k
  <2> HIDE DEF T
  <2> QED BY <1>0, LeastNat
<1>2. m # 0
  BY AddsSegment
<1>3. m \in 1..n /\ m \in 1..nn /\ m - 1 \in 0..n /\ m - 1 \notin T
  BY <1>1, <1>2
<1>4. g[1..m] = g[1..(m - 1)] + s[m].calls /\ gg[1..m] = gg[1..(m - 1)] + ss[m].calls
  BY <1>3, AddsSegment
<1> QED BY <1>3, <1>4

\* What a list has billed is a number, if each attempt's calls are.
LEMMA AddsType ==
    ASSUME NEW s, NEW n \in Nat, NEW g, Adds(g, s, n), \A i \in 1..n : s[i].calls \in Nat
    PROVE  \A m \in 0..n : g[1..m] \in Nat
<1> DEFINE T == {m \in 0..n : g[1..m] \notin Nat}
<1> SUFFICES ASSUME T # {} PROVE FALSE
  OBVIOUS
<1>0. T \in SUBSET Nat
  OBVIOUS
<1>1. PICK m \in T : \A k \in T : m <= k
  <2> HIDE DEF T
  <2> QED BY <1>0, LeastNat
<1>2. m # 0
  BY AddsSegment
<1>3. m \in 1..n /\ m - 1 \in 0..n /\ m - 1 \notin T
  BY <1>1, <1>2
<1>4. g[1..m] = g[1..(m - 1)] + s[m].calls
  BY <1>3, AddsSegment
<1> QED BY <1>3, <1>4

\* An attempt that is closed adds its calls to what was billed before.
LEMMA BilledAppend ==
    ASSUME NEW s \in Seq(Attempt), NEW a \in Attempt
    PROVE  /\ Billed(s) \in Nat
           /\ Billed(Append(s, a)) = Billed(s) + a.calls
<1> DEFINE ss == Append(s, a)  n == Len(s)
<1>1. /\ n \in Nat /\ DOMAIN s = 1..n /\ DOMAIN ss = 1..(n + 1)
      /\ ss[n + 1] = a /\ \A i \in 1..n : s[i] = ss[i] /\ s[i] \in Attempt
  OBVIOUS
<1> HIDE DEF ss, n
<1>2. PICK g : Adds(g, s, n) /\ Billed(s) = g[1..n]
  BY <1>1, BilledIsASum
<1>3. PICK gg : Adds(gg, ss, n + 1) /\ Billed(ss) = gg[1..(n + 1)]
  BY <1>1, BilledIsASum
<1>4. n + 1 \in Nat /\ n <= n + 1 /\ n \in 0..n /\ n + 1 \in 1..(n + 1) /\ (n + 1) - 1 = n
  BY <1>1
<1>5. g[1..n] = gg[1..n]
  BY <1>1, <1>2, <1>3, <1>4, AddsAgree
<1>6. gg[1..(n + 1)] = gg[1..n] + a.calls
  BY <1>1, <1>3, <1>4, AddsSegment
<1>7. g[1..n] \in Nat
  <2>1. \A i \in 1..n : s[i].calls \in Nat
    BY <1>1 DEF Attempt
  <2> QED BY <1>1, <1>2, <1>4, <2>1, AddsType
<1> QED BY <1>2, <1>3, <1>5, <1>6, <1>7 DEF ss

\* An empty list has billed nothing.
LEMMA BilledEmpty == Billed(<<>>) = 0
<1>1. DOMAIN <<>> = 1..0 /\ 0 \in Nat
  OBVIOUS
<1>2. PICK g : Adds(g, <<>>, 0) /\ Billed(<<>>) = g[1..0]
  BY <1>1, BilledIsASum
<1> QED BY <1>2, AddsSegment
-----------------------------------------------------------------------------
(* The cost table and the verdict.                                           *)

\* The property in the terms of the lemmas on sums.
LEMMA SpendIsBilled ==
    /\ SpendIsAttributed <=> callsSettled = calls + Billed(attempts)
    /\ SpendIsAttributed' <=> callsSettled' = calls' + Billed(attempts)'
<1>1. SpendIsAttributed <=> callsSettled = calls + Billed(attempts)
  BY DEF SpendIsAttributed, Billed
<1>2. SpendIsAttributed' <=> callsSettled' = calls' + Billed(attempts)'
  BY <1>1 DEF SpendIsAttributed, Billed
<1> QED BY <1>1, <1>2

\* Every step bills the running attempt what it bills the ledger, and closes it
\* with all of it.
LEMMA SpendStep ==
    ASSUME IInv, SpendIsAttributed, [Next]_vars
    PROVE  SpendIsAttributed'
<1>1. /\ callsSettled \in Nat /\ calls \in Nat /\ attempts \in Seq(Attempt)
      /\ depth \in Nat /\ subs \in 0..calls
  BY DEF IInv, TypeOK, BudgetTypeOK
<1>2. callsSettled = calls + Billed(attempts) /\ Billed(attempts) \in Nat
  <2>1. Billed(attempts) \in Nat
    <3>1. [depth |-> 0, outcome |-> "answered", calls |-> 0, subs |-> 0] \in Attempt
      BY DEF Attempt, Outcome
    <3> QED BY <1>1, <3>1, BilledAppend
  <2> QED BY <2>1, SpendIsBilled
<1>3. SUFFICES callsSettled' = calls' + Billed(attempts')
  BY SpendIsBilled
<1>4. ASSUME NEW how \in Outcome, NEW extra \in Nat, CloseAttempt(how, extra),
             callsSettled' = callsSettled + extra
      PROVE  callsSettled' = calls' + Billed(attempts')
  <2> DEFINE a == [depth |-> depth, outcome |-> how, calls |-> calls + extra, subs |-> subs]
  <2>1. a \in Attempt /\ a.calls = calls + extra
    BY <1>1 DEF Attempt
  <2>2. attempts' = Append(attempts, a) /\ calls' = 0
    BY <1>4 DEF CloseAttempt, ClosedCalls
  <2> HIDE DEF a
  <2>3. Billed(attempts') = Billed(attempts) + (calls + extra)
    BY <1>1, <2>1, <2>2, BilledAppend
  <2> QED BY <1>1, <1>2, <1>4, <2>2, <2>3
<1>5. CASE PaidTurn
  BY <1>1, <1>2, <1>5 DEF PaidTurn, Charge
<1>6. CASE Answers \/ RunsOutOfTurns \/ TimesOut \/ Errs
  <2>1. PICK how \in Outcome : CloseAttempt(how, 0)
    BY <1>6 DEF Answers, RunsOutOfTurns, TimesOut, Errs, Outcome
  <2>2. callsSettled' = callsSettled + 0
    BY <1>1, <1>6 DEF Answers, RunsOutOfTurns, TimesOut, Errs, budgetVars, Reserve
  <2> QED BY <1>4, <2>1, <2>2
<1>7. CASE Exhausts
  <2>1. \/ CloseAttempt("budget_exhausted", 1) /\ callsSettled' = callsSettled + 1
        \/ CloseAttempt("budget_exhausted", 0) /\ callsSettled' = callsSettled + 0
    BY <1>1, <1>7 DEF Exhausts, Charge, budgetVars
  <2> QED BY <1>4, <2>1 DEF Outcome
<1>8. CASE Escalate \/ RefuseDepth \/ Stop \/ PassTime \/ UNCHANGED vars
  <2>1. UNCHANGED <<callsSettled, calls, attempts>>
    BY <1>8 DEF Escalate, RefuseDepth, Stop, PassTime, Tick, vars, runVars, budgetVars
  <2> QED BY <1>2, <2>1
<1> QED BY <1>5, <1>6, <1>7, <1>8 DEF Next

\* Every call the budget was charged for belongs to exactly one attempt, however
\* many attempts the run makes and however each of them ends.
THEOREM SpendIsAttributedHolds == Spec => []SpendIsAttributed
<1>1. Init => SpendIsAttributed
  <2>1. Init => callsSettled = 0 /\ calls = 0 /\ attempts = <<>>
    BY DEF Init, BudgetInit
  <2> QED BY <2>1, BilledEmpty, SpendIsBilled
<1>2. IInv /\ SpendIsAttributed /\ [Next]_vars => SpendIsAttributed'
  BY SpendStep
<1> QED BY <1>1, <1>2, RunInvariant, PTL DEF Spec

\* The attempt that is reported answered if any did, and the verdict credits
\* recursion exactly when the answer is not the control's.
LEMMA VerdictStep ==
    ASSUME IInv
    PROVE  VerdictIsEarned
<1> DEFINE answered == {i \in 1..Len(attempts) : attempts[i].outcome = "answered"}
           final == Final(attempts)
<1> SUFFICES ASSUME phase = "built"
             PROVE  /\ answered # {} => final.outcome = "answered"
                    /\ Verdict(attempts) = "helped" <=> answered # {} /\ 1 \notin answered
  BY DEF VerdictIsEarned
<1>1. Len(attempts) \in Nat /\ Len(attempts) > 0 /\ 1 \in 1..Len(attempts)
  BY DEF IInv, TypeOK, Standing
<1>2. CASE answered # {}
  <2>1. Max(answered) \in answered
    BY <1>1, <1>2, GreatestIndex
  <2>2. final.outcome = "answered"
    BY <1>2, <2>1 DEF Final
  <2>3. Helped(attempts) <=> 1 \notin answered
    BY <1>1, <2>2 DEF Helped
  <2>4. Len(attempts) = 1 => 1 \in answered
    BY <1>1, <2>1
  <2> QED BY <1>2, <2>2, <2>3, <2>4 DEF Verdict
<1>3. CASE answered = {}
  <2>1. final = attempts[Len(attempts)]
    BY <1>3 DEF Final, LastOf
  <2>2. Len(attempts) \in 1..Len(attempts)
    BY <1>1
  <2>3. final.outcome # "answered"
    BY <1>3, <2>1, <2>2
  <2> QED BY <1>3, <2>3 DEF Helped, Verdict
<1> QED BY <1>2, <1>3

\* No answer is lost to a deeper failure, and "helped" is never said of the control.
THEOREM VerdictIsEarnedHolds == Spec => []VerdictIsEarned
BY VerdictStep, RunInvariant, PTL
=============================================================================
