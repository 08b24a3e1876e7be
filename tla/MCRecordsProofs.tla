---------------------------- MODULE MCRecordsProofs ----------------------------
(***************************************************************************)
(* What the suite runner, the artifact store, the prompt search, the chain *)
(* of roots, the event log, the corpus, the vote, the report and the pools *)
(* of the harness keep, for every value of the constants of each, in the   *)
(* behaviours that MCRecords checks on small ones.                         *)
(***************************************************************************)
EXTENDS MCRecords, SequenceTheorems, Sums

\* A behaviour takes the steps of one part and leaves the variables of the others alone.
LEMMA Steps ==
    ASSUME [MCNext]_mcVars
    PROVE  /\ Log!Next \/ UNCHANGED logVars
           /\ Suite!Next \/ UNCHANGED suiteVars
           /\ Store!Next \/ UNCHANGED storeVars
           /\ Harness!Next \/ UNCHANGED harnessVars
           /\ Search!Next \/ UNCHANGED searchVars
           /\ Roots!Next \/ UNCHANGED chainVars
           /\ Generator!Next \/ UNCHANGED corpusVars
           /\ Ballot!Next \/ UNCHANGED votesVars
           /\ Tables!Next \/ UNCHANGED reportVars
BY DEF MCNext, mcVars, InHarness, RecordsNext, recordVars, EvaluationNext, evaluationVars

-----------------------------------------------------------------------------
(* The chain of roots.                                                       *)

Returned == [answer : Answers, spent : Spendings]

\* What every root was given is the handoff of the root before it, which had passed and
\* whose artifact was stored; after a final one no root is started.
ChainInv ==
    /\ Roots!TypeOK
    /\ Len(sees) = Len(roots) + (IF pending = <<>> THEN 0 ELSE 1)
    /\ Len(sees) <= MaxRoots
    /\ \A i \in DOMAIN sees :
          sees[i] = IF i = 1 THEN Roots!NotAHandoff ELSE roots[i - 1].answer
    /\ \A i \in DOMAIN roots : Roots!Acceptable(roots[i].answer) /\ i \in artifacts
    /\ \A i \in DOMAIN roots : roots[i].answer.final =>
          i = Len(roots) /\ pending = <<>> /\ outcome # "running"

LEMMA ChainInit == ASSUME MaxRoots \in Nat, Roots!Init PROVE ChainInv
BY DEF Roots!Init, ChainInv, Roots!TypeOK, Roots!Errors

LEMMA RootRuns == ASSUME MaxRoots \in Nat, ChainInv, Roots!RunRoot PROVE ChainInv'
<1>1. PICK a \in Answers, c \in Spendings : pending' = <<[answer |-> a, spent |-> c]>>
  BY DEF Roots!RunRoot
<1>2. /\ pending' # <<>> /\ pending' \in Seq(Returned)
      /\ outcome = "running" /\ pending = <<>> /\ Len(roots) < MaxRoots
      /\ sees' = Append(sees, Roots!Previous)
      /\ UNCHANGED <<roots, artifacts, control, outcome>>
  BY <1>1 DEF Roots!RunRoot, Returned
<1>3. /\ roots \in Seq(Returned)
      /\ sees \in Seq(Answers \cup {Roots!NotAHandoff})
      /\ Len(sees) = Len(roots) /\ Len(roots) \in Nat
  BY <1>2 DEF ChainInv, Roots!TypeOK, Returned
<1>4. Roots!Previous = IF Len(sees) + 1 = 1 THEN Roots!NotAHandoff
                       ELSE roots[Len(sees)].answer
  BY <1>3 DEF Roots!Previous
<1>5. Roots!Previous \in Answers \cup {Roots!NotAHandoff}
  <2>1. CASE Len(roots) = 0 BY <1>3, <1>4, <2>1
  <2>2. CASE Len(roots) # 0
    <3>1. \A i \in 1..Len(roots) : roots[i] \in Returned BY <1>3
    <3>2. Len(sees) \in 1..Len(roots) BY <1>3, <2>2
    <3>3. roots[Len(sees)].answer \in Answers BY <3>1, <3>2 DEF Returned
    <3>4. QED BY <1>3, <1>4, <2>2, <3>3
  <2>3. QED BY <2>1, <2>2
<1>6. Roots!TypeOK' BY <1>2, <1>3, <1>5 DEF ChainInv, Roots!TypeOK, Returned
<1>7. Len(sees') = Len(roots') + 1 BY <1>2, <1>3, <1>5
<1>8. \A i \in DOMAIN sees' :
         sees'[i] = IF i = 1 THEN Roots!NotAHandoff ELSE roots'[i - 1].answer
  BY <1>2, <1>3, <1>4, <1>5 DEF ChainInv
<1>9. QED BY <1>2, <1>6, <1>7, <1>8 DEF ChainInv, Roots!Acceptable, Roots!Bounded, Roots!NotAHandoff

LEMMA RootAccepted == ASSUME MaxRoots \in Nat, ChainInv, Roots!Accept PROVE ChainInv'
<1> DEFINE r == pending[1]
<1>1. /\ outcome = "running" /\ pending # <<>> /\ Roots!Acceptable(r.answer)
      /\ artifacts' = artifacts \cup {Len(roots) + 1}
      /\ roots' = Append(roots, r) /\ pending' = <<>>
      /\ outcome' \in {"running", "returned", "record"}
      /\ r.answer.final => outcome' # "running"
      /\ UNCHANGED <<sees, control>>
  BY DEF Roots!Accept
<1>2. /\ roots \in Seq(Returned)
      /\ pending \in Seq(Returned)
      /\ sees \in Seq(Answers \cup {Roots!NotAHandoff}) /\ Len(roots) \in Nat
      /\ Len(roots) <= MaxRoots /\ control \in Spendings /\ artifacts \subseteq 1..MaxRoots
      /\ Len(sees) = Len(roots) + 1 /\ Len(sees) <= MaxRoots
      /\ \A i \in DOMAIN sees :
            sees[i] = IF i = 1 THEN Roots!NotAHandoff ELSE roots[i - 1].answer
      /\ \A i \in DOMAIN roots : Roots!Acceptable(roots[i].answer) /\ i \in artifacts
      /\ \A i \in DOMAIN roots : ~roots[i].answer.final
  BY <1>1 DEF ChainInv, Roots!TypeOK, Returned
<1>3. r \in Returned
  <2>1. Len(pending) \in Nat /\ Len(pending) # 0 BY <1>1, <1>2
  <2>2. \A i \in 1..Len(pending) : pending[i] \in Returned BY <1>2
  <2>3. 1 \in 1..Len(pending) BY <2>1
  <2>4. QED BY <2>2, <2>3
<1> HIDE DEF r
<1>4. /\ roots' \in Seq(Returned)
      /\ Len(roots') = Len(roots) + 1 /\ roots'[Len(roots) + 1] = r
      /\ \A i \in DOMAIN roots : roots'[i] = roots[i]
      /\ DOMAIN roots' = 1..(Len(roots) + 1) /\ DOMAIN roots = 1..Len(roots)
  BY <1>1, <1>2, <1>3
<1>5. Roots!TypeOK'
  <2>1. artifacts' \subseteq 1..MaxRoots /\ Len(roots') <= MaxRoots
    <3>1. Len(roots) + 1 <= MaxRoots /\ Len(roots) \in Nat BY <1>2
    <3>2. Len(roots) + 1 \in 1..MaxRoots BY <3>1
    <3>3. QED BY <1>1, <1>2, <1>4, <3>1, <3>2
  <2>2. pending' \in Seq(Returned) BY <1>1
  <2>3. outcome' \in Roots!Errors \cup {"running", "returned"} BY <1>1 DEF Roots!Errors
  <2>4. roots' \in Seq(Returned) /\ sees' = sees /\ control' = control BY <1>1, <1>4
  <2>5. QED BY <1>2, <2>1, <2>2, <2>3, <2>4 DEF Roots!TypeOK, Returned
<1>6. \A i \in DOMAIN roots' : Roots!Acceptable(roots'[i].answer) /\ i \in artifacts'
  BY <1>1, <1>2, <1>4
<1>7. \A i \in DOMAIN sees' :
         sees'[i] = IF i = 1 THEN Roots!NotAHandoff ELSE roots'[i - 1].answer
  BY <1>1, <1>2, <1>4
<1>8. \A i \in DOMAIN roots' : roots'[i].answer.final =>
         i = Len(roots') /\ pending' = <<>> /\ outcome' # "running"
  BY <1>1, <1>2, <1>4
<1>9. QED BY <1>1, <1>2, <1>4, <1>5, <1>6, <1>7, <1>8
      DEF ChainInv, Roots!Acceptable, Roots!Bounded, Roots!NotAHandoff

LEMMA ChainStep ==
    ASSUME MaxRoots \in Nat, ChainInv, Roots!Next \/ UNCHANGED chainVars
    PROVE  ChainInv'
<1>1. CASE Roots!Reject \/ Roots!StoreRefuses \/ Roots!GiveUp \/ UNCHANGED chainVars
  <2>1. /\ UNCHANGED <<roots, sees, artifacts, pending, control>>
        /\ outcome' \in Roots!Errors \/ outcome' = outcome
    BY <1>1 DEF Roots!Reject, Roots!StoreRefuses, Roots!GiveUp, Roots!Errors, chainVars
  <2>2. Roots!TypeOK' BY <2>1 DEF ChainInv, Roots!TypeOK
  <2>3. outcome # "running" => outcome' # "running"
    BY <1>1 DEF Roots!Reject, Roots!StoreRefuses, Roots!GiveUp, chainVars
  <2>4. QED BY <2>1, <2>2, <2>3 DEF ChainInv, Roots!Acceptable, Roots!Bounded, Roots!NotAHandoff
<1>2. QED BY <1>1, RootRuns, RootAccepted DEF Roots!Next

\* A root is given nothing but the handoff before it, and that within its limits, not
\* final and with its artifact stored: whatever roots answer, however many are allowed,
\* whatever the store refuses.
THEOREM SeesOnlyWhatIsStoredHolds ==
    ASSUME MaxRoots \in Nat
    PROVE  MCSpec => []SeesOnlyWhatIsStored
<1>1. MCInit => ChainInv BY ChainInit DEF MCInit
<1>2. ChainInv /\ [MCNext]_mcVars => ChainInv' BY Steps, ChainStep
<1>3. ChainInv => SeesOnlyWhatIsStored
  <2>1. SUFFICES ASSUME ChainInv PROVE Roots!TypeOK /\ Roots!SeesOnlyWhatIsStored
    BY DEF SeesOnlyWhatIsStored
  <2>2. SUFFICES ASSUME NEW i \in DOMAIN sees, i # 1
                 PROVE  /\ Roots!Acceptable(sees[i]) /\ ~sees[i].final
                        /\ i - 1 \in artifacts
    BY <2>1 DEF ChainInv, Roots!SeesOnlyWhatIsStored
  <2>3. /\ Len(roots) \in Nat /\ DOMAIN roots = 1..Len(roots)
        /\ DOMAIN sees = 1..Len(sees)
    BY <2>1 DEF ChainInv, Roots!TypeOK
  <2>4. i - 1 \in DOMAIN roots /\ sees[i] = roots[i - 1].answer
        /\ (pending = <<>> => i - 1 # Len(roots))
    BY <2>1, <2>2, <2>3 DEF ChainInv
  <2>5. QED BY <2>1, <2>4 DEF ChainInv
<1>4. QED BY <1>1, <1>2, <1>3, PTL DEF MCSpec
-----------------------------------------------------------------------------
(* The suite runner.                                                         *)

\* The corpora have the same samples in one order.
Benchmark == Samples \in Seq(Suite!Sample) /\ RunBound \in Nat

\* Only the last line may be torn.  While a run measures, its records are those of the
\* readable lines, all of them of its corpus, as many as the lines if none is torn.
Torn(l) == l.text # "whole"
Measuring == step \in {"manifest", "samples"}

SuiteInv ==
    /\ Suite!TypeOK
    /\ \A i \in 1..Len(rows) : Torn(rows[i]) => i = Len(rows)
    /\ Suite!DirectoryIsSound
    /\ Measuring => \A i \in 1..Len(rows) : Suite!Readable(rows[i]) =>
          /\ rows[i].corpus = run.corpus
          /\ \E k \in DOMAIN records : records[k].sample = rows[i].sample
    /\ Measuring /\ (\A i \in 1..Len(rows) : Suite!Readable(rows[i])) => Len(records) = Len(rows)
    /\ step = "samples" => manifest.status = "running"

\* A line is written behind the others, or onto the end of a torn one.
LEMMA LineWritten ==
    ASSUME rows \in Seq(Suite!Line), NEW l \in Suite!Line, rows' = Suite!Appended(l),
           \A i \in 1..Len(rows) : Torn(rows[i]) => i = Len(rows)
    PROVE  /\ rows' \in Seq(Suite!Line)
           /\ \A i \in 1..Len(rows') : Torn(rows'[i]) => i = Len(rows')
           /\ \/ /\ Len(rows') = Len(rows) + 1 /\ rows'[Len(rows')] = l
                 /\ \A i \in 1..Len(rows) : rows'[i] = rows[i]
              \/ /\ Len(rows') = Len(rows) /\ Len(rows) # 0 /\ ~Suite!Readable(rows'[Len(rows)])
                 /\ \A i \in 1..(Len(rows) - 1) : rows'[i] = rows[i]
<1> DEFINE n == Len(rows)
<1>1. n \in Nat /\ DOMAIN rows = 1..n /\ Len(rows) = n OBVIOUS
<1> HIDE DEF n
<1>2. CASE rows # <<>> /\ rows[Len(rows)].text # "whole"
  <2> DEFINE c == [rows[n] EXCEPT !.text = "cut"]
  <2>1. n # 0 /\ rows[n] \in Suite!Line
    <3>1. n # 0 BY <1>1, <1>2
    <3>2. n \in 1..n BY <1>1, <3>1
    <3>3. \A i \in 1..n : rows[i] \in Suite!Line BY <1>1
    <3>4. QED BY <3>1, <3>2, <3>3
  <2>2. c \in Suite!Line /\ c.text = "cut" BY <2>1 DEF Suite!Line
  <2>3. rows' = [rows EXCEPT ![n] = c] BY <1>1, <1>2 DEF Suite!Appended
  <2> HIDE DEF c
  <2>4. n \in 1..n BY <1>1, <2>1
  <2>5. /\ rows' \in Seq(Suite!Line) /\ Len(rows') = n /\ rows'[n] = c
        /\ \A i \in 1..(n - 1) : rows'[i] = rows[i]
    BY <1>1, <2>1, <2>2, <2>3, <2>4
  <2>6. ~Suite!Readable(rows'[n]) BY <2>2, <2>5 DEF Suite!Readable
  <2>7. \A i \in 1..n : i # n => ~Torn(rows'[i]) BY <1>1, <2>5 DEF Torn
  <2>8. QED BY <1>1, <2>1, <2>5, <2>6, <2>7
<1>3. CASE ~(rows # <<>> /\ rows[Len(rows)].text # "whole")
  <2>1. rows' = Append(rows, l) BY <1>3 DEF Suite!Appended
  <2>2. /\ rows' \in Seq(Suite!Line) /\ Len(rows') = n + 1 /\ rows'[n + 1] = l
        /\ \A i \in 1..n : rows'[i] = rows[i]
    BY <1>1, <2>1
  <2>3. \A i \in 1..n : ~Torn(rows[i])
    <3>1. n # 0 => ~Torn(rows[n]) BY <1>1, <1>3 DEF Torn
    <3>2. QED BY <1>1, <3>1
  <2>4. \A i \in 1..(n + 1) : Torn(rows'[i]) => i = n + 1 BY <1>1, <2>2, <2>3 DEF Torn
  <2>5. QED BY <1>1, <2>2, <2>4
<1>4. QED BY <1>2, <1>3

\* The next sample is one of those asked for and has no record.
LEMMA NextIsNew ==
    ASSUME Benchmark, Suite!Wanted # {}
    PROVE  /\ Suite!NextSample \in Suite!Sample
           /\ \A k \in DOMAIN records : records[k].sample # Suite!NextSample
<1>1. Suite!Wanted \subseteq Nat /\ Suite!Wanted \subseteq DOMAIN Samples
  BY DEF Suite!Wanted, Benchmark
<1>2. PICK k \in Suite!Wanted : \A j \in Suite!Wanted : k <= j BY <1>1, LeastNat
<1> DEFINE w == CHOOSE i \in Suite!Wanted : \A j \in Suite!Wanted : i <= j
<1>3. w \in Suite!Wanted BY <1>2
<1>4. Suite!NextSample = Samples[w] BY DEF Suite!NextSample
<1> HIDE DEF w
<1>5. QED BY <1>1, <1>3, <1>4 DEF Suite!Wanted, Benchmark

LEMMA SuiteInit == ASSUME Benchmark, Suite!Init PROVE SuiteInv
<1>1. run \in Suite!Arguments
  <2>1. Suite!Sample \in SUBSET Suite!Sample OBVIOUS
  <2>2. PICK c \in Corpus, p \in Setup :
           run = [corpus |-> c, setup |-> p, resume |-> TRUE, only |-> Suite!Sample]
    BY DEF Suite!Init
  <2>3. QED BY <2>1, <2>2 DEF Suite!Arguments
<1>2. Suite!TypeOK
  BY <1>1 DEF Suite!Init, Suite!TypeOK, Benchmark
<1>3. rows = <<>> /\ step = "idle" BY DEF Suite!Init
<1>4. Suite!DirectoryIsSound
  BY <1>3 DEF Suite!DirectoryIsSound, Suite!NoSampleTwice, Suite!OneCorpus,
     Suite!CompleteIsTrue, Suite!Good
<1>5. QED BY <1>2, <1>3, <1>4 DEF SuiteInv, Measuring

\* What the invariant says of the lines.
LEMMA Lines ==
    ASSUME SuiteInv
    PROVE  /\ rows \in Seq(Suite!Line) /\ Len(rows) \in Nat /\ DOMAIN rows = 1..Len(rows)
           /\ \A i \in 1..Len(rows) : rows[i] \in Suite!Line
           /\ records \in Seq(Suite!Record) /\ Len(records) \in Nat
           /\ DOMAIN records = 1..Len(records)
           /\ \A i, j \in 1..Len(rows) : Suite!Readable(rows[i]) /\ Suite!Readable(rows[j]) =>
                /\ rows[i].sample = rows[j].sample => i = j
                /\ rows[i].corpus = rows[j].corpus
BY DEF SuiteInv, Suite!TypeOK, Suite!DirectoryIsSound, Suite!NoSampleTwice, Suite!OneCorpus,
   Suite!Good

\* A run writes a line about a sample without one, on its corpus.
LEMMA LineStep ==
    ASSUME Benchmark, SuiteInv, step = "samples", Suite!Wanted # {},
           NEW text \in {"whole", "cut", "unended"},
           rows' = Suite!Appended(Suite!LineOf(Suite!NextSample, text)),
           UNCHANGED <<manifest, run>>
    PROVE  /\ rows' \in Seq(Suite!Line)
           /\ \A i \in 1..Len(rows') : Torn(rows'[i]) => i = Len(rows')
           /\ Suite!DirectoryIsSound'
           /\ \A i \in 1..Len(rows') : Suite!Readable(rows'[i]) =>
                 /\ rows'[i].corpus = run.corpus
                 /\ \/ rows'[i].sample = Suite!NextSample
                    \/ \E k \in DOMAIN records : records[k].sample = rows'[i].sample
           /\ (\A i \in 1..Len(rows') : Suite!Readable(rows'[i]))
                => Len(rows') = Len(records) + 1
<1> DEFINE s == Suite!NextSample
           l == Suite!LineOf(s, text)
           n == Len(rows)
<1>1. s \in Suite!Sample /\ \A k \in DOMAIN records : records[k].sample # s
  BY NextIsNew
<1>2. run \in Suite!Arguments /\ run.corpus \in Corpus /\ run.setup \in Setup
  BY DEF SuiteInv, Suite!TypeOK, Suite!Arguments
<1> HIDE DEF s
<1>3. l \in Suite!Line /\ l.sample = s /\ l.corpus = run.corpus
  BY <1>1, <1>2 DEF Suite!LineOf, Suite!Line
<1> HIDE DEF l
<1>4. /\ rows' \in Seq(Suite!Line)
      /\ \A i \in 1..Len(rows') : Torn(rows'[i]) => i = Len(rows')
      /\ \/ /\ Len(rows') = n + 1 /\ rows'[n + 1] = l
            /\ \A i \in 1..n : rows'[i] = rows[i]
         \/ /\ Len(rows') = n /\ n # 0 /\ ~Suite!Readable(rows'[n])
            /\ \A i \in 1..(n - 1) : rows'[i] = rows[i]
  BY <1>3, LineWritten, Lines DEF s, l, SuiteInv
<1>5. /\ n \in Nat /\ DOMAIN rows' = 1..Len(rows') /\ Len(records) \in Nat
      /\ \A i, j \in 1..n : Suite!Readable(rows[i]) /\ Suite!Readable(rows[j]) =>
           (rows[i].sample = rows[j].sample => i = j)
  BY <1>4, Lines
<1>6. /\ \A i \in 1..n : Suite!Readable(rows[i]) =>
           /\ rows[i].corpus = run.corpus
           /\ \E k \in DOMAIN records : records[k].sample = rows[i].sample
      /\ (\A i \in 1..n : Suite!Readable(rows[i])) => Len(records) = n
      /\ manifest.status = "running"
  BY DEF SuiteInv, Measuring
<1> HIDE DEF n
<1>7. \A i \in 1..n : Suite!Readable(rows[i]) => rows[i].sample # s BY <1>1, <1>6
<1>8. \A i \in 1..Len(rows') : Suite!Readable(rows'[i]) =>
         \/ i \in 1..n /\ rows'[i] = rows[i]
         \/ i = n + 1 /\ rows'[i] = l
  <2>1. CASE /\ Len(rows') = n + 1 /\ rows'[n + 1] = l
             /\ \A i \in 1..n : rows'[i] = rows[i]
    <3>1. \A i \in 1..(n + 1) : i \in 1..n \/ i = n + 1 BY <1>5
    <3>2. QED BY <2>1, <3>1
  <2>2. CASE /\ Len(rows') = n /\ n # 0 /\ ~Suite!Readable(rows'[n])
             /\ \A i \in 1..(n - 1) : rows'[i] = rows[i]
    <3>1. \A i \in 1..n : i \in 1..(n - 1) \/ i = n BY <1>5
    <3>2. QED BY <2>2, <3>1
  <2>3. QED BY <1>4, <2>1, <2>2
<1>9. \A i \in 1..Len(rows') : Suite!Readable(rows'[i]) =>
         /\ rows'[i].corpus = run.corpus
         /\ \/ rows'[i].sample = s
            \/ \E k \in DOMAIN records : records[k].sample = rows'[i].sample
  BY <1>3, <1>6, <1>8
<1>10. Suite!NoSampleTwice'
  <2>1. SUFFICES ASSUME NEW i \in 1..Len(rows'), NEW j \in 1..Len(rows'),
                        Suite!Readable(rows'[i]), Suite!Readable(rows'[j]),
                        rows'[i].sample = rows'[j].sample
                 PROVE  i = j
    BY <1>5 DEF Suite!NoSampleTwice, Suite!Good
  <2>2. QED BY <1>3, <1>5, <1>7, <1>8, <2>1
<1>11. Suite!OneCorpus' BY <1>5, <1>9 DEF Suite!OneCorpus, Suite!Good
<1>12. Suite!CompleteIsTrue' BY <1>6 DEF Suite!CompleteIsTrue
<1>13. (\A i \in 1..Len(rows') : Suite!Readable(rows'[i])) => Len(rows') = Len(records) + 1
  <2>1. SUFFICES ASSUME \A i \in 1..Len(rows') : Suite!Readable(rows'[i])
                 PROVE  Len(rows') = Len(records) + 1
    OBVIOUS
  <2>2. Len(rows') = n + 1 /\ \A i \in 1..n : rows'[i] = rows[i]
    <3>1. n # 0 => n \in 1..n BY <1>5
    <3>2. QED BY <1>4, <2>1, <3>1
  <2>3. \A i \in 1..n : Suite!Readable(rows[i])
    <3>1. \A i \in 1..n : i \in 1..Len(rows') BY <1>5, <2>2
    <3>2. QED BY <2>1, <2>2, <3>1
  <2>4. QED BY <1>6, <2>2, <2>3
<1>14. QED BY <1>4, <1>9, <1>10, <1>11, <1>12, <1>13 DEF s, Suite!DirectoryIsSound

LEMMA MeasureStep == ASSUME Benchmark, SuiteInv, Suite!Measure PROVE SuiteInv'
<1> DEFINE r == Suite!Measured(Suite!NextSample)
<1>1. /\ step = "samples" /\ Suite!Wanted # {} /\ records' = Append(records, r)
      /\ rows' = Suite!Appended(Suite!LineOf(Suite!NextSample, "whole"))
      /\ UNCHANGED <<corpusFile, manifest, step, run, runs>>
  BY DEF Suite!Measure
<1>2. Suite!NextSample \in Suite!Sample BY <1>1, NextIsNew
<1>3. r \in Suite!Record /\ r.sample = Suite!NextSample
  BY <1>2 DEF Suite!Measured, Suite!Record, SuiteInv, Suite!TypeOK, Suite!Arguments
<1> HIDE DEF r
<1>4. /\ records' \in Seq(Suite!Record) /\ Len(records') = Len(records) + 1
      /\ \A k \in DOMAIN records : k \in DOMAIN records' /\ records'[k] = records[k]
      /\ Len(records') \in DOMAIN records' /\ records'[Len(records')] = r
  BY <1>1, <1>3, Lines
<1>5. /\ rows' \in Seq(Suite!Line)
      /\ \A i \in 1..Len(rows') : Torn(rows'[i]) => i = Len(rows')
      /\ Suite!DirectoryIsSound'
      /\ \A i \in 1..Len(rows') : Suite!Readable(rows'[i]) =>
            /\ rows'[i].corpus = run.corpus
            /\ \/ rows'[i].sample = Suite!NextSample
               \/ \E k \in DOMAIN records : records[k].sample = rows'[i].sample
      /\ (\A i \in 1..Len(rows') : Suite!Readable(rows'[i]))
           => Len(rows') = Len(records) + 1
  BY <1>1, LineStep
<1>6. \A i \in 1..Len(rows') : Suite!Readable(rows'[i]) =>
         \E k \in DOMAIN records' : records'[k].sample = rows'[i].sample
  BY <1>3, <1>4, <1>5
<1>7. Suite!TypeOK' BY <1>1, <1>4, <1>5 DEF SuiteInv, Suite!TypeOK
<1>8. (step = "samples" => manifest.status = "running")' BY <1>1 DEF SuiteInv
<1>9. QED BY <1>1, <1>4, <1>5, <1>6, <1>7, <1>8 DEF SuiteInv, Torn, Suite!Readable

LEMMA DieStep == ASSUME Benchmark, SuiteInv, Suite!DieInAppend PROVE SuiteInv'
<1>1. PICK text \in {"cut", "unended"} :
         rows' = Suite!Appended(Suite!LineOf(Suite!NextSample, text))
  BY DEF Suite!DieInAppend
<1>2. /\ step = "samples" /\ step' = "idle" /\ Suite!Wanted # {}
      /\ UNCHANGED <<corpusFile, manifest, run, records, runs>>
  BY DEF Suite!DieInAppend
<1>3. /\ rows' \in Seq(Suite!Line)
      /\ \A i \in 1..Len(rows') : Torn(rows'[i]) => i = Len(rows')
      /\ Suite!DirectoryIsSound'
  BY <1>1, <1>2, LineStep
<1>4. Suite!TypeOK' BY <1>2, <1>3 DEF SuiteInv, Suite!TypeOK
<1>5. QED BY <1>2, <1>3, <1>4 DEF SuiteInv, Torn, Measuring

\* The memory of a run that loads is what it read.
LEMMA LoadStep == ASSUME SuiteInv, Suite!Load PROVE SuiteInv'
<1>1. /\ step = "load" /\ UNCHANGED <<corpusFile, manifest, run, runs>>
      /\ step' \in {"manifest", "idle"}
  BY DEF Suite!Load
<1>2. CASE rows' = <<>> /\ records' = <<>>
  <2>1. Suite!TypeOK' BY <1>1, <1>2 DEF SuiteInv, Suite!TypeOK
  <2>2. Suite!DirectoryIsSound'
    BY <1>2 DEF Suite!DirectoryIsSound, Suite!NoSampleTwice, Suite!OneCorpus,
       Suite!CompleteIsTrue, Suite!Good
  <2>3. QED BY <1>1, <1>2, <2>1, <2>2 DEF SuiteInv
<1>3. CASE /\ Suite!Loadable(rows) /\ records' = Suite!Loaded(rows) /\ UNCHANGED rows
  <2>1. /\ records' \in Seq(Suite!Record) /\ Len(records') = Len(rows)
        /\ DOMAIN records' = 1..Len(rows)
        /\ \A i \in 1..Len(rows) : records'[i].sample = rows[i].sample
    <3>1. \A i \in 1..Len(rows) :
             [sample |-> rows[i].sample, corpus |-> rows[i].corpus,
              setup |-> rows[i].setup] \in Suite!Record
      BY Lines DEF Suite!Line, Suite!Record
    <3>2. records' = [i \in 1..Len(rows) |->
             [sample |-> rows[i].sample, corpus |-> rows[i].corpus,
              setup |-> rows[i].setup]]
      BY <1>3, Lines DEF Suite!Loaded
    <3>3. Len(rows) \in Nat BY Lines
    <3>4. QED BY <3>1, <3>2, <3>3
  <2>2. Suite!TypeOK' BY <1>1, <1>3, <2>1 DEF SuiteInv, Suite!TypeOK
  <2>3. Suite!DirectoryIsSound'
    BY <1>1, <1>3 DEF SuiteInv, Suite!DirectoryIsSound, Suite!NoSampleTwice,
       Suite!OneCorpus, Suite!CompleteIsTrue, Suite!Good, Suite!Readable
  <2>4. \A i \in 1..Len(rows) : rows[i].corpus = run.corpus
    BY <1>3, Lines DEF Suite!Loadable
  <2>5. QED BY <1>1, <1>3, <2>1, <2>2, <2>3, <2>4 DEF SuiteInv, Torn
<1>4. CASE step' = "idle" /\ UNCHANGED <<rows, records>>
  <2>1. Suite!TypeOK' BY <1>1, <1>4 DEF SuiteInv, Suite!TypeOK
  <2>2. Suite!DirectoryIsSound'
    BY <1>1, <1>4 DEF SuiteInv, Suite!DirectoryIsSound, Suite!NoSampleTwice,
       Suite!OneCorpus, Suite!CompleteIsTrue, Suite!Good, Suite!Readable
  <2>3. QED BY <1>1, <1>4, <2>1, <2>2 DEF SuiteInv, Torn, Measuring
<1>5. QED BY <1>2, <1>3, <1>4 DEF Suite!Load

\* A manifest is written over records that are what it says of them.
LEMMA ManifestStep ==
    ASSUME SuiteInv, Suite!WriteManifest \/ Suite!Finish PROVE SuiteInv'
<1>1. UNCHANGED <<corpusFile, rows, run, records, runs>>
  BY DEF Suite!WriteManifest, Suite!Finish
<1>2. Len(records) \in Nat /\ run.corpus \in Corpus /\ run.setup \in Setup
  BY Lines DEF SuiteInv, Suite!TypeOK, Suite!Arguments
<1>3. manifest' \in Suite!Manifest /\ manifest'.corpus = run.corpus
      /\ manifest'.n = Len(records)
  BY <1>2 DEF Suite!WriteManifest, Suite!Finish, Suite!ManifestOf, Suite!Manifest
<1>4. /\ Measuring /\ step' \in {"idle", "samples"}
      /\ step' = "samples" => manifest'.status = "running"
  BY DEF Suite!WriteManifest, Suite!Finish, Suite!ManifestOf, Measuring
<1>5. Suite!TypeOK' BY <1>1, <1>3, <1>4 DEF SuiteInv, Suite!TypeOK
<1>6. Suite!CompleteIsTrue'
  <2>1. SUFFICES ASSUME Suite!Good' = DOMAIN rows
                 PROVE  /\ manifest'.n = Len(rows)
                        /\ \A i \in DOMAIN rows : rows[i].corpus = manifest'.corpus
    BY <1>1 DEF Suite!CompleteIsTrue
  <2>2. \A i \in 1..Len(rows) : Suite!Readable(rows[i])
    BY <1>1, <2>1, Lines DEF Suite!Good
  <2>3. QED BY <1>3, <1>4, <2>2, Lines DEF SuiteInv
<1>7. Suite!DirectoryIsSound'
  BY <1>1, <1>6 DEF SuiteInv, Suite!DirectoryIsSound, Suite!NoSampleTwice,
     Suite!OneCorpus, Suite!Good, Suite!Readable
<1>8. QED BY <1>1, <1>4, <1>5, <1>7 DEF SuiteInv, Torn, Measuring, Suite!Readable

\* The other steps leave the records and the manifest alone and measure nothing.
LEMMA SuiteQuiet ==
    ASSUME Benchmark, SuiteInv,
           Suite!Begin \/ Suite!WriteCorpus \/ Suite!Stop \/ UNCHANGED suiteVars
    PROVE  SuiteInv'
<1>1. UNCHANGED <<rows, manifest, records>>
  BY DEF Suite!Begin, Suite!WriteCorpus, Suite!Stop, suiteVars, Suite!disk
<1>2. \/ step' \in {"idle", "corpus", "load"}
      \/ step' = step /\ run' = run
  BY DEF Suite!Begin, Suite!WriteCorpus, Suite!Stop, suiteVars
<1>3. Suite!TypeOK'
  <2>1. CASE Suite!Begin
    <3>1. runs' \in 0..RunBound /\ run' \in Suite!Arguments /\ step' = "corpus"
          /\ UNCHANGED corpusFile
      BY <2>1 DEF Suite!Begin, SuiteInv, Suite!TypeOK, Benchmark, Suite!disk
    <3>2. QED BY <1>1, <3>1 DEF SuiteInv, Suite!TypeOK
  <2>2. CASE Suite!WriteCorpus
    <3>1. corpusFile' \in Corpus /\ step' = "load" /\ UNCHANGED <<run, runs>>
      BY <2>2 DEF Suite!WriteCorpus, SuiteInv, Suite!TypeOK, Suite!Arguments
    <3>2. QED BY <1>1, <3>1 DEF SuiteInv, Suite!TypeOK
  <2>3. CASE Suite!Stop \/ UNCHANGED suiteVars
    <3>1. step' \in {"idle", step} /\ UNCHANGED <<corpusFile, run, runs>>
      BY <2>3 DEF Suite!Stop, suiteVars, Suite!disk
    <3>2. QED BY <1>1, <3>1 DEF SuiteInv, Suite!TypeOK
  <2>4. QED BY <2>1, <2>2, <2>3
<1>4. Suite!DirectoryIsSound'
  BY <1>1 DEF SuiteInv, Suite!DirectoryIsSound, Suite!NoSampleTwice, Suite!OneCorpus,
     Suite!CompleteIsTrue, Suite!Good, Suite!Readable
<1>5. QED BY <1>1, <1>2, <1>3, <1>4 DEF SuiteInv, Torn, Measuring, Suite!Readable

\* However often a suite is stopped, killed inside a write and run again, resuming or
\* not, on whatever corpus and setup: no sample has two readable records, they are of
\* one corpus, and a manifest that says complete tells the truth about them.
THEOREM DirectoryIsSoundHolds ==
    ASSUME Benchmark
    PROVE  MCSpec => []DirectoryIsSound
<1>1. MCInit => SuiteInv BY SuiteInit DEF MCInit
<1>2. SuiteInv /\ [MCNext]_mcVars => SuiteInv'
  <2>1. SUFFICES ASSUME SuiteInv, Suite!Next \/ UNCHANGED suiteVars PROVE SuiteInv'
    BY Steps
  <2>2. QED BY <2>1, LoadStep, ManifestStep, MeasureStep, DieStep, SuiteQuiet DEF Suite!Next
<1>3. SuiteInv => DirectoryIsSound BY DEF SuiteInv, DirectoryIsSound
<1>4. QED BY <1>1, <1>2, <1>3, PTL DEF MCSpec

-----------------------------------------------------------------------------
(* The artifact store, from what ArtifactStoreProofs shows of it.            *)

\* An object whose reference was returned stays, and the directory is over its total by
\* at most one object for each other store object on it: see StoreKeepsItsWordHolds of
\* ArtifactStoreProofs.
THEOREM StoreKeepsItsWordHolds ==
    ASSUME Store!Setting
    PROVE  MCSpec => []StoreKeepsItsWord
<1>1. MCInit => Store!Init BY DEF MCInit
<1>2. [MCNext]_mcVars => [Store!Next]_(Store!vars) BY Steps DEF storeVars, Store!vars
<1>3. Store!Spec => []Store!StoreInv BY Store!StoreInvHolds
<1>4. Store!Spec => []Store!StoreKeepsItsWord BY Store!StoreKeepsItsWordHolds
<1>5. Store!StoreInv /\ Store!StoreKeepsItsWord => StoreKeepsItsWord
  BY DEF StoreKeepsItsWord, Store!StoreInv, Store!StoreShape
<1>6. QED BY <1>1, <1>2, <1>3, <1>4, <1>5, PTL DEF MCSpec, Store!Spec

-----------------------------------------------------------------------------
(* The ledger of a search, from what OptimizeProofs shows of it.             *)

\* A search never promises or books more than its budget, and while it goes on and when
\* it reports every spend is on its books: see MoneyIsAccountedForHolds of
\* OptimizeProofs.
THEOREM MoneyIsAccountedForHolds ==
    ASSUME Search!Amounts
    PROVE  MCSpec => []MoneyIsAccountedFor
<1>1. MCInit => Search!Init BY DEF MCInit
<1>2. [MCNext]_mcVars => [Search!Next]_(Search!vars) BY Steps DEF searchVars, Search!vars
<1>3. Search!Spec => []Search!MoneyIsAccountedFor BY Search!MoneyIsAccountedForHolds
<1>4. Search!MoneyIsAccountedFor => MoneyIsAccountedFor BY DEF MoneyIsAccountedFor
<1>5. QED BY <1>1, <1>2, <1>3, <1>4, PTL DEF MCSpec, Search!Spec

\* The prompts a search measures are distinct, within the budget and begin with the
\* seeds, and its recommendation passed the gate with nothing as good and cheaper beside
\* it: see ChoiceIsSoundHolds of OptimizeProofs.
THEOREM ChoiceIsSoundHolds ==
    ASSUME Search!Amounts, Search!Configured
    PROVE  MCSpec => []ChoiceIsSound
<1>1. MCInit => Search!Init BY DEF MCInit
<1>2. [MCNext]_mcVars => [Search!Next]_(Search!vars) BY Steps DEF searchVars, Search!vars
<1>3. Search!Spec => [](Search!TypeOK /\ Search!ChoiceIsSound)
  BY Search!ChoiceIsSoundHolds
<1>4. Search!TypeOK /\ Search!ChoiceIsSound => ChoiceIsSound BY DEF ChoiceIsSound
<1>5. QED BY <1>1, <1>2, <1>3, <1>4, PTL DEF MCSpec, Search!Spec

-----------------------------------------------------------------------------
(* The event log.                                                            *)

\* A research names its trials in a sequence, and the bounds are numbers.
Declared ==
    /\ \A r \in Research : Trials[r] \in Seq(Log!Trial)
    /\ OpenBound \in Nat /\ FaultBound \in Nat /\ LineBound \in Nat

\* From its s-th event to its i-th a chain follows the session of r.
Follows(c, s, i, r) ==
    /\ i - s + 1 <= Len(Log!Session(r))
    /\ \A j \in s..i : c[j] = Log!Session(r)[j - s + 1]

\* Every event of a chain was written in a session that began before it and went on
\* without a gap.
History(c) ==
    /\ c \in Seq(Log!Event)
    /\ \A i \in 1..Len(c) : \E r \in Research, s \in 1..i : Follows(c, s, i, r)

\* What a writer has yet to append is the rest of a session, and what it has appended
\* of that session is the end of its chain.
Underway(w) ==
    todo[w] # <<>> =>
        \E r \in Research, k \in Nat :
            /\ k \in 1..Len(Log!Session(r))
            /\ Len(todo[w]) = Len(Log!Session(r)) - k + 1
            /\ \A j \in 1..Len(todo[w]) : todo[w][j] = Log!Session(r)[k + j - 1]
            /\ k - 1 <= Len(chain[w])
            /\ \A j \in 1..(k - 1) :
                  chain[w][Len(chain[w]) - (k - 1) + j] = Log!Session(r)[j]

\* Whoever has a chain that ends a research knows that it is complete.
WriterInv(w) ==
    /\ History(chain[w]) /\ Underway(w)
    /\ open[w] /\ chain[w] # <<>> /\ chain[w][Len(chain[w])].kind = "research_complete"
           => complete[w]
    /\ ~open[w] => todo[w] = <<>>

\* Whatever became of its event, the digest of a line is of a history.
LogInv ==
    /\ Log!TypeOK
    /\ \A i \in DOMAIN lines : History(lines[i].digest)
    /\ \A w \in Writers : WriterInv(w)

LEMMA SessionIs ==
    ASSUME Declared, NEW r \in Research
    PROVE  /\ Log!Session(r) \in Seq(Log!Event)
           /\ Len(Log!Session(r)) = Len(Trials[r]) + 2 /\ Len(Trials[r]) \in Nat
           /\ Log!Session(r)[1].kind = "research_started"
           /\ \A i \in 2..(Len(Trials[r]) + 1) :
                 Log!Session(r)[i].kind = "trial_recorded"
           /\ Log!Session(r)[Len(Trials[r]) + 2].kind = "research_complete"
<1> DEFINE n == Len(Trials[r])
           t == [i \in DOMAIN Trials[r] |-> Log!Recorded(Trials[r][i])]
           a == <<Log!Started(r)>>
           b == <<Log!Complete(r)>>
<1>1. n \in Nat /\ DOMAIN Trials[r] = 1..n /\ \A i \in 1..n : Trials[r][i] \in Log!Trial
  BY DEF Declared
<1>2. \A i \in 1..n : Log!Recorded(Trials[r][i]) \in Log!Event
  BY <1>1 DEF Log!Recorded, Log!Written, Log!Event
<1>3. t \in Seq(Log!Event) /\ Len(t) = n
      /\ \A i \in 1..n : t[i].kind = "trial_recorded"
  BY <1>1, <1>2 DEF Log!Recorded, Log!Written
<1>4. a \in Seq(Log!Event) /\ b \in Seq(Log!Event) /\ Len(a) = 1 /\ Len(b) = 1
      /\ a[1].kind = "research_started" /\ b[1].kind = "research_complete"
  BY DEF Log!Started, Log!Complete, Log!Written, Log!Event
<1>5. Log!Session(r) = a \o t \o b BY DEF Log!Session
<1> HIDE DEF t, a, b
<1>6. a \o t \in Seq(Log!Event) /\ Len(a \o t) = n + 1
      /\ (a \o t)[1] = a[1] /\ \A i \in 2..(n + 1) : (a \o t)[i] = t[i - 1]
  <2>1. /\ a \o t \in Seq(Log!Event) /\ Len(a \o t) = n + 1
        /\ \A i \in 1..(1 + n) : (a \o t)[i] = IF i <= 1 THEN a[i] ELSE t[i - 1]
    <3>1. Len(a \o t) = 1 + n BY <1>3, <1>4, ConcatProperties
    <3>2. QED BY <1>1, <1>3, <1>4, <3>1, ConcatProperties, SMTT(30)
  <2>2. \A i \in 2..(n + 1) : i \in 1..(1 + n) /\ ~(i <= 1) BY <1>1
  <2>3. 1 \in 1..(1 + n) /\ 1 <= 1 BY <1>1
  <2>4. QED BY <2>1, <2>2, <2>3
<1> DEFINE u == a \o t
<1>7. u \o b \in Seq(Log!Event) /\ Len(u \o b) = n + 2
      /\ (u \o b)[n + 2] = b[1] /\ \A i \in 1..(n + 1) : (u \o b)[i] = u[i]
  <2> HIDE DEF u
  <2>1. u \in Seq(Log!Event) /\ Len(u) = n + 1 BY <1>6 DEF u
  <2>2. /\ u \o b \in Seq(Log!Event) /\ Len(u \o b) = n + 1 + 1
        /\ \A i \in 1..(n + 1 + 1) :
              (u \o b)[i] = IF i <= n + 1 THEN u[i] ELSE b[i - (n + 1)]
    <3>1. Len(u \o b) = n + 1 + 1 BY <1>4, <2>1, ConcatProperties, SMTT(30)
    <3>2. QED BY <1>4, <2>1, <3>1, ConcatProperties
  <2>3. /\ n + 1 + 1 = n + 2 /\ n + 2 \in 1..(n + 2) /\ ~(n + 2 <= n + 1)
        /\ n + 2 - (n + 1) = 1
        /\ \A i \in 1..(n + 1) : i \in 1..(n + 2) /\ i <= n + 1
    BY <1>1
  <2>4. QED BY <2>2, <2>3, SMTT(30)
<1>8. \A i \in 2..(n + 1) : i \in 1..(n + 1) /\ i - 1 \in 1..n BY <1>1
<1>9. QED BY <1>1, <1>3, <1>4, <1>5, <1>6, <1>7, <1>8

\* What the writer appends next goes on with its session.
LEMMA AppendFollows ==
    ASSUME Declared, LogInv, NEW w \in Writers, todo[w] # <<>>
    PROVE  /\ History(Append(chain[w], Head(todo[w])))
           /\ Head(todo[w]) \in Log!Event
           /\ Log!TypeOK => Tail(todo[w]) \in Seq(Log!Event)
<1> DEFINE c == chain[w]
           d == Append(chain[w], Head(todo[w]))
           n == Len(chain[w])
<1>1. /\ c \in Seq(Log!Event) /\ n \in Nat
      /\ todo[w] \in Seq(Log!Event) /\ Head(todo[w]) \in Log!Event
      /\ Tail(todo[w]) \in Seq(Log!Event)
  BY DEF LogInv, Log!TypeOK
<1>2. d \in Seq(Log!Event) /\ Len(d) = n + 1 /\ d[n + 1] = Head(todo[w])
      /\ \A i \in 1..n : d[i] = c[i]
  BY <1>1
<1>3. PICK r \in Research, k \in Nat :
            /\ k \in 1..Len(Log!Session(r))
            /\ Len(todo[w]) = Len(Log!Session(r)) - k + 1
            /\ \A j \in 1..Len(todo[w]) : todo[w][j] = Log!Session(r)[k + j - 1]
            /\ k - 1 <= n
            /\ \A j \in 1..(k - 1) : c[n - (k - 1) + j] = Log!Session(r)[j]
  BY DEF LogInv, WriterInv, Underway
<1>4. /\ k \in Nat /\ k >= 1 /\ n \in Nat /\ k - 1 <= n
      /\ Len(Log!Session(r)) \in Nat /\ k <= Len(Log!Session(r))
  BY <1>1, <1>3, SessionIs
<1>5. Head(todo[w]) = Log!Session(r)[k]
  <2>1. 1 \in 1..Len(todo[w]) /\ k + 1 - 1 = k BY <1>1, <1>3, <1>4
  <2>2. Head(todo[w]) = todo[w][1] BY <1>1
  <2>3. QED BY <1>3, <2>1, <2>2
<1>6. Follows(d, n - k + 2, n + 1, r)
  <2>1. (n + 1) - (n - k + 2) + 1 = k BY <1>1, <1>4
  <2>2. ASSUME NEW j \in (n - k + 2)..(n + 1)
        PROVE  d[j] = Log!Session(r)[j - (n - k + 2) + 1]
    <3>1. CASE j = n + 1 BY <1>1, <1>2, <1>4, <1>5, <3>1
    <3>2. CASE j # n + 1
      <4>1. j \in 1..n /\ j - (n - (k - 1)) \in 1..(k - 1)
        <5> HIDE DEF n
        <5>1. QED BY <1>4, <2>2, <3>2
      <4>2. n - (k - 1) + (j - (n - (k - 1))) = j
            /\ j - (n - k + 2) + 1 = j - (n - (k - 1))
        <5> HIDE DEF n
        <5>1. QED BY <1>4, <4>1
      <4>3. QED BY <1>2, <1>3, <4>1, <4>2
    <3>3. QED BY <3>1, <3>2
  <2>3. QED BY <1>4, <2>1, <2>2 DEF Follows
<1> HIDE DEF c, d, n
<1>7. ASSUME NEW i \in 1..(n + 1)
      PROVE  \E q \in Research, s \in 1..i : Follows(d, s, i, q)
  <2>1. CASE i = n + 1
    <3>1. n - k + 2 \in 1..i BY <1>1, <1>3, <1>4, <2>1 DEF n
    <3>2. QED BY <1>6, <2>1, <3>1
  <2>2. CASE i # n + 1
    <3>1. i \in 1..n BY <1>1, <1>7, <2>2
    <3>2. PICK q \in Research, s \in 1..i : Follows(c, s, i, q)
      BY <3>1 DEF LogInv, WriterInv, History, c, n
    <3>3. \A j \in s..i : j \in 1..n BY <1>1, <3>1
    <3>4. Follows(d, s, i, q) BY <1>2, <3>2, <3>3 DEF Follows
    <3>5. QED BY <3>4
  <2>3. QED BY <2>1, <2>2
<1>8. History(d) BY <1>2, <1>7 DEF History
<1>9. QED BY <1>1, <1>8 DEF d

\* A file that reads well is what the digest of its last line is of.
LEMMA ValidIsItsDigest ==
    ASSUME Log!TypeOK, Log!Valid(lines), lines # <<>>
    PROVE  /\ Len(lines) \in DOMAIN lines
           /\ lines[Len(lines)].digest = Log!Events(lines)
<1> DEFINE n == Len(lines)
           Fails == {i \in 1..n : ~(/\ Len(lines[i].digest) = i
                       /\ \A j \in 1..i : lines[i].digest[j] = lines[j].event)}
<1>1. n \in Nat /\ n >= 1 /\ DOMAIN lines = 1..n BY DEF Log!TypeOK
<1>2. \A i \in 1..n : /\ lines[i].digest \in Seq(Log!Event)
                      /\ lines[i].prev \in Seq(Log!Event) /\ lines[i].event \in Log!Event
  <2>1. \A i \in 1..n : lines[i] \in Log!Line BY DEF Log!TypeOK
  <2>2. QED BY <2>1 DEF Log!Line
<1>3. \A i \in 1..n : /\ lines[i].digest = Append(lines[i].prev, lines[i].event)
                      /\ lines[i].prev = IF i = 1 THEN <<>> ELSE lines[i - 1].digest
  BY <1>1 DEF Log!Valid, Log!Intact
<1>4. Fails = {}
  <2> SUFFICES ASSUME Fails # {} PROVE FALSE OBVIOUS
  <2>1. PICK i \in Fails : \A m \in Fails : i <= m
    <3>1. Fails \in SUBSET Nat OBVIOUS
    <3> HIDE DEF Fails
    <3>2. QED BY <3>1, LeastNat
  <2>2. i \in 1..n OBVIOUS
  <2>3. CASE i = 1
    <3>1. /\ lines[1].digest = Append(lines[1].prev, lines[1].event)
          /\ lines[1].prev = <<>> /\ Len(lines[1].prev) = 0
      BY <1>3, <2>2, <2>3
    <3>2. Len(lines[1].digest) = 1 /\ lines[1].digest[1] = lines[1].event
      BY <1>2, <2>2, <2>3, <3>1
    <3>3. \A j \in 1..1 : j = 1 OBVIOUS
    <3>4. QED BY <2>1, <2>3, <3>2, <3>3
  <2>4. CASE i # 1
    <3>1. i - 1 \in 1..n /\ ~(i <= i - 1) BY <1>1, <2>2, <2>4
    <3>2. i - 1 \notin Fails BY <2>1, <3>1
    <3>3. Len(lines[i - 1].digest) = i - 1
          /\ \A j \in 1..(i - 1) : lines[i - 1].digest[j] = lines[j].event
      BY <3>1, <3>2
    <3>4. lines[i].digest = Append(lines[i - 1].digest, lines[i].event)
      BY <1>3, <2>2, <2>4
    <3>5. Len(lines[i].digest) = i /\ lines[i].digest[i] = lines[i].event
          /\ \A j \in 1..(i - 1) : lines[i].digest[j] = lines[j].event
      BY <1>2, <2>2, <3>1, <3>3, <3>4
    <3>6. \A j \in 1..i : j = i \/ j \in 1..(i - 1) BY <2>2
    <3>7. QED BY <2>1, <3>5, <3>6
  <2>5. QED BY <2>3, <2>4
<1>5. Len(lines[n].digest) = n /\ \A j \in 1..n : lines[n].digest[j] = lines[j].event
  BY <1>1, <1>4
<1> HIDE DEF Fails
<1>6. Log!Events(lines) = [j \in 1..n |-> lines[j].event] BY <1>1 DEF Log!Events
<1>7. Log!Events(lines) \in Seq(Log!Event) /\ Len(Log!Events(lines)) = n
      /\ \A j \in 1..n : Log!Events(lines)[j] = lines[j].event
  BY <1>1, <1>2, <1>6
<1>8. lines[n].digest = Log!Events(lines) BY <1>1, <1>2, <1>5, <1>7
<1>9. QED BY <1>1, <1>8

LEMMA EventsAreHistory ==
    ASSUME LogInv, Log!Valid(lines)
    PROVE  History(Log!Events(lines))
<1>1. CASE lines = <<>>
  <2>1. Log!Events(lines) = <<>> BY <1>1 DEF Log!Events
  <2>2. QED BY <2>1 DEF History
<1>2. CASE lines # <<>>
  BY <1>2, ValidIsItsDigest DEF LogInv
<1>3. QED BY <1>1, <1>2

\* A history that replays is one session: it began once, at its beginning, and what is
\* complete is the whole of it.
LEMMA HistoryReplays ==
    ASSUME Declared, LogInv PROVE Log!ReplayIsOneSession
<1> SUFFICES ASSUME Log!Replays(lines)
             PROVE  \E r \in Research : Log!Events(lines) = Log!Session(r)
  BY DEF Log!ReplayIsOneSession
<1> DEFINE c == Log!Events(lines)
           n == Len(c)
<1>1. History(c) BY EventsAreHistory DEF Log!Replays
<1>2. lines # <<>> /\ Len(lines) \in Nat /\ c = [i \in 1..Len(lines) |-> lines[i].event]
  BY DEF Log!Replays, LogInv, Log!TypeOK, Log!Events
<1>3. c \in Seq(Log!Event) /\ n \in Nat /\ n >= 1
  <2>1. c \in Seq(Log!Event) BY <1>1 DEF History
  <2>2. Len(lines) >= 1 BY <1>2 DEF LogInv, Log!TypeOK
  <2>3. c[1] = lines[1].event /\ c # <<>> BY <1>2, <2>2
  <2> HIDE DEF c
  <2>4. QED BY <2>1, <2>3
<1>4. /\ c[1].kind = "research_started" /\ c[n].kind = "research_complete"
      /\ \A i \in 2..(n - 1) : c[i].kind = "trial_recorded"
  BY DEF Log!Replays, Log!Last
<1> HIDE DEF c, n
<1>5. PICK r \in Research, s \in 1..n : Follows(c, s, n, r)
  BY <1>1, <1>3 DEF History, n
<1> DEFINE f == Log!Session(r)
           m == Len(Trials[r])
<1>6. /\ f \in Seq(Log!Event) /\ Len(f) = m + 2 /\ m \in Nat
      /\ f[1].kind = "research_started"
      /\ \A i \in 2..(m + 1) : f[i].kind = "trial_recorded"
  BY SessionIs
<1>7. s = 1
  <2>1. c[s] = f[s - s + 1] BY <1>3, <1>5 DEF Follows
  <2>2. s - s + 1 = 1 OBVIOUS
  <2>3. c[s].kind = "research_started" BY <1>6, <2>1, <2>2
  <2>4. s # n /\ s \notin 2..(n - 1) BY <1>4, <2>3
  <2>5. QED BY <1>3, <2>4
<1>8. n <= m + 2 /\ \A j \in 1..n : c[j] = f[j]
  BY <1>3, <1>5, <1>6, <1>7 DEF Follows
<1>9. n = m + 2
  <2>1. f[n].kind = "research_complete" BY <1>3, <1>4, <1>8
  <2>2. n # 1 /\ n \notin 2..(m + 1) BY <1>6, <2>1
  <2>3. QED BY <1>3, <1>6, <1>8, <2>2
<1>10. c = f BY <1>3, <1>6, <1>8, <1>9 DEF n
<1>11. QED BY <1>10 DEF c

LEMMA LogInit == ASSUME Declared, Log!Init PROVE LogInv
<1>1. History(<<>>) BY DEF History
<1>2. \A w \in Writers : chain[w] = <<>> /\ todo[w] = <<>> /\ ~open[w] BY DEF Log!Init
<1>3. \A w \in Writers : History(chain[w]) BY <1>1, <1>2
<1>4. \A w \in Writers : Underway(w) BY <1>2 DEF Underway
<1>5. Log!TypeOK
  <2>1. <<>> \in Seq(Log!Line) /\ Len(<<>>) = 0 /\ <<>> \in Seq(Log!Event) OBVIOUS
  <2>2. 0 <= LineBound /\ 0 \in 0..OpenBound /\ 0 \in 0..FaultBound BY DEF Declared
  <2>3. QED BY <2>1, <2>2 DEF Log!Init, Log!TypeOK
<1>6. lines = <<>> BY DEF Log!Init
<1>7. QED BY <1>2, <1>3, <1>4, <1>5, <1>6 DEF LogInv, WriterInv

\* The line a writer puts is one of a history.
LEMMA PutKeeps ==
    ASSUME Declared, LogInv, NEW w \in Writers, todo[w] # <<>>, Len(lines) < LineBound,
           NEW cut \in BOOLEAN, Log!Put(Log!LineOf(w, cut))
    PROVE  /\ lines' \in Seq(Log!Line) /\ Len(lines') <= LineBound
           /\ \A i \in DOMAIN lines' : History(lines'[i].digest)
<1> DEFINE l == Log!LineOf(w, cut)
<1>1. History(Append(chain[w], Head(todo[w]))) /\ Head(todo[w]) \in Log!Event
  BY AppendFollows
<1>2. chain[w] \in Seq(Log!Event) /\ lines \in Seq(Log!Line) /\ Len(lines) \in Nat
  BY DEF LogInv, Log!TypeOK
<1>3. l \in Log!Line /\ History(l.digest)
  BY <1>1, <1>2 DEF Log!LineOf, Log!Line, History
<1>4. lines' = lines \/ lines' = Append(lines, l) BY DEF Log!Put
<1> HIDE DEF l
<1>5. CASE lines' = lines BY <1>5 DEF LogInv, Log!TypeOK
<1>6. CASE lines' = Append(lines, l)
  <2>1. lines' \in Seq(Log!Line) /\ Len(lines') = Len(lines) + 1
        /\ lines'[Len(lines) + 1] = l /\ \A i \in 1..Len(lines) : lines'[i] = lines[i]
    BY <1>2, <1>3, <1>6
  <2>2. Len(lines') <= LineBound BY <1>2, <2>1 DEF Declared
  <2>3. \A i \in DOMAIN lines' : i = Len(lines) + 1 \/ i \in 1..Len(lines)
    BY <1>2, <2>1
  <2>4. QED BY <1>2, <1>3, <2>1, <2>2, <2>3 DEF LogInv
<1>7. QED BY <1>4, <1>5, <1>6

\* The writers a step leaves alone are as they were.
LEMMA OthersKeep ==
    ASSUME LogInv, NEW w \in Writers,
           \A v \in Writers \ {w} :
              /\ open'[v] = open[v] /\ chain'[v] = chain[v]
              /\ todo'[v] = todo[v] /\ complete'[v] = complete[v],
           WriterInv(w)'
    PROVE  \A v \in Writers : WriterInv(v)'
<1>1. ASSUME NEW v \in Writers, v # w PROVE WriterInv(v)'
  <2>1. WriterInv(v) BY DEF LogInv
  <2>2. /\ open'[v] = open[v] /\ chain'[v] = chain[v]
        /\ todo'[v] = todo[v] /\ complete'[v] = complete[v]
    BY <1>1
  <2>3. Underway(v)' BY <2>1, <2>2 DEF WriterInv, Underway
  <2>4. QED BY <2>1, <2>2, <2>3 DEF WriterInv
<1>2. QED BY <1>1

LEMMA LogTypes ==
    ASSUME LogInv
    PROVE  /\ chain \in [Writers -> Seq(Log!Event)] /\ open \in [Writers -> BOOLEAN]
           /\ complete \in [Writers -> BOOLEAN] /\ todo \in [Writers -> Seq(Log!Event)]
           /\ lines \in Seq(Log!Line) /\ Len(lines) \in Nat
           /\ Len(lines) <= LineBound
           /\ opens \in 0..OpenBound /\ faults \in 0..FaultBound /\ edited \in BOOLEAN
BY DEF LogInv, Log!TypeOK

LEMMA ConstructKeeps ==
    ASSUME Declared, LogInv, NEW w \in Writers, Log!Construct(w) PROVE LogInv'
<1> DEFINE es == Log!Events(lines)
           done == \E i \in DOMAIN es : es[i].kind = "research_complete"
<1>1. History(es) BY EventsAreHistory DEF Log!Construct
<1>2. /\ chain' = [chain EXCEPT ![w] = es] /\ open' = [open EXCEPT ![w] = TRUE]
      /\ complete' = [complete EXCEPT ![w] = done]
      /\ UNCHANGED <<lines, todo, faults, edited>> /\ opens' = opens + 1 /\ opens < OpenBound
      /\ ~open[w]
  BY DEF Log!Construct, Log!Opens
<1>3. es \in Seq(Log!Event) /\ done \in BOOLEAN BY <1>1 DEF History
<1>4. es # <<>> /\ es[Len(es)].kind = "research_complete" => done BY <1>3
<1> HIDE DEF es, done
<1>5. Log!TypeOK' BY <1>2, <1>3, LogTypes DEF Log!TypeOK, Declared
<1>6. /\ chain'[w] = es /\ complete'[w] = done /\ todo'[w] = todo[w] /\ open'[w]
      /\ \A v \in Writers \ {w} : /\ open'[v] = open[v] /\ chain'[v] = chain[v]
                                  /\ todo'[v] = todo[v] /\ complete'[v] = complete[v]
  BY <1>2, LogTypes
<1>7. todo[w] = <<>> BY <1>2 DEF LogInv, WriterInv
<1>8. WriterInv(w)' BY <1>1, <1>4, <1>6, <1>7 DEF WriterInv, Underway
<1>9. \A v \in Writers : WriterInv(v)' BY <1>6, <1>8, OthersKeep
<1>10. \A i \in DOMAIN lines' : History(lines'[i].digest) BY <1>2 DEF LogInv
<1>11. QED BY <1>5, <1>9, <1>10 DEF LogInv

LEMMA WriteSessionKeeps ==
    ASSUME Declared, LogInv, NEW w \in Writers, NEW r \in Research,
           Log!WriteSession(w, r)
    PROVE  LogInv'
<1>1. /\ todo' = [todo EXCEPT ![w] = Log!Session(r)] /\ open[w]
      /\ UNCHANGED <<lines, open, chain, complete, opens, faults, edited>>
  BY DEF Log!WriteSession
<1>2. Log!Session(r) \in Seq(Log!Event) /\ Len(Log!Session(r)) \in Nat
      /\ 1 \in 1..Len(Log!Session(r))
  BY SessionIs
<1>3. Log!TypeOK' BY <1>1, <1>2, LogTypes DEF Log!TypeOK
<1>4. todo'[w] = Log!Session(r) BY <1>1, LogTypes
<1>5. Underway(w)'
  <2>1. Len(chain[w]) \in Nat BY LogTypes
  <2>2. \A j \in 1..Len(Log!Session(r)) : 1 + j - 1 = j BY <1>2
  <2>3. Len(Log!Session(r)) = Len(Log!Session(r)) - 1 + 1 BY <1>2
  <2>4. 1 - 1 <= Len(chain[w]) /\ \A j \in 1..(1 - 1) : FALSE BY <2>1
  <2>5. QED BY <1>1, <1>2, <1>4, <2>2, <2>3, <2>4 DEF Underway
<1>6. WriterInv(w)' BY <1>1, <1>5 DEF LogInv, WriterInv
<1>7. \A v \in Writers \ {w} : todo'[v] = todo[v] BY <1>1, LogTypes
<1>8. \A v \in Writers : WriterInv(v)' BY <1>1, <1>6, <1>7, OthersKeep
<1>9. QED BY <1>1, <1>3, <1>8 DEF LogInv

LEMMA AppendEventKeeps ==
    ASSUME Declared, LogInv, NEW w \in Writers, Log!AppendEvent(w) PROVE LogInv'
<1> DEFINE e == Head(todo[w])
<1>1. /\ open[w] /\ todo[w] # <<>> /\ Len(lines) < LineBound
      /\ Log!Put(Log!LineOf(w, FALSE))
      /\ chain' = [chain EXCEPT ![w] = Append(chain[w], e)]
      /\ complete' = [complete EXCEPT ![w] = e.kind = "research_complete"]
      /\ todo' = [todo EXCEPT ![w] = Tail(todo[w])]
      /\ UNCHANGED <<open, opens, faults, edited>>
  BY LogTypes DEF Log!AppendEvent, Log!MayAppend
<1>2. /\ lines' \in Seq(Log!Line) /\ Len(lines') <= LineBound
      /\ \A i \in DOMAIN lines' : History(lines'[i].digest)
  BY <1>1, PutKeeps
<1>3. /\ History(Append(chain[w], e)) /\ e \in Log!Event
      /\ todo[w] \in Seq(Log!Event) /\ chain[w] \in Seq(Log!Event)
  BY <1>1, AppendFollows, LogTypes
<1>4. Tail(todo[w]) \in Seq(Log!Event) /\ Append(chain[w], e) \in Seq(Log!Event)
  BY <1>1, <1>3
<1>5. Log!TypeOK' BY <1>1, <1>2, <1>4, LogTypes DEF Log!TypeOK
<1>6. /\ chain'[w] = Append(chain[w], e) /\ todo'[w] = Tail(todo[w])
      /\ complete'[w] = (e.kind = "research_complete") /\ open'[w]
      /\ \A v \in Writers \ {w} : /\ open'[v] = open[v] /\ chain'[v] = chain[v]
                                  /\ todo'[v] = todo[v] /\ complete'[v] = complete[v]
  BY <1>1, LogTypes
<1>7. Underway(w)'
  <2> DEFINE n == Len(chain[w])
  <2>1. PICK r \in Research, k \in Nat :
            /\ k \in 1..Len(Log!Session(r))
            /\ Len(todo[w]) = Len(Log!Session(r)) - k + 1
            /\ \A j \in 1..Len(todo[w]) : todo[w][j] = Log!Session(r)[k + j - 1]
            /\ k - 1 <= n
            /\ \A j \in 1..(k - 1) : chain[w][n - (k - 1) + j] = Log!Session(r)[j]
    BY <1>1 DEF LogInv, WriterInv, Underway
  <2> DEFINE f == Log!Session(r)
             t == Tail(todo[w])
             d == Append(chain[w], e)
  <2>2. n \in Nat /\ Len(f) \in Nat /\ k >= 1 /\ k <= Len(f) /\ Len(todo[w]) \in Nat
    BY <1>3, <2>1, SessionIs
  <2>3. /\ Len(t) = Len(todo[w]) - 1
        /\ \A j \in 1..Len(t) : t[j] = todo[w][j + 1]
        /\ e = todo[w][1]
    BY <1>1, <1>3
  <2>4. /\ Len(d) = n + 1 /\ d[n + 1] = e /\ \A j \in 1..n : d[j] = chain[w][j]
    BY <1>3
  <2> HIDE DEF f, t, d, n
  <2>5. Len(t) = Len(f) - (k + 1) + 1 BY <2>1, <2>2, <2>3 DEF f
  <2>6. ASSUME NEW j \in 1..Len(t) PROVE t[j] = f[(k + 1) + j - 1]
    <3>1. j + 1 \in 1..Len(todo[w]) /\ k + (j + 1) - 1 = (k + 1) + j - 1
      BY <2>2, <2>3, <2>5, SMTT(30)
    <3>2. QED BY <2>1, <2>3, <3>1 DEF f
  <2>7. ASSUME NEW j \in 1..k PROVE d[n + 1 - k + j] = f[j]
    <3>1. CASE j = k
      <4>1. 1 \in 1..Len(todo[w]) /\ k + 1 - 1 = k /\ n + 1 - k + k = n + 1
        BY <2>1, <2>2 DEF f
      <4>2. e = f[k] BY <2>1, <2>3, <4>1 DEF f
      <4>3. QED BY <2>4, <3>1, <4>1, <4>2
    <3>2. CASE j # k
      <4>1. j \in 1..(k - 1) /\ n - (k - 1) + j = n + 1 - k + j
            /\ n + 1 - k + j \in 1..n
        BY <2>1, <2>2, <2>7, <3>2
      <4>2. QED BY <2>1, <2>4, <4>1 DEF f
    <3>3. QED BY <3>1, <3>2
  <2>8. t # <<>> => k + 1 \in 1..Len(f)
    <3>1. t # <<>> => Len(t) # 0 BY <1>4, EmptySeq DEF t
    <3>2. QED BY <2>1, <2>2, <2>3, <2>5, <3>1 DEF f
  <2>9. /\ (k + 1) - 1 = k /\ k + 1 \in Nat /\ k <= n + 1
        /\ Len(f) - (k + 1) + 1 = Len(f) - k
    BY <2>1, <2>2
  <2>12. ASSUME NEW j \in 1..((k + 1) - 1)
         PROVE  d[Len(d) - ((k + 1) - 1) + j] = f[j]
    <3>1. j \in 1..k /\ Len(d) - ((k + 1) - 1) + j = n + 1 - k + j
      BY <2>2, <2>4, <2>9
    <3>2. QED BY <2>7, <3>1
  <2>13. (k + 1) - 1 <= Len(d) BY <2>4, <2>9
  <2>10. t # <<>> => \E kk \in Nat :
            /\ kk \in 1..Len(f)
            /\ Len(t) = Len(f) - kk + 1
            /\ \A j \in 1..Len(t) : t[j] = f[kk + j - 1]
            /\ kk - 1 <= Len(d)
            /\ \A j \in 1..(kk - 1) : d[Len(d) - (kk - 1) + j] = f[j]
    BY <2>5, <2>6, <2>8, <2>9, <2>12, <2>13
  <2>14. todo'[w] = t /\ chain'[w] = d /\ f = Log!Session(r) BY <1>6 DEF f, t, d
  <2> HIDE DEF f, t, d
  <2>11. QED BY <2>10, <2>14 DEF Underway
<1>8. WriterInv(w)'
  <2>1. /\ Append(chain[w], e)[Len(Append(chain[w], e))] = e BY <1>3
  <2>2. QED BY <1>3, <1>6, <1>7, <2>1 DEF WriterInv
<1>9. \A v \in Writers : WriterInv(v)' BY <1>6, <1>8, OthersKeep
<1>10. QED BY <1>2, <1>5, <1>9 DEF LogInv

\* Whoever gives up a session keeps its chain or its object is gone.
LEMMA GivingUpKeeps ==
    ASSUME Declared, LogInv, NEW w \in Writers,
           Log!AppendFails(w) \/ Log!AppendRefused(w) \/ Log!Drop(w)
    PROVE  LogInv'
<1>1. /\ lines' \in Seq(Log!Line) /\ Len(lines') <= LineBound
      /\ \A i \in DOMAIN lines' : History(lines'[i].digest)
  <2>1. \/ lines' = lines
        \/ /\ todo[w] # <<>> /\ Len(lines) < LineBound
           /\ \E cut \in BOOLEAN : Log!Put(Log!LineOf(w, cut))
    BY DEF Log!AppendFails, Log!AppendRefused, Log!Drop, Log!MayAppend
  <2>2. CASE lines' = lines BY <2>2, LogTypes DEF LogInv
  <2>3. QED BY <2>1, <2>2, PutKeeps
<1>2. /\ todo' = [todo EXCEPT ![w] = <<>>] /\ UNCHANGED <<opens, edited>>
      /\ faults' \in 0..FaultBound
  <2>1. \/ faults' = faults
        \/ faults < FaultBound /\ faults' = faults + 1
    BY DEF Log!AppendFails, Log!AppendRefused, Log!Drop, Log!Fault
  <2>2. faults' \in 0..FaultBound BY <2>1, LogTypes DEF Declared
  <2>3. QED BY <2>2 DEF Log!AppendFails, Log!AppendRefused, Log!Drop
<1>3. \/ UNCHANGED <<open, chain, complete>>
      \/ /\ open' = [open EXCEPT ![w] = FALSE] /\ chain' = [chain EXCEPT ![w] = <<>>]
         /\ complete' = [complete EXCEPT ![w] = FALSE]
  BY DEF Log!AppendFails, Log!AppendRefused, Log!Drop
<1>4. Log!TypeOK'
  <2>1. <<>> \in Seq(Log!Event) OBVIOUS
  <2>2. todo' \in [Writers -> Seq(Log!Event)] BY <1>2, <2>1, LogTypes
  <2>3. /\ open' \in [Writers -> BOOLEAN] /\ chain' \in [Writers -> Seq(Log!Event)]
        /\ complete' \in [Writers -> BOOLEAN]
    BY <1>3, <2>1, LogTypes
  <2>4. QED BY <1>1, <1>2, <2>2, <2>3, LogTypes DEF Log!TypeOK
<1>5. \A v \in Writers \ {w} : /\ open'[v] = open[v] /\ chain'[v] = chain[v]
                               /\ todo'[v] = todo[v] /\ complete'[v] = complete[v]
  BY <1>2, <1>3, LogTypes
<1>6. todo'[w] = <<>> BY <1>2, LogTypes
<1>7. WriterInv(w)'
  <2>1. History(<<>>) BY DEF History
  <2>2. CASE UNCHANGED <<open, chain, complete>>
    BY <1>6, <2>2 DEF LogInv, WriterInv, Underway
  <2>3. CASE chain' = [chain EXCEPT ![w] = <<>>]
    <3>1. chain'[w] = <<>> BY <2>3, LogTypes
    <3>2. QED BY <1>6, <2>1, <3>1 DEF WriterInv, Underway
  <2>4. QED BY <1>3, <2>2, <2>3
<1>8. \A v \in Writers : WriterInv(v)' BY <1>5, <1>7, OthersKeep
<1>9. QED BY <1>1, <1>4, <1>8 DEF LogInv

\* An edit moves lines and alters events, and leaves every digest as it was computed.
LEMMA EditKeeps == ASSUME Declared, LogInv, Log!Edit PROVE LogInv'
<1> DEFINE n == Len(lines)
<1>1. /\ UNCHANGED <<open, chain, complete, todo, opens>>
      /\ edited' = TRUE /\ faults' \in 0..FaultBound
  BY LogTypes DEF Log!Edit, Log!Fault, Declared
<1>2. PICK i \in DOMAIN lines :
          \/ lines' = Log!RemoveAt(lines, i)
          \/ lines' = [lines EXCEPT ![i].event.altered = TRUE]
          \/ i < n /\ lines' = [lines EXCEPT ![i] = lines[i + 1], ![i + 1] = lines[i]]
  BY DEF Log!Edit
<1>3. n \in Nat /\ DOMAIN lines = 1..n /\ \A j \in 1..n : lines[j] \in Log!Line
  BY LogTypes
<1>4. i \in 1..n BY <1>2, <1>3
<1> HIDE DEF n
<1>5. /\ lines' \in Seq(Log!Line) /\ Len(lines') <= n
      /\ \A j \in DOMAIN lines' : \E k \in 1..n : lines'[j].digest = lines[k].digest
  <2>1. CASE lines' = Log!RemoveAt(lines, i)
    <3> DEFINE a == SubSeq(lines, 1, i - 1)
               b == SubSeq(lines, i + 1, n)
    <3>1. /\ a \in Seq(Log!Line) /\ Len(a) = i - 1
          /\ \A j \in 1..(i - 1) : a[j] = lines[j]
      BY <1>3, <1>4, LogTypes DEF n
    <3>2. /\ b \in Seq(Log!Line) /\ Len(b) = n - i
          /\ \A j \in 1..(n - i) : b[j] = lines[i + j]
      <4>1. \A j \in (i + 1)..n : lines[j] \in Log!Line BY <1>3, <1>4
      <4>2. i + 1 \in Int /\ n \in Int BY <1>3, <1>4
      <4>3. /\ b \in Seq(Log!Line)
            /\ Len(b) = IF i + 1 <= n THEN n - (i + 1) + 1 ELSE 0
            /\ \A j \in 1..(n - (i + 1) + 1) : b[j] = lines[i + 1 + j - 1]
        BY <4>1, <4>2, SubSeqProperties
      <4> HIDE DEF b
      <4>4. n - (i + 1) + 1 = n - i /\ (~(i + 1 <= n) => n - i = 0) BY <1>3, <1>4
      <4>5. \A j \in 1..(n - i) : i + 1 + j - 1 = i + j BY <1>3, <1>4
      <4>6. QED BY <4>3, <4>4, <4>5
    <3>3. lines' = a \o b BY <2>1 DEF Log!RemoveAt, n
    <3> HIDE DEF a, b
    <3>4. /\ lines' \in Seq(Log!Line) /\ Len(lines') = n - 1
          /\ \A j \in 1..(n - 1) :
                lines'[j] = IF j <= i - 1 THEN a[j] ELSE b[j - (i - 1)]
      <4>1. /\ a \o b \in Seq(Log!Line) /\ Len(a \o b) = Len(a) + Len(b)
            /\ \A j \in 1..(Len(a) + Len(b)) :
                  (a \o b)[j] = IF j <= Len(a) THEN a[j] ELSE b[j - Len(a)]
        BY <3>1, <3>2, ConcatProperties
      <4>2. Len(a) + Len(b) = n - 1 /\ Len(a) = i - 1 BY <1>3, <1>4, <3>1, <3>2
      <4>3. QED BY <3>3, <4>1, <4>2
    <3>5. ASSUME NEW j \in 1..(n - 1)
          PROVE  \E k \in 1..n : lines'[j].digest = lines[k].digest
      <4>1. CASE j <= i - 1
        <5>1. j \in 1..(i - 1) /\ j \in 1..n BY <1>3, <1>4, <4>1
        <5>2. QED BY <3>1, <3>4, <4>1, <5>1
      <4>2. CASE ~(j <= i - 1)
        <5>1. j - (i - 1) \in 1..(n - i) /\ i + (j - (i - 1)) = j + 1 /\ j + 1 \in 1..n
          BY <1>3, <1>4, <4>2
        <5>2. lines'[j] = lines[j + 1] BY <3>2, <3>4, <4>2, <5>1
        <5>3. QED BY <5>1, <5>2
      <4>3. QED BY <4>1, <4>2
    <3>6. QED BY <1>3, <3>4, <3>5
  <2>2. CASE lines' = [lines EXCEPT ![i].event.altered = TRUE]
    <3>1. [lines[i] EXCEPT !.event.altered = TRUE] \in Log!Line
      <4>1. lines[i].event \in Log!Event BY <1>3, <1>4 DEF Log!Line
      <4>2. [lines[i].event EXCEPT !.altered = TRUE] \in Log!Event
        BY <4>1 DEF Log!Event
      <4>3. QED BY <1>3, <1>4, <4>2 DEF Log!Line
    <3>2. /\ lines' \in Seq(Log!Line) /\ Len(lines') = n /\ DOMAIN lines' = 1..n
          /\ \A j \in 1..n : j # i => lines'[j] = lines[j]
          /\ lines'[i] = [lines[i] EXCEPT !.event.altered = TRUE]
      BY <1>3, <1>4, <2>2, <3>1, LogTypes DEF n
    <3>3. lines'[i].digest = lines[i].digest BY <1>3, <1>4, <3>2 DEF Log!Line
    <3>4. \A j \in 1..n : lines'[j].digest = lines[j].digest BY <3>2, <3>3
    <3>5. QED BY <1>3, <3>2, <3>4
  <2>3. CASE i < n /\ lines' = [lines EXCEPT ![i] = lines[i + 1], ![i + 1] = lines[i]]
    <3>1. i + 1 \in 1..n BY <1>3, <1>4, <2>3
    <3>2. /\ lines' \in Seq(Log!Line) /\ Len(lines') = n /\ DOMAIN lines' = 1..n
          /\ \A j \in 1..n : lines'[j] = lines[j] \/ lines'[j] = lines[i]
                             \/ lines'[j] = lines[i + 1]
      BY <1>3, <1>4, <2>3, <3>1, LogTypes DEF n
    <3>3. QED BY <1>3, <1>4, <3>1, <3>2
  <2>4. QED BY <1>2, <2>1, <2>2, <2>3
<1>6. Len(lines') <= LineBound BY <1>3, <1>5, LogTypes DEF n, Declared
<1>7. Log!TypeOK' BY <1>1, <1>5, <1>6, LogTypes DEF Log!TypeOK
<1>8. \A j \in DOMAIN lines' : History(lines'[j].digest)
  BY <1>3, <1>5 DEF LogInv
<1>9. \A w \in Writers : WriterInv(w)' BY <1>1 DEF LogInv, WriterInv, Underway
<1>10. QED BY <1>7, <1>8, <1>9 DEF LogInv

LEMMA LogStep ==
    ASSUME Declared, LogInv, Log!Next \/ UNCHANGED logVars
    PROVE  LogInv' /\ Log!AddsToNoStory
<1>1. LogInv'
  <2>1. CASE UNCHANGED logVars
    BY <2>1 DEF logVars, LogInv, Log!TypeOK, WriterInv, Underway
  <2>2. QED BY <2>1, ConstructKeeps, WriteSessionKeeps, AppendEventKeeps, GivingUpKeeps,
               EditKeeps DEF Log!Next
<1>2. Log!AddsToNoStory
  <2> SUFFICES ASSUME Log!Replays(lines), ~edited', lines' # lines,
                      \A w \in Writers : open[w] => chain[w] = Log!Events(lines)
               PROVE  FALSE
    BY DEF Log!AddsToNoStory
  <2>1. PICK w \in Writers : open[w] /\ ~complete[w]
    BY DEF Log!Next, Log!Construct, Log!WriteSession, Log!AppendEvent, Log!AppendFails,
       Log!AppendRefused, Log!Drop, Log!Edit, Log!MayAppend, logVars
  <2>2. chain[w] = Log!Events(lines) BY <2>1
  <2>3. /\ Log!Events(lines)[Len(Log!Events(lines))].kind = "research_complete"
        /\ lines # <<>>
    BY DEF Log!Replays, Log!Last
  <2>4. Log!Events(lines) # <<>>
    <3>1. Len(lines) >= 1 /\ Len(lines) \in Nat BY <2>3, LogTypes
    <3>2. DOMAIN Log!Events(lines) = 1..Len(lines) /\ 1 \in 1..Len(lines)
      BY <3>1, LogTypes DEF Log!Events
    <3>3. QED BY <3>2
  <2>5. QED BY <2>1, <2>2, <2>3, <2>4 DEF LogInv, WriterInv
<1>3. QED BY <1>1, <1>2

\* What replays is one session as it was written, however many writers there are and
\* whatever fails, dies or is edited, and who has read a log that replays adds nothing.
THEOREM LogTellsOneStoryHolds ==
    ASSUME Declared
    PROVE  MCSpec => LogTellsOneStory
<1>1. MCInit => LogInv BY LogInit DEF MCInit
<1>2. LogInv /\ [MCNext]_mcVars => LogInv' BY Steps, LogStep
<1>3. LogInv /\ [MCNext]_mcVars => Log!AddsToNoStory BY Steps, LogStep
<1>4. LogInv => Log!TypeOK BY DEF LogInv
<1>5. LogInv => Log!ReplayIsOneSession BY HistoryReplays
<1>6. QED BY <1>1, <1>2, <1>3, <1>4, <1>5, PTL DEF MCSpec, LogTellsOneStory

-----------------------------------------------------------------------------
(* The corpus, from what CorpusProofs shows of it.                           *)

\* The least cohort that the code makes is of six; above it, as many documents and
\* links as the identifiers of Corpus tell apart.
Ordered == CohortSize \in 6..24 /\ ChainLength \in 2..10 /\ Hops \in 2..3

\* What the generator lets out can be solved from its text, and so can its twin, for
\* every size of cohort, chain and hop: see CorpusSolvable of CorpusProofs.
THEOREM CorpusIsSolvableHolds ==
    ASSUME Ordered
    PROVE  MCSpec => []CorpusIsSolvable
<1>1. Generator!DrawsInRange
  <2> DEFINE A == {1000, 1001, 2000, 3000, 4000, 5000, 9998}
  <2>1. \A S : Generator!IsFiniteSet(S) = IsFiniteSet(S)
    BY DEF Generator!IsFiniteSet, IsFiniteSet
  <2>2. Generator!IsFiniteSet(A)
    <3>1. \A x \in A : x \in Nat /\ x <= 9998 OBVIOUS
    <3> HIDE DEF A
    <3>2. PICK m \in Nat : m = 9998 OBVIOUS
    <3>3. \A x \in A : x \in Nat /\ x <= m BY <3>1, <3>2
    <3>4. IsFiniteSet(A)
      <4>1. A \subseteq 0..m BY <3>3
      <4>2. 0 \in Int /\ m \in Int OBVIOUS
      <4>3. IsFiniteSet(0..m) BY <4>2, FS_Interval
      <4>4. QED BY <4>1, <4>3, FS_Subset
    <3>5. QED BY <2>1, <3>4
  <2>3. QED BY <2>2 DEF Ordered, Generator!DrawsInRange
<1>2. MCInit => Generator!Init BY DEF MCInit, EvaluationInit
<1>3. [MCNext]_mcVars => [Generator!Next]_(Generator!vars)
  BY Steps DEF corpusVars, Generator!vars
<1>4. Generator!Spec => []Generator!TypeOK BY <1>1, Generator!CorpusTypeCorrect
<1>5. Generator!Spec => []Generator!CorpusIsSolvable BY <1>1, Generator!CorpusSolvable
<1>6. Generator!TypeOK /\ Generator!CorpusIsSolvable => CorpusIsSolvable
  BY DEF CorpusIsSolvable
<1>7. QED BY <1>2, <1>3, <1>4, <1>5, <1>6, PTL DEF MCSpec, Generator!Spec

-----------------------------------------------------------------------------
(* The vote of a baseline.                                                   *)

\* Documents are finitely many; of the replies nothing is assumed.
Polled == VoteSize \in Nat /\ IsFiniteSet(Docs)

Vote == [answer : {r.answers[Len(r.answers)] : r \in Replies}, cited : SUBSET Docs]

\* What the vote returned is the tally of the votes that are there.
Tallied ==
    Ballot!Voted =>
        /\ result[1].answer = IF Ballot!Modal = {} THEN Ballot!NoAnswer
                              ELSE votes[Ballot!Min(Ballot!Modal)].answer
        /\ result[1].cited = Ballot!MajorityEvidence(Ballot!Modal)

VoteInv ==
    /\ Ballot!TypeOK
    /\ votes \in Seq(Vote)
    /\ \A i \in DOMAIN votes : votes[i].answer # Ballot!NoAnswer
    /\ Tallied

LEMMA SameCardinality == \A S : Ballot!Cardinality(S) = Cardinality(S)
  BY DEF Ballot!Cardinality, Cardinality

LEMMA MinOfNats ==
    ASSUME NEW S \in SUBSET Nat, S # {}
    PROVE  Ballot!Min(S) \in S /\ \A y \in S : Ballot!Min(S) <= y
<1>1. \E x \in S : \A y \in S : x <= y BY LeastNat
<1>2. QED BY <1>1 DEF Ballot!Min

\* The groups are the classes of one relation on the places of the votes.
LEMMA GroupsPartition ==
    ASSUME VoteInv
    PROVE  /\ Len(votes) \in Nat /\ DOMAIN votes = 1..Len(votes)
           /\ IsFiniteSet(1..Len(votes)) /\ Cardinality(1..Len(votes)) = Len(votes)
           /\ \A i \in DOMAIN votes :
                /\ Ballot!Group(i) \subseteq 1..Len(votes) /\ i \in Ballot!Group(i)
                /\ IsFiniteSet(Ballot!Group(i))
                /\ Cardinality(Ballot!Group(i)) \in 1..Len(votes)
                /\ Ballot!Giving(votes[i].answer.key) = Ballot!Group(i)
                /\ \A j \in DOMAIN votes :
                    /\ j \in Ballot!Group(i) =>
                        Ballot!Group(j) = Ballot!Group(i)
                        /\ votes[j].answer.key = votes[i].answer.key
                    /\ j \notin Ballot!Group(i) =>
                        Ballot!Group(j) \cap Ballot!Group(i) = {}
<1>1. Len(votes) \in Nat /\ DOMAIN votes = 1..Len(votes) BY DEF VoteInv
<1>2. IsFiniteSet(1..Len(votes)) /\ Cardinality(1..Len(votes)) = Len(votes)
  <2>1. /\ IsFiniteSet(1..Len(votes))
        /\ Cardinality(1..Len(votes))
               = IF 1 > Len(votes) THEN 0 ELSE Len(votes) - 1 + 1
    BY <1>1, FS_Interval
  <2>2. QED BY <1>1, <2>1
<1>3. ASSUME NEW i \in DOMAIN votes
      PROVE  /\ Ballot!Group(i) \subseteq 1..Len(votes) /\ i \in Ballot!Group(i)
             /\ IsFiniteSet(Ballot!Group(i))
             /\ Cardinality(Ballot!Group(i)) \in 1..Len(votes)
  <2>1. Ballot!Group(i) \subseteq 1..Len(votes) /\ i \in Ballot!Group(i)
    BY <1>1 DEF Ballot!Group
  <2>2. /\ IsFiniteSet(Ballot!Group(i))
        /\ Cardinality(Ballot!Group(i)) <= Len(votes)
    BY <1>2, <2>1, FS_Subset
  <2>3. Cardinality(Ballot!Group(i)) \in Nat BY <2>2, FS_CardinalityType
  <2>4. Cardinality(Ballot!Group(i)) # 0 BY <2>1, <2>2, FS_EmptySet
  <2>5. QED BY <1>1, <2>1, <2>2, <2>3, <2>4
<1>4. \A i, j \in DOMAIN votes :
        j \in Ballot!Group(i) <=> votes[j].answer.key = votes[i].answer.key
  BY DEF Ballot!Group, Ballot!Key
<1>5. \A i \in DOMAIN votes : Ballot!Giving(votes[i].answer.key) = Ballot!Group(i)
  BY DEF Ballot!Group, Ballot!Giving, Ballot!Key
<1>6. \A i \in DOMAIN votes : Ballot!Group(i) \subseteq DOMAIN votes BY DEF Ballot!Group
<1>7. ASSUME NEW i \in DOMAIN votes, NEW j \in DOMAIN votes, j \in Ballot!Group(i)
      PROVE  Ballot!Group(j) = Ballot!Group(i)
             /\ votes[j].answer.key = votes[i].answer.key
  BY <1>4, <1>6, <1>7
<1>8. ASSUME NEW i \in DOMAIN votes, NEW j \in DOMAIN votes, j \notin Ballot!Group(i)
      PROVE  Ballot!Group(j) \cap Ballot!Group(i) = {}
  BY <1>4, <1>6, <1>8
<1>9. QED BY <1>1, <1>2, <1>3, <1>5, <1>7, <1>8

\* The modal group is one group, of a size that none exceeds, and its first vote is
\* the one whose answer is returned.
LEMMA ModalIsAGroup ==
    ASSUME VoteInv, votes # <<>>
    PROVE  \E m \in DOMAIN votes :
              /\ Ballot!Modal = Ballot!Group(m) /\ Ballot!Min(Ballot!Modal) = m
              /\ \A k \in DOMAIN votes :
                    Cardinality(Ballot!Group(k)) <= Cardinality(Ballot!Group(m))
<1> DEFINE D == DOMAIN votes
           G(i) == Ballot!Group(i)
           size(i) == Cardinality(Ballot!Group(i))
           W == {i \in D : \A k \in D : size(k) <= size(i)}
           n == Len(votes)
<1>1. /\ n \in Nat /\ D = 1..n
      /\ \A i \in D : G(i) \subseteq D /\ i \in G(i) /\ size(i) \in 1..n
      /\ \A i, j \in D : j \in G(i) => G(j) = G(i)
  BY GroupsPartition
<1>2. D # {} /\ D \subseteq Nat
  <2>1. n # 0 BY EmptySeq DEF VoteInv
  <2>2. 1 \in D BY <1>1, <2>1
  <2>3. QED BY <1>1, <2>2
<1>3. W # {}
  <2> DEFINE T == {n - size(i) : i \in D}
  <2>1. T \in SUBSET Nat /\ T # {} BY <1>1, <1>2
  <2>2. PICK t \in T : \A u \in T : t <= u BY <2>1, LeastNat
  <2>3. PICK i \in D : t = n - size(i) BY <2>2
  <2>4. ASSUME NEW k \in D PROVE size(k) <= size(i)
    <3>1. n - size(i) <= n - size(k) BY <2>2, <2>3
    <3>2. QED BY <1>1, <3>1
  <2>5. QED BY <2>4
<1>4. PICK m \in W : \A k \in W : m <= k
  <2>1. W \in SUBSET Nat BY <1>2
  <2>2. QED BY <1>3, <2>1, LeastNat
<1>5. m \in D /\ \A k \in D : size(k) <= size(m) OBVIOUS
<1> HIDE DEF W
<1>6. \A i \in D : size(i) = size(m) => i \in W
  BY <1>1, <1>5 DEF W
<1>7. ASSUME NEW i \in D, size(i) = size(m)
      PROVE  Ballot!Min(G(i)) \in D /\ Ballot!Min(G(i)) \in G(i) /\ m <= Ballot!Min(G(i))
  <2>1. G(i) \in SUBSET Nat /\ G(i) # {} BY <1>1, <1>2
  <2>2. Ballot!Min(G(i)) \in G(i) BY <2>1, MinOfNats
  <2>3. Ballot!Min(G(i)) \in D BY <1>1, <2>2
  <2>4. G(Ballot!Min(G(i))) = G(i) BY <1>1, <2>2, <2>3
  <2>5. Ballot!Min(G(i)) \in W BY <1>6, <1>7, <2>3, <2>4
  <2>6. QED BY <1>4, <2>2, <2>3, <2>5
<1>8. Ballot!Min(G(m)) = m
  <2>1. G(m) \in SUBSET Nat /\ G(m) # {} /\ m \in G(m) BY <1>1, <1>2, <1>5
  <2>2. Ballot!Min(G(m)) \in G(m) /\ Ballot!Min(G(m)) <= m BY <2>1, MinOfNats
  <2>3. m <= Ballot!Min(G(m)) BY <1>5, <1>7
  <2>4. m \in Nat /\ Ballot!Min(G(m)) \in Nat BY <2>1, <2>2
  <2>5. QED BY <2>2, <2>3, <2>4
<1>9. Ballot!Modal = G(m)
  <2>1. \A k \in D : size(k) = size(m) => Ballot!Min(G(m)) <= Ballot!Min(G(k))
    BY <1>7, <1>8
  <2>2. G(m) \subseteq Ballot!Modal
    BY <1>1, <1>5, <2>1, SameCardinality DEF Ballot!Modal
  <2>3. ASSUME NEW j \in Ballot!Modal PROVE j \in G(m)
    <3>1. PICK i \in D :
            /\ j \in G(i)
            /\ \A k \in D : /\ size(k) <= size(i)
                            /\ size(k) = size(i) => Ballot!Min(G(i)) <= Ballot!Min(G(k))
      BY SameCardinality DEF Ballot!Modal
    <3>2. size(i) = size(m) BY <1>1, <1>5, <3>1
    <3>3. Ballot!Min(G(i)) <= m BY <1>5, <1>8, <3>1, <3>2
    <3>4. Ballot!Min(G(i)) \in D /\ Ballot!Min(G(i)) \in G(i) /\ m <= Ballot!Min(G(i))
      BY <1>7, <3>2
    <3>5. Ballot!Min(G(i)) = m BY <1>2, <1>5, <3>3, <3>4
    <3>6. QED BY <1>1, <1>5, <3>1, <3>4, <3>5
  <2>4. QED BY <2>2, <2>3
<1>10. QED BY <1>5, <1>8, <1>9

LEMMA NoVoteNoModal == ASSUME votes = <<>> PROVE Ballot!Modal = {}
BY DEF Ballot!Modal

\* A majority of the votes is the modal group: another of that size would overlap it.
LEMMA MajorityHolds == ASSUME VoteInv PROVE Ballot!MajorityIsHeard
<1> SUFFICES ASSUME Ballot!Voted PROVE Ballot!MajorityIsHeard
  BY DEF Ballot!MajorityIsHeard
<1>1. CASE votes = <<>>
  <2>1. result[1].answer = Ballot!NoAnswer BY <1>1, NoVoteNoModal DEF VoteInv, Tallied
  <2>2. DOMAIN votes = {} BY <1>1
  <2>3. QED BY <1>1, <2>1, <2>2 DEF Ballot!MajorityIsHeard
<1>2. CASE votes # <<>>
  <2>1. PICK m \in DOMAIN votes :
            /\ Ballot!Modal = Ballot!Group(m) /\ Ballot!Min(Ballot!Modal) = m
            /\ \A k \in DOMAIN votes :
                  Cardinality(Ballot!Group(k)) <= Cardinality(Ballot!Group(m))
    BY <1>2, ModalIsAGroup
  <2>2. result[1].answer = votes[m].answer
    BY <2>1, GroupsPartition DEF VoteInv, Tallied
  <2>3. ASSUME NEW i \in DOMAIN votes,
               2 * Cardinality(Ballot!Giving(votes[i].answer.key)) > Len(votes)
        PROVE  votes[m].answer.key = votes[i].answer.key
    <3> DEFINE a == Ballot!Group(i)
               b == Ballot!Group(m)
    <3>1. /\ Len(votes) \in Nat /\ IsFiniteSet(1..Len(votes))
          /\ Cardinality(1..Len(votes)) = Len(votes)
      BY GroupsPartition
    <3>2. /\ a \subseteq 1..Len(votes) /\ IsFiniteSet(a)
          /\ Ballot!Giving(votes[i].answer.key) = a
          /\ m \notin a => b \cap a = {}
          /\ m \in a => votes[m].answer.key = votes[i].answer.key
      BY GroupsPartition
    <3>3. b \subseteq 1..Len(votes) /\ IsFiniteSet(b) BY GroupsPartition
    <3>4. Cardinality(a) \in Nat /\ Cardinality(b) \in Nat
      BY <3>2, <3>3, FS_CardinalityType
    <3>5. 2 * Cardinality(a) > Len(votes) BY <2>3, <3>2
    <3>6. Cardinality(a) <= Cardinality(b) BY <2>1
    <3> HIDE DEF a, b
    <3>7. SUFFICES ASSUME m \notin a PROVE FALSE BY <3>2
    <3>8. /\ IsFiniteSet(b \cap a) /\ Cardinality(b \cap a) = 0
          /\ IsFiniteSet(b \cup a)
          /\ Cardinality(b \cup a) = Cardinality(b) + Cardinality(a) - Cardinality(b \cap a)
      BY <3>2, <3>3, <3>7, FS_Union, FS_EmptySet
    <3>9. Cardinality(b \cup a) <= Len(votes) BY <3>1, <3>2, <3>3, FS_Subset
    <3>10. QED BY <3>1, <3>4, <3>5, <3>6, <3>8, <3>9
  <2>4. result[1].answer # Ballot!NoAnswer BY <2>2 DEF VoteInv
  <2>5. QED BY <1>2, <2>2, <2>3, <2>4, SameCardinality DEF VoteInv, Ballot!MajorityIsHeard
<1>3. QED BY <1>1, <1>2

\* Every vote of the modal group read what is required, so most of it cites that, and
\* by assumption nothing else.
LEMMA EvidenceHolds == ASSUME Polled, VoteInv PROVE Ballot!EvidenceIsTheirs
<1> SUFFICES ASSUME Ballot!Voted PROVE Ballot!EvidenceIsTheirs
  BY DEF Ballot!EvidenceIsTheirs
<1>1. CASE votes = <<>>
  <2>1. result[1].cited = {} BY <1>1, NoVoteNoModal DEF VoteInv, Tallied, Ballot!MajorityEvidence
  <2>2. \A key : Ballot!Giving(key) = {} BY <1>1 DEF Ballot!Giving
  <2>3. QED BY <2>1, <2>2 DEF Ballot!EvidenceIsTheirs
<1>2. CASE votes # <<>>
  <2>1. PICK m \in DOMAIN votes :
            /\ Ballot!Modal = Ballot!Group(m) /\ Ballot!Min(Ballot!Modal) = m
            /\ \A k \in DOMAIN votes :
                  Cardinality(Ballot!Group(k)) <= Cardinality(Ballot!Group(m))
    BY <1>2, ModalIsAGroup
  <2> DEFINE M == Ballot!Group(m)
             most == {d \in Docs : 2 * Ballot!CitedBy(d, M) > Cardinality(M)}
             c == result[1].cited
  <2>2. /\ M \subseteq DOMAIN votes /\ m \in M /\ IsFiniteSet(M) /\ Cardinality(M) \in Nat
        /\ Cardinality(M) >= 1 /\ Ballot!Giving(votes[m].answer.key) = M
    BY GroupsPartition
  <2>3. /\ result[1].answer = votes[m].answer
        /\ c = IF most # {} THEN most ELSE votes[m].cited
    BY <2>1, <2>2, SameCardinality DEF VoteInv, Tallied, Ballot!MajorityEvidence
  <2>4. Ballot!Giving(result[1].answer.key) = M BY <2>2, <2>3
  <2>5. \A i \in M : votes[i] \in Vote BY <2>2 DEF VoteInv
  <2> HIDE DEF c
  <2>6. c \subseteq UNION {votes[i].cited : i \in M}
    <3>1. ASSUME NEW d \in most PROVE d \in UNION {votes[i].cited : i \in M}
      <4>1. {i \in M : d \in votes[i].cited} # {}
        <5>1. Ballot!CitedBy(d, M) # 0 BY <2>2
        <5>2. QED BY <5>1, FS_EmptySet, SameCardinality DEF Ballot!CitedBy
      <4>2. QED BY <4>1
    <3>2. votes[m].cited \subseteq UNION {votes[i].cited : i \in M} BY <2>2
    <3>3. QED BY <2>3, <3>1, <3>2
  <2>7. ASSUME \A i \in M : Ballot!Supported(votes[i]),
               \A d \in Docs \ Required : 2 * Ballot!CitedBy(d, M) <= Cardinality(M)
        PROVE  Ballot!Supported(result[1])
    <3>1. Ballot!Correct(result[1]) /\ \A i \in M : Required \subseteq votes[i].cited
      BY <2>2, <2>3, <2>7 DEF Ballot!Supported, Ballot!Correct
    <3>2. Required \subseteq Docs BY <2>2, <2>5, <3>1 DEF Vote
    <3>3. most = Required
      <4>1. ASSUME NEW d \in Required PROVE d \in most
        <5>1. {i \in M : d \in votes[i].cited} = M BY <3>1
        <5>2. Ballot!CitedBy(d, M) = Cardinality(M) BY <5>1, SameCardinality DEF Ballot!CitedBy
        <5>3. QED BY <2>2, <3>2, <5>2
      <4>2. ASSUME NEW d \in most PROVE d \in Required
        <5>1. Ballot!CitedBy(d, M) \in Nat
          <6>1. IsFiniteSet({i \in M : d \in votes[i].cited}) BY <2>2, FS_Subset
          <6>2. QED BY <6>1, FS_CardinalityType, SameCardinality DEF Ballot!CitedBy
        <5>2. QED BY <2>2, <2>7, <5>1
      <4>3. QED BY <4>1, <4>2
    <3>4. CASE Required = {}
      BY <2>2, <2>3, <2>7, <3>1, <3>3, <3>4 DEF Ballot!Supported, c
    <3>5. CASE Required # {}
      <4>1. c = Required BY <2>3, <3>3, <3>5
      <4>2. Cardinality(Required) \in Nat
        BY <3>2, FS_Subset, FS_CardinalityType DEF Polled
      <4>3. Required \cap c = c /\ 2 * Cardinality(Required) >= Cardinality(Required)
        BY <4>1, <4>2
      <4>4. QED BY <3>1, <4>1, <4>3, SameCardinality DEF Ballot!Supported, c
    <3>6. QED BY <3>4, <3>5
  <2>8. QED BY <2>4, <2>6, <2>7, SameCardinality DEF Ballot!EvidenceIsTheirs, c
<1>3. QED BY <1>1, <1>2

LEMMA EvidenceIsOfDocs ==
    ASSUME VoteInv PROVE Ballot!MajorityEvidence(Ballot!Modal) \subseteq Docs
<1>1. Ballot!Modal = {} \/ Ballot!Min(Ballot!Modal) \in DOMAIN votes
  BY NoVoteNoModal, ModalIsAGroup
<1>2. \A i \in DOMAIN votes : votes[i].cited \subseteq Docs
  <2>1. votes \in Seq(Vote) BY DEF VoteInv
  <2>2. \A i \in DOMAIN votes : votes[i] \in Vote BY <2>1
  <2>3. QED BY <2>2 DEF Vote
<1>3. QED BY <1>1, <1>2 DEF Ballot!MajorityEvidence

LEMMA VoteInit == ASSUME Polled, Ballot!Init PROVE VoteInv
<1>1. /\ solver \in {"direct", "retrieval", "vote"} /\ shown \subseteq Docs
      /\ calls = 0 /\ votes = <<>> /\ asked = "asking"
  BY DEF Ballot!Init, Ballot!kSubset
<1>2. Ballot!Calls \in Nat BY DEF Polled, Ballot!Calls
<1>3. <<>> \in Seq(Vote) /\ Len(<<>>) = 0 /\ DOMAIN <<>> = {} OBVIOUS
<1>4. Ballot!TypeOK BY <1>1, <1>2, <1>3 DEF Ballot!TypeOK
<1>5. ~Ballot!Voted BY <1>1 DEF Ballot!Voted
<1>6. QED BY <1>1, <1>3, <1>4, <1>5 DEF VoteInv, Tallied

\* The groups are those of the votes and of nothing else.
LEMMA ModalIsOfVotes == ASSUME votes' = votes PROVE Ballot!Modal' = Ballot!Modal
<1>1. \A i : Ballot!Group(i)' = Ballot!Group(i) BY DEF Ballot!Group, Ballot!Key
<1>2. QED BY <1>1, Zenon DEF Ballot!Modal

LEMMA VoteStep ==
    ASSUME Polled, VoteInv, Ballot!Next \/ UNCHANGED votesVars PROVE VoteInv'
<1>1. CASE UNCHANGED votesVars
  <2>1. UNCHANGED <<solver, shown, calls, votes, result, asked>> BY <1>1 DEF votesVars
  <2>2. Ballot!Modal' = Ballot!Modal BY <2>1, ModalIsOfVotes
  <2>3. Ballot!MajorityEvidence(Ballot!Modal)' = Ballot!MajorityEvidence(Ballot!Modal)
    BY <2>1, <2>2 DEF Ballot!MajorityEvidence, Ballot!CitedBy
  <2>4. Tallied' BY <2>1, <2>2, <2>3 DEF VoteInv, Tallied, Ballot!Voted
  <2>5. Ballot!TypeOK' BY <2>1 DEF VoteInv, Ballot!TypeOK, Ballot!Calls
  <2>6. QED BY <2>1, <2>4, <2>5 DEF VoteInv
<1>2. CASE Ballot!Ask
  <2>1. PICK reply \in Replies :
            votes' = IF Ballot!Parsed(reply).answer = Ballot!NoAnswer THEN votes
                     ELSE Append(votes, Ballot!Parsed(reply))
    BY <1>2 DEF Ballot!Ask
  <2>2. /\ solver = "vote" /\ calls < VoteSize /\ calls' = calls + 1
        /\ asked = "asking" /\ UNCHANGED <<solver, shown, result, asked>>
    BY <1>2 DEF Ballot!Ask
  <2>3. votes' = votes \/ /\ Ballot!Parsed(reply).answer # Ballot!NoAnswer
                          /\ votes' = Append(votes, Ballot!Parsed(reply))
    BY <2>1
  <2>4. Ballot!Parsed(reply).answer # Ballot!NoAnswer => Ballot!Parsed(reply) \in Vote
    BY DEF Ballot!Parsed, Vote, VoteInv, Ballot!TypeOK
  <2>5. /\ votes' \in Seq(Vote) /\ Len(votes') <= Len(votes) + 1
        /\ \A i \in DOMAIN votes' : votes'[i].answer # Ballot!NoAnswer
    BY <2>3, <2>4 DEF VoteInv
  <2>6. calls \in Nat /\ calls' \in 0..VoteSize /\ Len(votes') <= calls'
    BY <2>2, <2>5 DEF Polled, VoteInv, Ballot!TypeOK, Ballot!Calls
  <2>7. QED BY <2>2, <2>5, <2>6 DEF VoteInv, Tallied, Ballot!TypeOK, Ballot!Voted, Ballot!Calls
<1>3. CASE Ballot!Answer
  <2>1. /\ result' = <<Ballot!Result(IF Ballot!Modal = {} THEN Ballot!NoAnswer
                                    ELSE votes[Ballot!Min(Ballot!Modal)].answer,
                                    Ballot!MajorityEvidence(Ballot!Modal), calls)>>
        /\ asked' = "returned" /\ UNCHANGED <<solver, shown, calls, votes>>
    BY <1>3 DEF Ballot!Answer, Ballot!Return
  <2>2. /\ result'[1].answer = IF Ballot!Modal = {} THEN Ballot!NoAnswer
                               ELSE votes[Ballot!Min(Ballot!Modal)].answer
        /\ result'[1].cited = Ballot!MajorityEvidence(Ballot!Modal)
    BY <2>1 DEF Ballot!Result
  <2>3. Ballot!Modal' = Ballot!Modal BY <2>1, ModalIsOfVotes
  <2>4. Ballot!MajorityEvidence(Ballot!Modal)' = Ballot!MajorityEvidence(Ballot!Modal)
    BY <2>1, <2>3 DEF Ballot!MajorityEvidence, Ballot!CitedBy
  <2>5. Tallied' BY <2>1, <2>2, <2>3, <2>4 DEF Tallied
  <2>6. Ballot!TypeOK'
    BY <2>1, <2>2, EvidenceIsOfDocs DEF VoteInv, Ballot!TypeOK, Ballot!Calls
  <2>7. QED BY <2>1, <2>5, <2>6 DEF VoteInv
<1>4. CASE Ballot!Refuse \/ Ballot!AskOnce
  <2>1. /\ solver # "vote" /\ UNCHANGED <<solver, shown, votes>> /\ asked' = "returned"
        /\ calls' = calls \/ calls' = 1
    BY <1>4 DEF Ballot!Refuse, Ballot!AskOnce, Ballot!Return
  <2>2. result'[1].cited \subseteq Docs
    BY <1>4 DEF VoteInv, Ballot!TypeOK, Ballot!Refuse, Ballot!AskOnce, Ballot!Return,
       Ballot!Result, Ballot!Parsed
  <2>3. Ballot!Calls = 1 /\ Ballot!Calls' = 1 BY <2>1 DEF Ballot!Calls
  <2>4. calls' \in 0..1 /\ Len(votes) <= calls'
    BY <2>1, <2>3 DEF VoteInv, Ballot!TypeOK
  <2>5. QED BY <2>1, <2>2, <2>3, <2>4 DEF VoteInv, Tallied, Ballot!TypeOK, Ballot!Voted
<1>5. CASE Ballot!Raise
  BY <1>5 DEF Ballot!Raise, VoteInv, Tallied, Ballot!TypeOK, Ballot!Voted, Ballot!Calls
<1>6. QED BY <1>1, <1>2, <1>3, <1>4, <1>5 DEF Ballot!Next

\* The answer of a vote is the majority's where there is one, and its evidence that of
\* the votes that gave it, for any replies, documents and number of votes.
THEOREM VoteIsTheMajoritysHolds ==
    ASSUME Polled
    PROVE  MCSpec => []VoteIsTheMajoritys
<1>1. MCInit => VoteInv BY VoteInit DEF MCInit, EvaluationInit
<1>2. VoteInv /\ [MCNext]_mcVars => VoteInv' BY Steps, VoteStep
<1>3. VoteInv => VoteIsTheMajoritys
  BY MajorityHolds, EvidenceHolds DEF VoteIsTheMajoritys, Ballot!VoteIsTheMajoritys, VoteInv
<1>4. QED BY <1>1, <1>2, <1>3, PTL DEF MCSpec

-----------------------------------------------------------------------------
(* The report.                                                               *)

Price == Nat \cup {Tables!Unpriced}

SolveResult ==
    [sample : STRING, corpus : STRING, final : STRING, baseline : STRING,
     depths : Seq(Nat), subCalls : Nat, breaches : SUBSET Tables!Breaches,
     cost : Price, baselineCost : Price]

IsList(s) == s \in Seq({s[i] : i \in DOMAIN s})

\* A row has a score for each of its samples.
IsRow(r) ==
    /\ IsList(r.samples) /\ IsList(r.scores) /\ Len(r.scores) = Len(r.samples)
    /\ r.cost \in Price

\* Solvers return results, comparisons are lists of rows, and counts are numbers.
Submitted ==
    /\ Solved \subseteq SolveResult
    /\ \A rivals \in Rivals : IsList(rivals) /\ \A i \in DOMAIN rivals : IsRow(rivals[i])
    /\ Replicates \subseteq Seq(Nat)
    /\ ReplicatedSamples \in Nat /\ RecordBound \in Nat

\* A record is what was solved, under the contract, with its verdict.
LEMMA RecordIs ==
    ASSUME Submitted, NEW r \in Tables!Record
    PROVE  /\ r.sample \in STRING /\ r.corpus \in STRING /\ r.final \in STRING
           /\ r.baseline \in STRING /\ r.cost \in Price /\ r.baselineCost \in Price
           /\ r.verdict = Tables!Classify(r)
           /\ r.baseline # "none" <=> Tables!HasControl(r)
<1>1. PICK s \in Solved : Tables!Contract(s) /\ r = Tables!Recorded(s) BY DEF Tables!Record
<1>2. s \in SolveResult BY DEF Submitted
<1>3. /\ r.sample = s.sample /\ r.corpus = s.corpus /\ r.final = s.final
      /\ r.baseline = s.baseline /\ r.cost = s.cost /\ r.depths = s.depths
      /\ r.baselineCost \in {s.baselineCost, Tables!Unpriced}
      /\ r.verdict = Tables!Classify(s)
  BY <1>1 DEF Tables!Recorded
<1>4. Tables!HasControl(r) = Tables!HasControl(s) BY <1>3 DEF Tables!HasControl
<1>5. Tables!Classify(r) = Tables!Classify(s) BY <1>3, <1>4 DEF Tables!Classify
<1>6. r.baseline # "none" <=> Tables!HasControl(r) BY <1>1, <1>3, <1>4 DEF Tables!Contract
<1>7. QED BY <1>2, <1>3, <1>5, <1>6 DEF SolveResult, Price

TableInv ==
    /\ Tables!TypeOK
    /\ reported = "built" => \/ table = Tables!BuildReport
                             \/ \E rivals \in Rivals : table = Tables!BuildComparison(rivals)

LEMMA SameCount == \A S : Tables!Cardinality(S) = Cardinality(S)
BY DEF Tables!Cardinality, Cardinality

\* A column of the records.
LEMMA FieldIs ==
    ASSUME Submitted, TableInv, NEW f, NEW T,
           \A r \in Tables!Record : r[f] \in T
    PROVE  /\ Tables!Field(f) \in Seq(T) /\ Len(Tables!Field(f)) = Len(scored)
           /\ Len(scored) \in Nat /\ DOMAIN scored = 1..Len(scored)
           /\ \A i \in DOMAIN scored : /\ Tables!Field(f)[i] = scored[i][f]
                                       /\ scored[i] \in Tables!Record
<1>1. scored \in Seq(Tables!Record) BY DEF TableInv, Tables!TypeOK
<1>2. \A i \in DOMAIN scored : scored[i] \in Tables!Record BY <1>1
<1>3. Len(scored) \in Nat /\ DOMAIN scored = 1..Len(scored) BY <1>1
<1>4. Tables!Field(f) = [i \in 1..Len(scored) |-> scored[i][f]] BY <1>3 DEF Tables!Field
<1>5. \A i \in 1..Len(scored) : scored[i][f] \in T BY <1>2, <1>3
<1>6. Tables!Field(f) \in Seq(T) /\ Len(Tables!Field(f)) = Len(scored)
  <2> DEFINE g == Tables!Field(f)
             n == Len(scored)
  <2>1. g \in [1..n -> T] /\ n \in Nat BY <1>3, <1>4, <1>5
  <2> HIDE DEF g, n
  <2>2. g \in Seq(T) /\ Len(g) = n BY <2>1
  <2>3. QED BY <2>2 DEF g, n
<1>7. QED BY <1>2, <1>3, <1>4, <1>6

\* A sum is a price, and none where there is something unpriced.
LEMMA SumIsAPrice ==
    ASSUME NEW costs \in Seq(Price)
    PROVE  /\ Tables!SumCost(costs) \in Price
           /\ Tables!SumCost(costs) # Tables!Unpriced =>
                \A i \in DOMAIN costs : costs[i] # Tables!Unpriced
<1>1. (\E i \in DOMAIN costs : costs[i] = Tables!Unpriced)
        <=> Tables!Unpriced \in Tables!Range(costs)
  BY DEF Tables!Range
<1>2. CASE Tables!Unpriced \in Tables!Range(costs)
  BY <1>1, <1>2 DEF Tables!SumCost, Price
<1>3. CASE Tables!Unpriced \notin Tables!Range(costs)
  <2>1. \A i \in DOMAIN costs : costs[i] \in Nat BY <1>1, <1>3 DEF Price
  <2>2. IsFiniteSet(DOMAIN costs)
    <3>1. Len(costs) \in Nat /\ DOMAIN costs = 1..Len(costs) OBVIOUS
    <3>2. QED BY <3>1, FS_Interval
  <2>3. Total(costs, DOMAIN costs) \in Nat BY <2>1, <2>2, TotalType
  <2>4. Tables!SumOf(costs) = Total(costs, DOMAIN costs)
    BY DEF Tables!SumOf, Tables!FoldFunction, Tables!FoldFunctionOnSet,
       Tables!MapThenFoldSet, Total, MapThenSumSet, MapThenFoldSet
  <2>5. QED BY <1>1, <1>3, <2>3, <2>4 DEF Tables!SumCost, Price
<1>4. QED BY <1>2, <1>3

LEMMA ListOf == ASSUME NEW T, NEW s \in Seq(T) PROVE IsList(s)
<1>1. s \in [1..Len(s) -> {s[i] : i \in DOMAIN s}] /\ Len(s) \in Nat OBVIOUS
<1>2. QED BY <1>1 DEF IsList

\* A row made of the records is a row, and its samples are theirs.
LEMMA RowIs ==
    ASSUME Submitted, TableInv, NEW label, NEW zero,
           NEW score \in {"final", "baseline"}, NEW price \in {"cost", "baselineCost"}
    PROVE  /\ IsRow(Tables!Row(label, zero, score, price))
           /\ Tables!Row(label, zero, score, price).label = label
           /\ Tables!Row(label, zero, score, price).samples = Tables!Field("sample")
           /\ Tables!Row(label, zero, score, price).cost = Tables!SumCost(Tables!Field(price))
<1>1. \A r \in Tables!Record : /\ r["sample"] \in STRING /\ r[score] \in STRING
                               /\ r[price] \in Price
  BY RecordIs
<1>2. Tables!Field("sample") \in Seq(STRING) /\ Len(Tables!Field("sample")) = Len(scored)
  BY <1>1, FieldIs
<1>3. Tables!Field(score) \in Seq(STRING) /\ Len(Tables!Field(score)) = Len(scored)
  BY <1>1, FieldIs
<1>4. Tables!Field(price) \in Seq(Price) BY <1>1, FieldIs
<1>5. Tables!SumCost(Tables!Field(price)) \in Price BY <1>4, SumIsAPrice
<1>6. IsList(Tables!Field("sample")) /\ IsList(Tables!Field(score))
  BY <1>2, <1>3, ListOf
<1> DEFINE r == Tables!Row(label, zero, score, price)
<1>7. /\ r.label = label /\ r.samples = Tables!Field("sample")
      /\ r.scores = Tables!Field(score) /\ r.cost = Tables!SumCost(Tables!Field(price))
  BY DEF Tables!Row
<1> HIDE DEF r
<1>8. IsRow(r) BY <1>2, <1>3, <1>5, <1>6, <1>7 DEF IsRow
<1>9. QED BY <1>7, <1>8 DEF r

\* A table that prints is made of rows, one of which is the system's.
LEMMA TableIs ==
    ASSUME Submitted, TableInv, reported = "built"
    PROVE  /\ Tables!Poolable /\ Tables!Check(table) /\ 1 \in DOMAIN table
           /\ \A i \in DOMAIN table : IsRow(table[i])
           /\ \E k \in DOMAIN table :
                /\ table[k].label = "system" /\ table[k].samples = Tables!Field("sample")
                /\ table[k].cost = Tables!SumCost(Tables!Field("cost"))
<1>1. Tables!Check(table) BY DEF TableInv, Tables!TypeOK
<1>2. table # <<>> BY <1>1 DEF Tables!Check
<1>3. Tables!Poolable BY <1>2 DEF TableInv, Tables!BuildReport, Tables!BuildComparison
<1> DEFINE IsSystem(r) == /\ IsRow(r) /\ r.label = "system"
                          /\ r.samples = Tables!Field("sample")
                          /\ r.cost = Tables!SumCost(Tables!Field("cost"))
<1>4. \A z : IsSystem(Tables!Row("system", z, "final", "cost")) BY RowIs
<1>5. IsSystem(Tables!SystemRow) BY <1>4 DEF Tables!SystemRow
<1>6. IsRow(Tables!ControlRow) BY RowIs DEF Tables!ControlRow
<1>7. CASE table = Tables!BuildReport
  <2>1. \/ table = <<Tables!ControlRow, Tables!SystemRow>>
        \/ table = <<Tables!SystemRow>>
    BY <1>3, <1>7 DEF Tables!BuildReport
  <2>2. CASE table = <<Tables!ControlRow, Tables!SystemRow>>
    <3>1. DOMAIN table = 1..2 /\ table[1] = Tables!ControlRow /\ table[2] = Tables!SystemRow
      BY <2>2
    <3> HIDE DEF IsSystem
    <3>2. 1 \in DOMAIN table /\ \E k \in DOMAIN table : IsSystem(table[k]) BY <1>5, <3>1
    <3>3. \A i \in DOMAIN table : IsRow(table[i]) BY <1>5, <1>6, <3>1 DEF IsSystem
    <3>4. QED BY <1>1, <1>3, <3>2, <3>3 DEF IsSystem
  <2>3. CASE table = <<Tables!SystemRow>>
    <3>1. DOMAIN table = 1..1 /\ table[1] = Tables!SystemRow BY <2>3
    <3> HIDE DEF IsSystem
    <3>2. 1 \in DOMAIN table /\ \E k \in DOMAIN table : IsSystem(table[k]) BY <1>5, <3>1
    <3>3. \A i \in DOMAIN table : IsRow(table[i]) BY <1>5, <3>1 DEF IsSystem
    <3>4. QED BY <1>1, <1>3, <3>2, <3>3 DEF IsSystem
  <2>4. QED BY <2>1, <2>2, <2>3
<1>8. CASE \E rivals \in Rivals : table = Tables!BuildComparison(rivals)
  <2>1. PICK rivals \in Rivals : table = Tables!BuildComparison(rivals) BY <1>8
  <2> DEFINE s == Tables!Row("system", Tables!DepthZero, "final", "cost")
             T == {rivals[i] : i \in DOMAIN rivals} \cup {s}
  <2>2. IsSystem(s) /\ table = <<s>> \o rivals
    BY <1>3, <1>4, <2>1 DEF Tables!BuildComparison
  <2>3. rivals \in Seq(T) /\ \A i \in DOMAIN rivals : IsRow(rivals[i])
    <3>1. rivals \in Seq({rivals[i] : i \in DOMAIN rivals}) BY DEF Submitted, IsList
    <3>2. QED BY <3>1, SeqMonotonic DEF Submitted
  <2> HIDE DEF IsSystem, s
  <2>4. <<s>> \in Seq(T) /\ Len(<<s>>) = 1 /\ <<s>>[1] = s OBVIOUS
  <2>5. /\ table \in Seq(T) /\ Len(table) = 1 + Len(rivals) /\ table[1] = s
    BY <2>2, <2>3, <2>4, ConcatProperties
  <2>6. \A r \in T : IsRow(r) BY <2>2, <2>3 DEF IsSystem
  <2> HIDE DEF T
  <2>7. \A i \in DOMAIN table : IsRow(table[i]) BY <2>5, <2>6
  <2>8. 1 \in DOMAIN table /\ IsSystem(table[1]) BY <2>2, <2>3, <2>5
  <2>9. QED BY <1>1, <1>3, <2>7, <2>8 DEF IsSystem
<1>9. QED BY <1>7, <1>8 DEF TableInv

\* What prints is paired.
LEMMA PublishedHolds ==
    ASSUME Submitted, TableInv PROVE Tables!PublishedIsPaired
<1> SUFFICES ASSUME reported = "built" PROVE Tables!PublishedIsPaired
  BY DEF Tables!PublishedIsPaired
<1>1. PICK k \in DOMAIN table : table[k].samples = Tables!Field("sample") BY TableIs
<1>2. Tables!Check(table) /\ Tables!Poolable BY TableIs
<1>3. \A i, j \in DOMAIN Tables!Field("sample") :
         Tables!Field("sample")[i] = Tables!Field("sample")[j] => i = j
  BY <1>1, <1>2 DEF Tables!Check, Tables!IsInjective
<1>4. /\ DOMAIN Tables!Field("sample") = DOMAIN scored
      /\ \A i \in DOMAIN scored : Tables!Field("sample")[i] = scored[i].sample
  BY DEF Tables!Field
<1>5. \A i, j \in DOMAIN scored : scored[i].corpus = scored[j].corpus
  <2> DEFINE c == Tables!Range(Tables!Field("corpus"))
  <2>1. \A i \in DOMAIN scored : scored[i].corpus \in c
    BY DEF Tables!Field, Tables!Range
  <2>2. Cardinality(c) = 1 BY <1>2, SameCount DEF Tables!Poolable
  <2>3. IsFiniteSet(c)
    <3>1. scored \in Seq(Tables!Record) BY DEF TableInv, Tables!TypeOK
    <3>2. IsFiniteSet(DOMAIN scored)
      <4>1. Len(scored) \in Nat /\ DOMAIN scored = 1..Len(scored) BY <3>1
      <4>2. QED BY <4>1, FS_Interval
    <3>3. Tables!Field("corpus") \in Surjection(DOMAIN scored, c)
      BY DEF Surjection, Tables!Field, Tables!Range
    <3>4. QED BY <3>2, <3>3, FS_Surjection
  <2> HIDE DEF c
  <2>4. PICK x : c = {x} BY <2>2, <2>3, FS_Singleton
  <2>5. QED BY <2>1, <2>4
<1>6. \E r \in Tables!Range(table) : r.zero BY <1>2 DEF Tables!Check, Tables!Range
<1>7. QED BY <1>3, <1>4, <1>5, <1>6 DEF Tables!PublishedIsPaired

\* What escalation helped is what only the system solved, and what it harmed is what
\* only the control solved.
LEMMA VerdictsHold ==
    ASSUME Submitted, TableInv PROVE Tables!VerdictsExplainTheRows
<1> SUFFICES ASSUME Tables!EveryControl,
                    \A i \in DOMAIN scored : Len(scored[i].depths) = 1 =>
                        scored[i].final = scored[i].baseline
             PROVE  Tables!Count("helped") - Tables!Count("harmed")
                      = Tables!Supported(Tables!SystemRow) - Tables!Supported(Tables!ControlRow)
  BY DEF Tables!VerdictsExplainTheRows
<1> DEFINE A == {i \in DOMAIN scored : scored[i].final = "supported"}
           B == {i \in DOMAIN scored : scored[i].baseline = "supported"}
<1>1. scored \in Seq(Tables!Record) BY DEF TableInv, Tables!TypeOK
<1>2. \A i \in DOMAIN scored :
         /\ scored[i].verdict = Tables!Classify(scored[i])
         /\ scored[i].baseline # "none" <=> Tables!HasControl(scored[i])
  <2>1. \A i \in DOMAIN scored : scored[i] \in Tables!Record BY <1>1
  <2>2. QED BY <2>1, RecordIs
<1>3. \A i \in DOMAIN scored : scored[i].baseline # "none"
  BY DEF Tables!EveryControl, Tables!Field, Tables!Range
<1>4. {i \in DOMAIN scored : scored[i].verdict = "helped"} = A \ B
  BY <1>2, <1>3 DEF Tables!Classify
<1>5. {i \in DOMAIN scored : scored[i].verdict = "harmed"} = B \ A
  BY <1>2, <1>3 DEF Tables!Classify
<1>6. Tables!Count("helped") = Cardinality(A \ B) /\ Tables!Count("harmed") = Cardinality(B \ A)
  BY <1>4, <1>5, SameCount DEF Tables!Count
<1>7. /\ Tables!Supported(Tables!SystemRow) = Cardinality(A)
      /\ Tables!Supported(Tables!ControlRow) = Cardinality(B)
  BY SameCount DEF Tables!Supported, Tables!SystemRow, Tables!ControlRow, Tables!Row,
     Tables!Field
<1>8. IsFiniteSet(A) /\ IsFiniteSet(B)
  <2>1. Len(scored) \in Nat /\ DOMAIN scored = 1..Len(scored) BY <1>1
  <2>2. IsFiniteSet(DOMAIN scored) BY <2>1, FS_Interval
  <2>3. A \subseteq DOMAIN scored /\ B \subseteq DOMAIN scored OBVIOUS
  <2>4. QED BY <2>2, <2>3, FS_Subset
<1> HIDE DEF A, B
<1> DEFINE a == Cardinality(A)
           b == Cardinality(B)
           both == Cardinality(A \cap B)
<1>9. a \in Nat /\ b \in Nat /\ both \in Nat
  <2>1. IsFiniteSet(A \cap B) BY <1>8, FS_Subset
  <2>2. QED BY <1>8, <2>1, FS_CardinalityType
<1>10. Cardinality(A \ B) = a - both BY <1>8, FS_Difference
<1>11. Cardinality(B \ A) = b - both
  <2>1. Cardinality(B \ A) = b - Cardinality(B \cap A) BY <1>8, FS_Difference
  <2>2. B \cap A = A \cap B OBVIOUS
  <2>3. QED BY <2>1, <2>2
<1>12. /\ Tables!Count("helped") = a - both /\ Tables!Count("harmed") = b - both
       /\ Tables!Supported(Tables!SystemRow) = a /\ Tables!Supported(Tables!ControlRow) = b
  BY <1>6, <1>7, <1>10, <1>11
<1> HIDE DEF a, b, both
<1>13. (a - both) - (b - both) = a - b BY <1>9
<1>14. QED BY <1>12, <1>13

LEMMA TableInit == ASSUME Submitted, Tables!Init PROVE TableInv
<1>1. <<>> \in Seq(Tables!Record) /\ Len(<<>>) = 0 OBVIOUS
<1>2. QED BY <1>1 DEF Submitted, Tables!Init, TableInv, Tables!TypeOK

LEMMA TableStep ==
    ASSUME Submitted, TableInv, Tables!Next \/ UNCHANGED reportVars PROVE TableInv'
<1> USE DEF TableInv, Tables!TypeOK
<1>1. CASE UNCHANGED reportVars
  <2>1. UNCHANGED <<scored, noise, table, reported>> BY <1>1 DEF reportVars
  <2>2. /\ Tables!BuildReport' = Tables!BuildReport
        /\ \A r : Tables!BuildComparison(r)' = Tables!BuildComparison(r)
        /\ \A t : Tables!Check(t)' = Tables!Check(t)
    BY <2>1 DEF Tables!BuildReport, Tables!BuildComparison, Tables!Poolable, Tables!EveryControl,
       Tables!ControlRow, Tables!SystemRow, Tables!Row, Tables!Field, Tables!DepthZero,
       Tables!Check
  <2>3. QED BY <2>1, <2>2
<1>2. CASE Tables!Measure
  <2>1. PICK s \in Solved : Tables!Contract(s) /\ scored' = Append(scored, Tables!Recorded(s))
    BY <1>2 DEF Tables!Measure
  <2>2. Tables!Recorded(s) \in Tables!Record BY <2>1 DEF Tables!Record
  <2>3. scored' \in Seq(Tables!Record) /\ Len(scored') = Len(scored) + 1 /\ Len(scored) \in Nat
    BY <2>1, <2>2
  <2>4. QED BY <1>2, <2>3 DEF Tables!Measure, Submitted
<1>3. ASSUME NEW printed, Tables!Render(printed),
             \/ printed = Tables!BuildReport
             \/ \E rivals \in Rivals : printed = Tables!BuildComparison(rivals)
      PROVE  TableInv'
  <2>1. /\ UNCHANGED <<scored, noise>> /\ table' = printed
        /\ reported' = IF Tables!Check(printed) THEN "built" ELSE "refused"
    BY <1>3 DEF Tables!Render
  <2>2. /\ Tables!BuildReport' = Tables!BuildReport
        /\ \A r : Tables!BuildComparison(r)' = Tables!BuildComparison(r)
    BY <2>1 DEF Tables!BuildReport, Tables!BuildComparison, Tables!Poolable, Tables!EveryControl,
       Tables!ControlRow, Tables!SystemRow, Tables!Row, Tables!Field, Tables!DepthZero
  <2>3. Tables!Check(table)' = Tables!Check(printed) BY <2>1 DEF Tables!Check
  <2>4. QED BY <1>3, <2>1, <2>2, <2>3
<1>4. QED BY <1>1, <1>2, <1>3 DEF Tables!Next, Tables!Report, Tables!Compare

-----------------------------------------------------------------------------
(* What a claim rests on.                                                    *)

LEMMA Products ==
    ASSUME NEW p \in Int, NEW q \in Int, NEW n \in Nat
    PROVE  /\ p * n \in Int
           /\ p <= q => p * n <= q * n
           /\ n # 0 /\ p * n < q * n => p < q
<1>1. p * n \in Int OBVIOUS
<1>2. p <= q => (q - p) * n >= 0 OBVIOUS
<1>3. (q - p) * n = q * n - p * n OBVIOUS
<1>4. p <= q => p * n <= q * n BY <1>2, <1>3
<1>5. n # 0 /\ p >= q => (p - q) * n >= 0 OBVIOUS
<1>6. (p - q) * n = p * n - q * n OBVIOUS
<1>7. n # 0 /\ p * n < q * n => p < q BY <1>5, <1>6
<1>8. QED BY <1>1, <1>4, <1>7

\* Lists without repetition of the same things are as long as one another.
LEMMA SameLength ==
    ASSUME NEW s, NEW t, IsList(s), IsList(t), Tables!IsInjective(s), Tables!IsInjective(t),
           Tables!Range(s) = Tables!Range(t)
    PROVE  Len(s) = Len(t) /\ Len(s) \in Nat
<1>1. ASSUME NEW u, IsList(u), Tables!IsInjective(u)
      PROVE  Cardinality(Tables!Range(u)) = Len(u) /\ Len(u) \in Nat
  <2> DEFINE R == Tables!Range(u)
             n == Len(u)
  <2>1. n \in Nat /\ DOMAIN u = 1..n /\ u = [i \in 1..n |-> u[i]] BY <1>1 DEF IsList
  <2>2. R = {u[i] : i \in 1..n} BY <2>1 DEF Tables!Range
  <2>3. \A i, k \in 1..n : u[i] = u[k] => i = k BY <1>1, <2>1 DEF Tables!IsInjective
  <2> HIDE DEF n
  <2>4. u \in [1..n -> R] BY <2>1, <2>2
  <2> HIDE DEF R
  <2>5. u \in Injection(1..n, R) BY <2>3, <2>4 DEF Injection, IsInjective
  <2>6. u \in Surjection(1..n, R) BY <2>2, <2>4 DEF Surjection
  <2>8. IsFiniteSet(1..n) /\ Cardinality(1..n) = n BY <2>1, FS_Interval
  <2>9. Cardinality(R) = n BY <2>5, <2>6, <2>8, FS_Surjection
  <2>10. QED BY <2>1, <2>9 DEF R, n
<1>2. QED BY <1>1

\* A list of numbers has a largest and a smallest.
LEMMA Extremes ==
    ASSUME NEW s \in Seq(Nat), s # <<>>
    PROVE  LET R == Tables!Range(s) IN
           /\ Tables!Max(R) \in Nat /\ Tables!Min(R) \in Nat
           /\ \A x \in R : x \in Nat /\ x <= Tables!Max(R) /\ Tables!Min(R) <= x
<1> DEFINE R == Tables!Range(s)
           Above == {m \in Nat : \A x \in R : x <= m}
<1>1. R \subseteq Nat /\ R # {} /\ IsFiniteSet(R)
  <2>1. Len(s) \in Nat /\ Len(s) # 0 /\ DOMAIN s = 1..Len(s) OBVIOUS
  <2>2. s[1] \in R BY <2>1 DEF Tables!Range
  <2>3. IsFiniteSet(DOMAIN s) BY <2>1, FS_Interval
  <2>4. s \in Surjection(DOMAIN s, R) BY DEF Surjection, Tables!Range
  <2>5. IsFiniteSet(R) BY <2>3, <2>4, FS_Surjection
  <2>6. R \subseteq Nat BY DEF Tables!Range
  <2>7. QED BY <2>2, <2>5, <2>6
<1> HIDE DEF R
<1>2. PICK m \in Nat : \A x \in R : x <= m
  <2> DEFINE Bounded(k) == \E m \in Nat : \A i \in 1..k : s[i] <= m
             n == Len(s)
             Bad == {k \in 0..n : ~Bounded(k)}
  <2>1. n \in Nat /\ DOMAIN s = 1..n /\ \A i \in 1..n : s[i] \in Nat OBVIOUS
  <2> HIDE DEF n
  <2>2. Bad = {}
    <3> SUFFICES ASSUME Bad # {} PROVE FALSE OBVIOUS
    <3>1. Bad \in SUBSET Nat BY <2>1
    <3>2. PICK k \in Bad : \A l \in Bad : k <= l BY <3>1, LeastNat
    <3>3. k \in 0..n /\ ~Bounded(k) /\ \A l \in 0..n : ~Bounded(l) => k <= l BY <3>2
    <3>4. k # 0
      <4>1. \A i \in 1..0 : FALSE OBVIOUS
      <4>2. Bounded(0) BY <4>1
      <4>3. QED BY <3>3, <4>2
    <3>5. k \in Nat /\ k - 1 \in 0..n /\ k \in 1..n /\ ~(k <= k - 1) BY <2>1, <3>3, <3>4
    <3> HIDE DEF Bounded, Bad
    <3>6. Bounded(k - 1) BY <3>3, <3>5
    <3>7. PICK m \in Nat : \A i \in 1..(k - 1) : s[i] <= m BY <3>6 DEF Bounded
    <3>8. s[k] \in Nat BY <2>1, <3>5
    <3> DEFINE above == m + s[k]
    <3>9. above \in Nat /\ m <= above /\ s[k] <= above BY <3>8
    <3> HIDE DEF above
    <3>10. \A i \in 1..k : s[i] <= above
      <4> TAKE i \in 1..k
      <4>1. i = k \/ i \in 1..(k - 1) BY <3>5
      <4>2. i \in 1..n BY <2>1, <3>5
      <4>3. s[i] \in Nat BY <2>1, <4>2
      <4>4. i = k \/ s[i] <= m BY <3>7, <4>1
      <4>5. QED BY <3>9, <4>3, <4>4
    <3>11. Bounded(k) BY <3>9, <3>10 DEF Bounded
    <3>12. QED BY <3>3, <3>11
  <2>3. Bounded(n)
    <3>1. n \in 0..n BY <2>1
    <3> HIDE DEF Bounded
    <3>2. QED BY <2>2, <3>1
  <2>4. QED BY <2>1, <2>3 DEF R, Tables!Range
<1>3. PICK top \in Above : \A k \in Above : top <= k
  <2>1. Above # {} BY <1>2
  <2>2. QED BY <2>1, LeastNat
<1>4. top \in R
  <2> SUFFICES ASSUME top \notin R PROVE FALSE OBVIOUS
  <2>1. PICK x \in R : TRUE BY <1>1
  <2>2. x \in Nat /\ x < top BY <1>1, <1>3, <2>1
  <2>3. top - 1 \in Above BY <1>1, <1>3, <2>2
  <2>4. QED BY <1>3, <2>3
<1>5. Tables!Max(R) \in R /\ \A x \in R : x <= Tables!Max(R)
  <2>1. \E x \in R : \A y \in R : x >= y BY <1>1, <1>3, <1>4
  <2>2. Tables!Max(R) \in R /\ \A y \in R : Tables!Max(R) >= y BY <2>1 DEF Tables!Max
  <2>3. QED BY <1>1, <2>2
<1>6. Tables!Min(R) \in R /\ \A x \in R : Tables!Min(R) <= x
  <2>1. \E x \in R : \A y \in R : x <= y BY <1>1, LeastNat
  <2>2. QED BY <2>1 DEF Tables!Min
<1>7. QED BY <1>1, <1>5, <1>6 DEF R

\* The rows of a table that prints are as long as one another, and told apart by label.
LEMMA RowsAre ==
    ASSUME Submitted, TableInv, reported = "built"
    PROVE  /\ \A i, k \in DOMAIN table : table[i].label = table[k].label => i = k
           /\ \E n \in Nat \ {0} : \A i \in DOMAIN table :
                /\ Tables!N(table[i]) = n /\ Tables!Supported(table[i]) \in Nat
                /\ table[i].cost \in Price
<1>1. /\ Tables!Check(table) /\ 1 \in DOMAIN table
      /\ \A i \in DOMAIN table : IsRow(table[i])
  BY TableIs
<1>2. \A i, k \in DOMAIN table : table[i].label = table[k].label => i = k
  BY <1>1 DEF Tables!Check, Tables!IsInjective
<1> DEFINE n == Len(table[1].samples)
<1>3. n \in Nat \ {0}
  <2>1. table[1].samples # <<>> /\ IsList(table[1].samples)
    BY <1>1 DEF Tables!Check, IsRow
  <2>2. QED BY <2>1 DEF IsList
<1>4. ASSUME NEW i \in DOMAIN table
      PROVE  /\ Tables!N(table[i]) = n /\ Tables!Supported(table[i]) \in Nat
             /\ table[i].cost \in Price
  <2>1. IsRow(table[i]) /\ IsRow(table[1]) BY <1>1
  <2>2. Len(table[i].samples) = n
    <3>1. /\ Tables!IsInjective(table[i].samples) /\ Tables!IsInjective(table[1].samples)
          /\ Tables!Range(table[i].samples) = Tables!Range(table[1].samples)
      BY <1>1 DEF Tables!Check
    <3>2. QED BY <2>1, <3>1, SameLength DEF IsRow
  <2>3. Tables!N(table[i]) = n BY <2>1, <2>2 DEF Tables!N, IsRow
  <2>4. Tables!Supported(table[i]) \in Nat
    <3> DEFINE u == table[i].scores
               S == {k \in DOMAIN u : u[k] = "supported"}
    <3>1. Len(u) \in Nat /\ DOMAIN u = 1..Len(u) BY <2>1 DEF IsRow, IsList
    <3>2. IsFiniteSet(DOMAIN u) BY <3>1, FS_Interval
    <3>3. Cardinality(S) \in Nat
      <4>1. IsFiniteSet(S) BY <3>2, FS_Subset
      <4>2. QED BY <4>1, FS_CardinalityType
    <3>4. QED BY <3>3, SameCount DEF Tables!Supported
  <2>5. QED BY <2>1, <2>3, <2>4 DEF IsRow
<1>5. QED BY <1>2, <1>3, <1>4

\* A claim's lead is past every difference of two replicates, its prices are known and
\* close, and a cheaper row as accurate would have dominated its winner.
LEMMA ClaimHolds ==
    ASSUME Submitted, TableInv PROVE Tables!ClaimIsEarned
<1> SUFFICES ASSUME reported = "built", NEW a \in Tables!Range(table),
                    NEW b \in Tables!Range(table), Tables!Claims(a, b)
             PROVE  /\ noise # <<>>
                    /\ \A x, y \in Tables!Range(noise) :
                         (x - y) * Tables!N(a)
                           < (Tables!Supported(a) - Tables!Supported(b)) * ReplicatedSamples
                    /\ "system" \in {a.label, b.label} =>
                         \A i \in DOMAIN scored : scored[i].cost # Tables!Unpriced
                    /\ 4 * a.cost <= 5 * b.cost /\ 4 * a.cost >= 3 * b.cost
                    /\ ~\E o \in Tables!Range(table) :
                         /\ Tables!Supported(o) >= Tables!Supported(a)
                         /\ o.cost # Tables!Unpriced /\ o.cost < a.cost
  BY DEF Tables!ClaimIsEarned
<1>1. PICK i \in DOMAIN table, j \in DOMAIN table : a = table[i] /\ b = table[j]
  BY DEF Tables!Range
<1>2. PICK n \in Nat \ {0} : \A k \in DOMAIN table :
         /\ Tables!N(table[k]) = n /\ Tables!Supported(table[k]) \in Nat
         /\ table[k].cost \in Price
  BY RowsAre
<1> DEFINE sa == Tables!Supported(a)
           sb == Tables!Supported(b)
           low == Tables!Min(Tables!Range(noise))
           high == Tables!Max(Tables!Range(noise))
<1>3. /\ Tables!N(a) = n /\ Tables!N(b) = n /\ sa \in Nat /\ sb \in Nat
      /\ a.cost \in Price /\ b.cost \in Price
  BY <1>1, <1>2
<1>4. noise # <<>> /\ noise \in Seq(Nat) /\ ReplicatedSamples \in Nat
  BY DEF Tables!Claims, Tables!InsideNoise, TableInv, Tables!TypeOK, Submitted
<1>5. /\ low \in Nat /\ high \in Nat
      /\ \A x \in Tables!Range(noise) : x \in Nat /\ x <= high /\ low <= x
  BY <1>4, Extremes
<1>6. /\ sa * n - sb * n > 0
      /\ ~(Tables!AbsOf(sa * n - sb * n) * ReplicatedSamples <= (high - low) * n * n)
  BY <1>3, <1>4 DEF Tables!Claims, Tables!InsideNoise, Tables!Lead, Tables!Floor
<1> HIDE DEF sa, sb, low, high
<1>7. ASSUME NEW x \in Tables!Range(noise), NEW y \in Tables!Range(noise)
      PROVE  (x - y) * n < (sa - sb) * ReplicatedSamples
  <2> DEFINE lead == (sa - sb) * ReplicatedSamples
             wide == (high - low) * n
  <2>1. sa * n - sb * n = (sa - sb) * n BY <1>3
  <2>2. Tables!AbsOf(sa * n - sb * n) = (sa - sb) * n BY <1>3, <1>6, <2>1 DEF Tables!AbsOf
  <2>3. ~((sa - sb) * n * ReplicatedSamples <= wide * n) BY <1>6, <2>2
  <2>4. (sa - sb) * n * ReplicatedSamples = lead * n BY <1>3, <1>4
  <2>5. lead \in Int /\ wide \in Int BY <1>3, <1>4, <1>5
  <2>6. ~(lead * n <= wide * n) BY <2>3, <2>4
  <2>7. x - y \in Int /\ high - low \in Int /\ x - y <= high - low BY <1>5
  <2>8. (x - y) * n <= wide /\ (x - y) * n \in Int BY <2>7, Products
  <2> HIDE DEF lead, wide
  <2>9. wide * n < lead * n BY <2>5, <2>6, Products
  <2>10. wide < lead BY <2>5, <2>9, Products
  <2>11. QED BY <2>5, <2>8, <2>10 DEF lead
<1>8. /\ a.cost \in Nat /\ b.cost \in Nat
      /\ IF b.cost = 0 THEN a.cost = 0 ELSE 4 * Tables!AbsOf(a.cost - b.cost) <= b.cost
  BY <1>3 DEF Tables!Claims, Tables!Matched, Price
<1>9. ASSUME "system" \in {a.label, b.label}
      PROVE  \A k \in DOMAIN scored : scored[k].cost # Tables!Unpriced
  <2>1. PICK k \in DOMAIN table :
           /\ table[k].label = "system"
           /\ table[k].cost = Tables!SumCost(Tables!Field("cost"))
    BY TableIs
  <2>2. i = k \/ j = k BY <1>1, <1>9, <2>1, RowsAre
  <2>3. table[k].cost # Tables!Unpriced
    BY <1>1, <2>2 DEF Tables!Claims, Tables!Matched
  <2>4. \A r \in Tables!Record : r["cost"] \in Price BY RecordIs
  <2>5. /\ Tables!Field("cost") \in Seq(Price)
        /\ DOMAIN Tables!Field("cost") = DOMAIN scored
    <3>1. Tables!Field("cost") \in Seq(Price) BY <2>4, FieldIs
    <3>2. QED BY <3>1 DEF Tables!Field
  <2>6. \A m \in DOMAIN scored : Tables!Field("cost")[m] # Tables!Unpriced
    BY <2>1, <2>3, <2>5, SumIsAPrice
  <2>7. QED BY <2>6 DEF Tables!Field
<1>10. 4 * a.cost <= 5 * b.cost /\ 4 * a.cost >= 3 * b.cost BY <1>8 DEF Tables!AbsOf
<1>11. ASSUME NEW o \in Tables!Range(table), Tables!Supported(o) >= sa,
              o.cost # Tables!Unpriced, o.cost < a.cost
       PROVE  FALSE
  <2>1. PICK k \in DOMAIN table : o = table[k] BY DEF Tables!Range
  <2>2. /\ Tables!N(o) = n /\ Tables!Supported(o) \in Nat /\ o.cost \in Price
    BY <1>2, <2>1
  <2>3. o.cost \in Nat BY <1>11, <2>2 DEF Price
  <2>4. o.label # a.label
    <3>1. k # i BY <1>1, <1>8, <1>11, <2>1, <2>3
    <3>2. QED BY <1>1, <2>1, <3>1, RowsAre
  <2>5. Tables!Lead(o, a) >= 0
    <3> DEFINE so == Tables!Supported(o)
    <3>1. sa * n <= so * n /\ sa * n \in Int /\ so * n \in Int
      BY <1>3, <1>11, <2>2, Products
    <3>2. so * n - sa * n >= 0 BY <3>1
    <3>3. QED BY <1>3, <2>2, <3>2 DEF Tables!Lead, sa
  <2>6. Tables!Dominates(o, a)
    BY <1>8, <1>11, <2>3, <2>4, <2>5 DEF Tables!Dominates, Tables!Claims, Tables!Matched
  <2>7. k \in Tables!DominatedBy(a) BY <2>1, <2>6 DEF Tables!DominatedBy
  <2>8. QED BY <2>7 DEF Tables!Claims
<1>12. QED BY <1>3, <1>4, <1>7, <1>9, <1>10, <1>11 DEF sa, sb

\* A comparison claims, explains and pairs only what was measured, for any results,
\* rivals and replicates.
THEOREM TableIsEarnedHolds ==
    ASSUME Submitted PROVE MCSpec => []TableIsEarned
<1>1. MCInit => TableInv BY TableInit DEF MCInit, EvaluationInit
<1>2. TableInv /\ [MCNext]_mcVars => TableInv' BY Steps, TableStep
<1>3. TableInv => TableIsEarned
  BY PublishedHolds, VerdictsHold, ClaimHolds
  DEF TableIsEarned, Tables!TableIsEarned, TableInv
<1>4. QED BY <1>1, <1>2, <1>3, PTL DEF MCSpec

-----------------------------------------------------------------------------
(* The pools of the harness.                                                 *)

\* What the types of a node and of the limits are.
Planned ==
    /\ Root \in DOMAIN Children /\ Children \in [DOMAIN Children -> Seq(DOMAIN Children)]
    /\ IsFiniteSet(DOMAIN Children)
    /\ MaxDepth \in Nat /\ MaxConcurrency \in Nat

Sent(s) == [i \in DOMAIN s |-> Children[s[i]]]

LEMMA SentIs ==
    ASSUME Planned, NEW s \in Seq(DOMAIN Children)
    PROVE  Sent(s) \in Seq(Seq(DOMAIN Children)) /\ DOMAIN Sent(s) = DOMAIN s
<1> DEFINE N == DOMAIN Children
<1>1. Len(s) \in Nat /\ DOMAIN s = 1..Len(s) /\ \A i \in 1..Len(s) : s[i] \in N OBVIOUS
<1>2. \A i \in 1..Len(s) : Children[s[i]] \in Seq(N) BY <1>1 DEF Planned
<1>3. Sent(s) \in [1..Len(s) -> Seq(N)] BY <1>1, <1>2 DEF Sent
<1> DEFINE t == Sent(s)
           n == Len(s)
           M == Seq(N)
<1>4. n \in Nat /\ t \in [1..n -> M] BY <1>1, <1>3
<1> HIDE DEF t, n, M
<1>5. t \in Seq(M) BY <1>4
<1>6. QED BY <1>5 DEF t, M, Sent

LEMMA LevelsAre ==
    ASSUME Planned
    PROVE  /\ Harness!Levels[0] = <<Root>>
           /\ \A d \in Nat : /\ Harness!Levels[d] \in Seq(DOMAIN Children)
                             /\ Harness!Levels[d + 1] = Joined(Sent(Harness!Levels[d]))
<1> DEFINE N == DOMAIN Children
           f == [s \in Seq(N) |-> Joined(Sent(s))]
           Further(g) == [d \in Nat |-> IF d = 0 THEN <<Root>> ELSE Joined(Sent(g[d - 1]))]
<1>1. \A s \in Seq(N) : Sent(s) \in Seq(Seq(N)) BY SentIs
<1>2. \A s \in Seq(N) : Joined(Sent(s)) \in Seq(N) BY <1>1, JoinedIs
<1>3. <<Root>> \in Seq(N) BY DEF Planned
<1>4. f \in [Seq(N) -> Seq(N)] BY <1>2
<1>5. PICK g \in [Nat -> Seq(N)] : g = [i \in Nat |-> IF i = 0 THEN <<Root>> ELSE f[g[i - 1]]]
  <2> DEFINE M == Seq(N)
             x == <<Root>>
  <2>1. x \in M /\ f \in [M -> M] BY <1>3, <1>4
  <2> HIDE DEF f, M, x
  <2>2. \E g \in [Nat -> M] : g = [i \in Nat |-> IF i = 0 THEN x ELSE f[g[i - 1]]]
    BY <2>1, NatIteratesExist
  <2>3. QED BY <2>2 DEF M, x
<1>6. \A d \in Nat : g[d] = IF d = 0 THEN <<Root>> ELSE Joined(Sent(g[d - 1]))
  <2> TAKE d \in Nat
  <2>1. d # 0 => d - 1 \in Nat /\ g[d - 1] \in Seq(N) OBVIOUS
  <2>2. QED BY <1>5, <2>1
<1>7. g = Further(g) BY <1>5, <1>6
<1>8. Harness!Levels = CHOOSE h : h = Further(h)
  BY DEF Harness!Levels, Harness!FlattenSeq, Joined, Joins, Sent
<1>9. Harness!Levels = Further(Harness!Levels) BY <1>7, <1>8
<1> DEFINE L == Harness!Levels
<1> HIDE DEF L
<1>10. \A d \in Nat : L[d] = IF d = 0 THEN <<Root>> ELSE Joined(Sent(L[d - 1]))
  BY <1>9 DEF L
<1>11. \A d \in Nat : L[d] \in Seq(N)
  <2> DEFINE T == {d \in Nat : L[d] \notin Seq(N)}
  <2> SUFFICES ASSUME T # {} PROVE FALSE OBVIOUS
  <2>1. PICK d \in T : \A e \in T : d <= e
    <3>1. T \subseteq Nat OBVIOUS
    <3> HIDE DEF T
    <3>2. QED BY <3>1, LeastNat
  <2>2. d # 0 BY <1>3, <1>10
  <2>3. d - 1 \in Nat /\ ~(d <= d - 1) BY <2>2
  <2>4. L[d - 1] \in Seq(N) BY <2>1, <2>3
  <2>5. L[d] = Joined(Sent(L[d - 1])) BY <1>10, <2>2
  <2>6. QED BY <1>2, <2>4, <2>5
<1>12. \A d \in Nat : L[d + 1] = Joined(Sent(L[d]))
  <2> TAKE d \in Nat
  <2>1. d + 1 \in Nat /\ d + 1 # 0 /\ (d + 1) - 1 = d OBVIOUS
  <2>2. QED BY <1>10, <2>1
<1>13. QED BY <1>10, <1>11, <1>12 DEF L

OneParentEach(V) ==
    /\ Root \in V
    /\ \A p \in V : \A a \in DOMAIN Children[p] :
          Children[p][a] \in V /\ Children[p][a] # Root
    /\ \A p, q \in V : \A a \in DOMAIN Children[p], b \in DOMAIN Children[q] :
          Children[p][a] = Children[q][b] => p = q

\* _validate_tree lets a plan pass only if no node comes in it twice: every child has one
\* parent, and the root none.
LEMMA PlanIsATree ==
    ASSUME Planned, Harness!Valid
    PROVE  OneParentEach(Harness!Range(Harness!Visited))
<1> DEFINE N == DOMAIN Children
           L == Harness!Levels
           D == MaxDepth + 1
           LL == [d \in 1..D |-> L[d - 1]]
           W == Joined(LL)
           V == Harness!Range(Harness!Visited)
<1>1. D \in Nat /\ MaxDepth \in Nat /\ D = MaxDepth + 1 /\ 1 \in 1..D BY DEF Planned
<1>2. /\ L[0] = <<Root>>
      /\ \A d \in Nat : L[d] \in Seq(N) /\ L[d + 1] = Joined(Sent(L[d]))
  BY LevelsAre
<1>3. Harness!Visited = W
  BY DEF Harness!Visited, Harness!FlattenSeq, Joined, Joins
<1>4. L[D] = <<>> BY DEF Harness!Valid
<1>5. \A a, b \in DOMAIN W : W[a] = W[b] => a = b
  BY <1>3 DEF Harness!Valid, Harness!IsInjective
<1>6. V = {W[i] : i \in DOMAIN W} BY <1>3 DEF Harness!Range
<1> HIDE DEF L, D, V
<1>7. LL \in Seq(Seq(N)) /\ DOMAIN LL = 1..D /\ \A d \in 1..D : LL[d] = L[d - 1]
  <2>1. \A d \in 1..D : d - 1 \in Nat BY <1>1
  <2>2. \A d \in 1..D : L[d - 1] \in Seq(N) BY <1>2, <2>1
  <2> DEFINE M == Seq(N)
  <2>3. LL \in [1..D -> M] BY <2>2
  <2>4. \A d \in 1..D : LL[d] = L[d - 1] OBVIOUS
  <2>5. DOMAIN LL = 1..D OBVIOUS
  <2> HIDE DEF LL, M
  <2>6. LL \in Seq(M) BY <1>1, <2>3
  <2>7. QED BY <2>4, <2>5, <2>6 DEF M
<1> HIDE DEF LL, W
<1>8. /\ \A d \in 1..D : \A b \in DOMAIN L[d - 1] : \E i \in DOMAIN W : W[i] = L[d - 1][b]
      /\ \A i \in DOMAIN W : \E d \in 1..D : \E b \in DOMAIN L[d - 1] : W[i] = L[d - 1][b]
      /\ \A d, e \in 1..D : \A b \in DOMAIN L[d - 1], c \in DOMAIN L[e - 1] :
            L[d - 1][b] = L[e - 1][c] => d = e /\ b = c
  <2>1. /\ \A j \in DOMAIN LL : \A b \in DOMAIN LL[j] : \E i \in DOMAIN W : W[i] = LL[j][b]
        /\ \A i \in DOMAIN W : \E j \in DOMAIN LL : \E b \in DOMAIN LL[j] : W[i] = LL[j][b]
        /\ \A j, l \in DOMAIN LL : \A b \in DOMAIN LL[j], c \in DOMAIN LL[l] :
              LL[j][b] = LL[l][c] => j = l /\ b = c
    BY <1>5, <1>7, JoinedIs DEF W
  <2>2. \A d \in 1..D : \A b \in DOMAIN L[d - 1] : \E i \in DOMAIN W : W[i] = L[d - 1][b]
    BY <1>7, <2>1
  <2>3. \A i \in DOMAIN W : \E d \in 1..D : \E b \in DOMAIN L[d - 1] : W[i] = L[d - 1][b]
    <3> TAKE i \in DOMAIN W
    <3>1. PICK d \in DOMAIN LL : \E b \in DOMAIN LL[d] : W[i] = LL[d][b] BY <2>1
    <3>2. d \in 1..D /\ LL[d] = L[d - 1] BY <1>7
    <3>3. QED BY <3>1, <3>2
  <2>4. ASSUME NEW d \in 1..D, NEW e \in 1..D,
               NEW b \in DOMAIN L[d - 1], NEW c \in DOMAIN L[e - 1],
               L[d - 1][b] = L[e - 1][c]
        PROVE  d = e /\ b = c
    <3>1. /\ d \in DOMAIN LL /\ e \in DOMAIN LL /\ b \in DOMAIN LL[d] /\ c \in DOMAIN LL[e]
          /\ LL[d][b] = LL[e][c]
      BY <1>7, <2>4
    <3>2. QED BY <2>1, <3>1
  <2>5. QED BY <2>2, <2>3, <2>4
\* In terms of the depth.
<1>9. /\ \A d \in 0..MaxDepth : \A b \in DOMAIN L[d] : L[d][b] \in V
      /\ \A p \in V : \E d \in 0..MaxDepth : \E b \in DOMAIN L[d] : p = L[d][b]
      /\ \A d, e \in 0..MaxDepth : \A b \in DOMAIN L[d], c \in DOMAIN L[e] :
            L[d][b] = L[e][c] => d = e /\ b = c
  <2>1. \A d \in 0..MaxDepth : d + 1 \in 1..D /\ (d + 1) - 1 = d BY <1>1
  <2>2. \A d \in 1..D : d - 1 \in 0..MaxDepth BY <1>1
  <2>3. \A d \in 0..MaxDepth : \A b \in DOMAIN L[d] : L[d][b] \in V
    <3> TAKE d \in 0..MaxDepth
    <3> TAKE b \in DOMAIN L[d]
    <3>1. d + 1 \in 1..D /\ L[(d + 1) - 1] = L[d] BY <2>1
    <3>2. \E i \in DOMAIN W : W[i] = L[d][b] BY <1>8, <3>1
    <3>3. QED BY <1>6, <3>2
  <2>4. ASSUME NEW p \in V PROVE \E d \in 0..MaxDepth : \E b \in DOMAIN L[d] : p = L[d][b]
    <3>1. PICK i \in DOMAIN W : p = W[i] BY <1>6
    <3>2. PICK d \in 1..D : \E b \in DOMAIN L[d - 1] : W[i] = L[d - 1][b] BY <1>8
    <3>3. d - 1 \in 0..MaxDepth BY <2>2
    <3>4. QED BY <3>1, <3>2, <3>3
  <2>5. ASSUME NEW d \in 0..MaxDepth, NEW e \in 0..MaxDepth,
               NEW b \in DOMAIN L[d], NEW c \in DOMAIN L[e], L[d][b] = L[e][c]
        PROVE  d = e /\ b = c
    <3>1. /\ d + 1 \in 1..D /\ e + 1 \in 1..D
          /\ L[(d + 1) - 1] = L[d] /\ L[(e + 1) - 1] = L[e]
      BY <2>1
    <3>2. d + 1 = e + 1 /\ b = c BY <1>8, <2>5, <3>1
    <3>3. QED BY <3>2
  <2>6. QED BY <2>3, <2>4, <2>5
<1>10. ASSUME NEW d \in 0..MaxDepth
       PROVE  /\ Sent(L[d]) \in Seq(Seq(N))
              /\ DOMAIN Sent(L[d]) = DOMAIN L[d]
              /\ \A i \in DOMAIN L[d] : Sent(L[d])[i] = Children[L[d][i]]
              /\ L[d + 1] = Joined(Sent(L[d]))
  <2>1. d \in Nat /\ L[d] \in Seq(N) BY <1>2
  <2>2. QED BY <1>2, <2>1, SentIs DEF Sent
\* A child is one level down, and there is one.
<1>11. ASSUME NEW d \in 0..MaxDepth, NEW i \in DOMAIN L[d],
              NEW a \in DOMAIN Children[L[d][i]]
       PROVE  /\ d + 1 \in 0..MaxDepth
              /\ \E k \in DOMAIN L[d + 1] : L[d + 1][k] = Children[L[d][i]][a]
  <2>1. \E k \in DOMAIN L[d + 1] : L[d + 1][k] = Children[L[d][i]][a]
    <3> DEFINE ss == Sent(L[d])
    <3>1. /\ ss \in Seq(Seq(N)) /\ i \in DOMAIN ss /\ ss[i] = Children[L[d][i]]
          /\ L[d + 1] = Joined(ss)
      BY <1>10
    <3> HIDE DEF ss
    <3>2. \A j \in DOMAIN ss : \A b \in DOMAIN ss[j] :
             \E k \in DOMAIN Joined(ss) : Joined(ss)[k] = ss[j][b]
      BY <3>1, JoinedIs
    <3>3. QED BY <3>1, <3>2
  <2>2. d # MaxDepth BY <1>1, <1>4, <2>1
  <2>3. QED BY <1>1, <2>1, <2>2
<1>12. Root \in V
  <2>1. 0 \in 0..MaxDepth /\ 1 \in DOMAIN L[0] /\ L[0][1] = Root BY <1>1, <1>2
  <2>2. QED BY <1>9, <2>1
<1>13. ASSUME NEW p \in V, NEW a \in DOMAIN Children[p]
       PROVE  Children[p][a] \in V /\ Children[p][a] # Root
  <2>1. PICK d \in 0..MaxDepth : \E i \in DOMAIN L[d] : p = L[d][i] BY <1>9
  <2>2. PICK i \in DOMAIN L[d] : p = L[d][i] BY <2>1
  <2>3. PICK k \in DOMAIN L[d + 1] : L[d + 1][k] = Children[p][a] BY <1>11, <2>2
  <2>4. d + 1 \in 0..MaxDepth BY <1>11, <2>2
  <2>5. 0 \in 0..MaxDepth /\ 1 \in DOMAIN L[0] /\ L[0][1] = Root /\ d + 1 # 0 BY <1>1, <1>2
  <2>6. L[d + 1][k] # L[0][1] BY <1>9, <2>4, <2>5
  <2>7. QED BY <1>9, <2>3, <2>4, <2>5, <2>6
<1>14. ASSUME NEW p \in V, NEW q \in V,
              NEW a \in DOMAIN Children[p], NEW b \in DOMAIN Children[q],
              Children[p][a] = Children[q][b]
       PROVE  p = q
  <2>1. PICK d \in 0..MaxDepth : \E i \in DOMAIN L[d] : p = L[d][i] BY <1>9
  <2>2. PICK i \in DOMAIN L[d] : p = L[d][i] BY <2>1
  <2>3. PICK e \in 0..MaxDepth : \E j \in DOMAIN L[e] : q = L[e][j] BY <1>9
  <2>4. PICK j \in DOMAIN L[e] : q = L[e][j] BY <2>3
  <2>5. /\ d + 1 \in 0..MaxDepth /\ e + 1 \in 0..MaxDepth
        /\ \E k \in DOMAIN L[d + 1] : L[d + 1][k] = Children[p][a]
        /\ \E l \in DOMAIN L[e + 1] : L[e + 1][l] = Children[q][b]
    BY <1>11, <2>2, <2>4
  <2>6. d + 1 = e + 1 BY <1>9, <1>14, <2>5
  <2>7. d = e BY <2>6
  <2> DEFINE ss == Sent(L[d])
  <2>8. /\ ss \in Seq(Seq(N)) /\ i \in DOMAIN ss /\ j \in DOMAIN ss
        /\ ss[i] = Children[p] /\ ss[j] = Children[q] /\ L[d + 1] = Joined(ss)
    BY <1>10, <2>2, <2>4, <2>7
  <2> HIDE DEF ss
  <2>9. \A x, y \in DOMAIN Joined(ss) : Joined(ss)[x] = Joined(ss)[y] => x = y
    BY <1>9, <2>5, <2>8
  <2>10. \A k, l \in DOMAIN ss : \A x \in DOMAIN ss[k], y \in DOMAIN ss[l] :
            ss[k][x] = ss[l][y] => k = l /\ x = y
    BY <2>8, <2>9, JoinedIs
  <2>11. i = j BY <1>14, <2>8, <2>10
  <2>12. QED BY <2>2, <2>4, <2>7, <2>11
<1>15. QED BY <1>12, <1>13, <1>14 DEF OneParentEach, V

Began == Harness!InPool \cup {"queued"}

\* The nodes that have not handed out their children.
Before == {"undeclared", "queued", "waiting", "executing", "storing"}

\* Only what the plan visits ever begins; under a node that has not handed out its
\* children none has begun, and under one that is over none goes on.
Under(s) ==
    /\ \A n \in DOMAIN Children :
          s[n] # "undeclared" => Harness!Valid /\ n \in Harness!Range(Harness!Visited)
    /\ \A n \in DOMAIN Children : \A a \in DOMAIN Children[n] :
          n \in Harness!Range(Harness!Visited) =>
             /\ s[n] \in Before => s[Children[n][a]] = "undeclared"
             /\ s[n] \in Harness!Over => s[Children[n][a]] \notin Began

PoolsInv == Harness!TypeOK /\ Under(stage)

\* Nodes are finitely many: the executing ones can be counted.
Executing(s) == {n \in DOMAIN Children : s[n] = "executing"}

LEMMA SlotsAreCounted == \A S : Harness!Cardinality(S) = Cardinality(S)
  BY DEF Harness!Cardinality, Cardinality

LEMMA HarnessTypes ==
    Harness!TypeOK <=>
       /\ slots \in 0..MaxConcurrency
       /\ stage \in [DOMAIN Children -> Harness!Stages]
       /\ slots + Cardinality(Executing(stage)) = MaxConcurrency
BY SlotsAreCounted DEF Harness!TypeOK, Harness!Node, Executing

LEMMA HarnessTypesPrime ==
    Harness!TypeOK' <=>
       /\ slots' \in 0..MaxConcurrency
       /\ stage' \in [DOMAIN Children -> Harness!Stages]
       /\ slots' + Cardinality(Executing(stage')) = MaxConcurrency
BY SlotsAreCounted DEF Harness!TypeOK, Harness!Node, Executing

LEMMA ExecutingFinite ==
    ASSUME Planned, NEW s
    PROVE  IsFiniteSet(Executing(s)) /\ Cardinality(Executing(s)) \in Nat
<1>1. Executing(s) \subseteq DOMAIN Children /\ IsFiniteSet(DOMAIN Children)
  BY DEF Executing, Planned
<1>2. QED BY <1>1, FS_Subset, FS_CardinalityType

LEMMA PoolsInit == ASSUME Planned, Harness!Init PROVE PoolsInv
<1> USE DEF Harness!Stages, Harness!Over, Harness!InPool, Began, Before, Under
<1>1. slots = MaxConcurrency /\ stage \in [DOMAIN Children -> Harness!Stages]
  BY DEF Harness!Init, Harness!Node
<1>2. \A n \in DOMAIN Children :
         stage[n] = IF n = Root /\ Harness!Valid THEN "waiting" ELSE "undeclared"
  BY DEF Harness!Init, Harness!Node
<1>3. Executing(stage) = {} BY <1>2 DEF Executing
<1>4. Harness!TypeOK
  <2>1. Cardinality(Executing(stage)) = 0 BY <1>3, FS_EmptySet
  <2>2. QED BY <1>1, <2>1, HarnessTypes DEF Planned
<1>5. CASE Harness!Valid
  <2> DEFINE V == Harness!Range(Harness!Visited)
  <2>1. OneParentEach(V) BY <1>5, PlanIsATree
  <2> HIDE DEF V
  <2>2. ASSUME NEW n \in DOMAIN Children, NEW a \in DOMAIN Children[n], n \in V
        PROVE  stage[Children[n][a]] = "undeclared"
    <3>1. Children[n][a] # Root BY <2>1, <2>2 DEF OneParentEach
    <3>2. Children[n][a] \in DOMAIN Children BY DEF Planned
    <3>3. QED BY <1>2, <3>1, <3>2
  <2>3. Root \in V BY <2>1 DEF OneParentEach
  <2>4. QED BY <1>2, <1>4, <1>5, <2>2, <2>3 DEF PoolsInv, V
<1>6. CASE ~Harness!Valid
  <2>1. \A n \in DOMAIN Children : stage[n] = "undeclared" BY <1>2, <1>6
  <2>2. \A n \in DOMAIN Children : \A a \in DOMAIN Children[n] :
           Children[n][a] \in DOMAIN Children
    BY DEF Planned
  <2>3. QED BY <1>4, <2>1, <2>2 DEF PoolsInv
<1>7. QED BY <1>5, <1>6

LEMMA PoolsAre ==
    /\ PoolsInv <=> Harness!TypeOK /\ Under(stage)
    /\ PoolsInv' <=> Harness!TypeOK' /\ Under(stage')
BY DEF PoolsInv, Under

LEMMA StagesDiffer ==
    /\ Began = {"waiting", "executing", "storing", "fanning", "queued"}
    /\ Harness!Over = {"cancelled", "failed", "done"}
  BY DEF Began, Harness!InPool, Harness!Over

\* One node goes on: its parent is waiting for it, so nothing is asked of the parent.
LEMMA OneMove ==
    ASSUME Planned, Under(stage), stage \in [DOMAIN Children -> Harness!Stages],
           NEW n \in DOMAIN Children, NEW w,
           stage' = [stage EXCEPT ![n] = w],
           stage[n] \in Began,
           w # "undeclared",
           w \in Before => stage[n] \in Before,
           w \in Harness!Over =>
              \A a \in DOMAIN Children[n] : stage[Children[n][a]] \notin Began
    PROVE  Under(stage')
<1> USE StagesDiffer DEF Before
<1>1. \A m \in DOMAIN Children : stage'[m] = IF m = n THEN w ELSE stage[m]
  OBVIOUS
<1>2. stage[n] # "undeclared" OBVIOUS
<1>3. ASSUME NEW m \in DOMAIN Children, stage'[m] # "undeclared"
      PROVE  Harness!Valid /\ m \in Harness!Range(Harness!Visited)
  BY <1>1, <1>2, <1>3 DEF Under
<1>4. ASSUME NEW p \in DOMAIN Children, NEW a \in DOMAIN Children[p],
             p \in Harness!Range(Harness!Visited)
      PROVE  /\ stage'[p] \in Before => stage'[Children[p][a]] = "undeclared"
             /\ stage'[p] \in Harness!Over => stage'[Children[p][a]] \notin Began
  <2> DEFINE c == Children[p][a]
  <2>1. c \in DOMAIN Children BY DEF Planned
  <2>2. /\ stage[p] \in Before => stage[c] = "undeclared"
        /\ stage[p] \in Harness!Over => stage[c] \notin Began
    BY <1>4 DEF Under
  <2>3. /\ stage'[p] = IF p = n THEN w ELSE stage[p]
        /\ stage'[c] = IF c = n THEN w ELSE stage[c]
    BY <1>1, <2>1
  <2>4. p = n /\ w \in Harness!Over => stage[c] \notin Began OBVIOUS
  <2> HIDE DEF c
  <2>5. stage'[p] \in Before => stage'[c] = "undeclared"
    BY <2>2, <2>3
  <2>6. stage'[p] \in Harness!Over => stage'[c] \notin Began
    BY <2>2, <2>3, <2>4
  <2>7. QED BY <2>5, <2>6 DEF c
<1>5. QED BY <1>3, <1>4 DEF Under

\* The slots change with the nodes that execute.
LEMMA SlotTaken ==
    ASSUME Planned, Harness!TypeOK, NEW n \in DOMAIN Children, NEW w \in Harness!Stages,
           stage' = [stage EXCEPT ![n] = w],
           \/ stage[n] # "executing" /\ w # "executing" /\ slots' = slots
           \/ stage[n] # "executing" /\ w = "executing" /\ slots > 0 /\ slots' = slots - 1
           \/ stage[n] = "executing" /\ w # "executing" /\ slots' = slots + 1
    PROVE  Harness!TypeOK'
<1> DEFINE E == Executing(stage)
           F == Executing(stage')
<1>1. /\ slots \in Nat /\ slots <= MaxConcurrency /\ MaxConcurrency \in Nat
      /\ stage \in [DOMAIN Children -> Harness!Stages]
      /\ slots + Cardinality(E) = MaxConcurrency
  BY HarnessTypes DEF Planned
<1>2. IsFiniteSet(E) /\ Cardinality(E) \in Nat /\ IsFiniteSet(F) /\ Cardinality(F) \in Nat
  BY ExecutingFinite
<1>3. /\ stage' \in [DOMAIN Children -> Harness!Stages]
      /\ \A m \in DOMAIN Children : stage'[m] = IF m = n THEN w ELSE stage[m]
  BY <1>1
<1>4. slots' \in 0..MaxConcurrency /\ slots' + Cardinality(F) = MaxConcurrency
  <2>1. CASE stage[n] # "executing" /\ w # "executing" /\ slots' = slots
    <3>1. F = E BY <1>3, <2>1 DEF Executing
    <3> HIDE DEF E, F
    <3>2. QED BY <1>1, <2>1, <3>1
  <2>2. CASE stage[n] # "executing" /\ w = "executing" /\ slots > 0 /\ slots' = slots - 1
    <3>1. F = E \cup {n} /\ n \notin E BY <1>3, <2>2 DEF Executing
    <3> HIDE DEF E, F
    <3>2. Cardinality(F) = Cardinality(E) + 1 BY <1>2, <3>1, FS_AddElement
    <3>3. QED BY <1>1, <1>2, <2>2, <3>2
  <2>3. CASE stage[n] = "executing" /\ w # "executing" /\ slots' = slots + 1
    <3>1. F = E \ {n} /\ n \in E BY <1>3, <2>3 DEF Executing
    <3> HIDE DEF E, F
    <3>2. Cardinality(F) = Cardinality(E) - 1 BY <1>2, <3>1, FS_RemoveElement
    <3>3. QED BY <1>1, <1>2, <2>3, <3>2
  <2>4. QED BY <2>1, <2>2, <2>3
<1>5. QED BY <1>3, <1>4, HarnessTypesPrime

\* Many nodes go on, none of which executes.
LEMMA SlotsKept ==
    ASSUME Planned, Harness!TypeOK, slots' = slots,
           stage' \in [DOMAIN Children -> Harness!Stages],
           \A m \in DOMAIN Children : stage'[m] = "executing" <=> stage[m] = "executing"
    PROVE  Harness!TypeOK'
<1>1. Executing(stage') = Executing(stage) BY DEF Executing
<1>2. QED BY <1>1, HarnessTypes, HarnessTypesPrime

LEMMA TakesUp == ASSUME Planned, PoolsInv, NEW n \in DOMAIN Children, Harness!TakeUp(n)
                 PROVE  PoolsInv'
<1>1. stage[n] = "queued" /\ stage' = [stage EXCEPT ![n] = "waiting"] /\ slots' = slots
  BY DEF Harness!TakeUp
<1>2. Harness!TypeOK /\ Under(stage) BY PoolsAre
<1>3. stage \in [DOMAIN Children -> Harness!Stages] BY <1>2, HarnessTypes
<1>4. Under(stage') BY <1>1, <1>2, <1>3, StagesDiffer, OneMove DEF Before
<1>5. Harness!TypeOK' BY <1>1, <1>2, SlotTaken DEF Harness!Stages
<1>6. QED BY <1>4, <1>5, PoolsAre

LEMMA Enters == ASSUME Planned, PoolsInv, NEW n \in DOMAIN Children, Harness!Enter(n)
                PROVE  PoolsInv'
<1>1. /\ stage[n] = "waiting" /\ stage' = [stage EXCEPT ![n] = "executing"]
      /\ slots > 0 /\ slots' = slots - 1
  BY DEF Harness!Enter
<1>2. Harness!TypeOK /\ Under(stage) BY PoolsAre
<1>3. stage \in [DOMAIN Children -> Harness!Stages] BY <1>2, HarnessTypes
<1>4. Under(stage') BY <1>1, <1>2, <1>3, StagesDiffer, OneMove DEF Before
<1>5. Harness!TypeOK' BY <1>1, <1>2, SlotTaken DEF Harness!Stages
<1>6. QED BY <1>4, <1>5, PoolsAre

LEMMA LeavesSlot == ASSUME Planned, PoolsInv, NEW n \in DOMAIN Children, Harness!LeaveSlot(n)
                    PROVE  PoolsInv'
<1>1. PICK w \in {"failed", "storing"} : stage' = [stage EXCEPT ![n] = w]
  BY DEF Harness!LeaveSlot
<1>2. stage[n] = "executing" /\ slots' = slots + 1
  BY DEF Harness!LeaveSlot
<1>3. Harness!TypeOK /\ Under(stage) BY PoolsAre
<1>4. stage \in [DOMAIN Children -> Harness!Stages] BY <1>3, HarnessTypes
<1>5. \A a \in DOMAIN Children[n] : stage[Children[n][a]] = "undeclared"
  BY <1>2, <1>3 DEF Under, Before
<1>6. Under(stage')
  BY <1>1, <1>2, <1>3, <1>4, <1>5, StagesDiffer, OneMove DEF Before
<1>7. Harness!TypeOK' BY <1>1, <1>2, <1>3, SlotTaken DEF Harness!Stages
<1>8. QED BY <1>6, <1>7, PoolsAre

LEMMA Fails == ASSUME Planned, PoolsInv, NEW n \in DOMAIN Children, Harness!Fail(n)
               PROVE  PoolsInv'
<1>1. /\ stage[n] = "fanning" /\ stage' = [stage EXCEPT ![n] = "failed"] /\ slots' = slots
      /\ \A m \in Harness!Range(Children[n]) : stage[m] \in Harness!Over
  BY DEF Harness!Fail
<1>2. Harness!TypeOK /\ Under(stage) BY PoolsAre
<1>3. stage \in [DOMAIN Children -> Harness!Stages] BY <1>2, HarnessTypes
<1>4. \A a \in DOMAIN Children[n] : stage[Children[n][a]] \in Harness!Over
  BY <1>1 DEF Harness!Range
<1>5. Under(stage')
  BY <1>1, <1>2, <1>3, <1>4, StagesDiffer, OneMove DEF Before
<1>6. Harness!TypeOK' BY <1>1, <1>2, SlotTaken DEF Harness!Stages
<1>7. QED BY <1>5, <1>6, PoolsAre

LEMMA Gathers == ASSUME Planned, PoolsInv, NEW n \in DOMAIN Children, Harness!Gather(n)
                 PROVE  PoolsInv'
<1>1. /\ stage[n] = "fanning" /\ stage' = [stage EXCEPT ![n] = "done"] /\ slots' = slots
      /\ Harness!Gathered(n) = DOMAIN Children[n]
  BY DEF Harness!Gather
<1>2. Harness!TypeOK /\ Under(stage) BY PoolsAre
<1>3. stage \in [DOMAIN Children -> Harness!Stages] BY <1>2, HarnessTypes
<1>4. \A a \in DOMAIN Children[n] : stage[Children[n][a]] = "done"
  <2>1. TAKE a \in DOMAIN Children[n]
  <2>2. Children[n] \in Seq(DOMAIN Children) BY DEF Planned
  <2>3. a \in 1..a BY <2>2
  <2>4. QED BY <1>1, <2>3 DEF Harness!Gathered
<1>5. Under(stage')
  BY <1>1, <1>2, <1>3, <1>4, StagesDiffer, OneMove DEF Before
<1>6. Harness!TypeOK' BY <1>1, <1>2, SlotTaken DEF Harness!Stages
<1>7. QED BY <1>5, <1>6, PoolsAre

\* No child of the node that stores has begun, and none has another parent.
LEMMA Stores == ASSUME Planned, PoolsInv, NEW n \in DOMAIN Children, Harness!Store(n)
                PROVE  PoolsInv'
<1> DEFINE K == Harness!Range(Children[n])
           V == Harness!Range(Harness!Visited)
<1>1. stage[n] = "storing" /\ slots' = slots BY DEF Harness!Store
<1>2. Harness!TypeOK /\ Under(stage) BY PoolsAre
<1>3. stage \in [DOMAIN Children -> Harness!Stages] BY <1>2, HarnessTypes
<1>4. \A a \in DOMAIN Children[n] : stage[Children[n][a]] = "undeclared"
  BY <1>1, <1>2 DEF Under, Before
<1>5. CASE stage' = [stage EXCEPT ![n] = "failed"]
  <2>1. Under(stage')
    BY <1>1, <1>2, <1>3, <1>4, <1>5, StagesDiffer, OneMove DEF Before
  <2>2. Harness!TypeOK' BY <1>1, <1>2, <1>5, SlotTaken DEF Harness!Stages
  <2>3. QED BY <2>1, <2>2, PoolsAre
<1>6. CASE stage' = [m \in Harness!Node |->
              IF m = n THEN IF Children[n] = <<>> THEN "done" ELSE "fanning"
              ELSE IF m \in Harness!Range(Children[n]) THEN "queued" ELSE stage[m]]
  <2>1. /\ stage' \in [DOMAIN Children -> Harness!Stages]
        /\ \A m \in DOMAIN Children : stage'[m] =
              IF m = n THEN IF Children[n] = <<>> THEN "done" ELSE "fanning"
              ELSE IF m \in K THEN "queued" ELSE stage[m]
    BY <1>3, <1>6 DEF Harness!Node, Harness!Stages
  <2>2. K = {Children[n][a] : a \in DOMAIN Children[n]} BY DEF Harness!Range
  <2>3. \A m \in K : stage[m] = "undeclared" BY <1>4, <2>2
  <2>4. Harness!Valid /\ n \in V BY <1>1, <1>2 DEF Under
  <2>5. OneParentEach(V) BY <2>4, PlanIsATree
  <2> HIDE DEF K, V
  <2>6. Harness!TypeOK' BY <1>1, <1>2, <2>1, <2>3, SlotsKept
  <2>7. ASSUME NEW m \in DOMAIN Children, stage'[m] # "undeclared"
        PROVE  Harness!Valid /\ m \in V
    <3>1. m \in K => m \in V BY <2>2, <2>4, <2>5 DEF OneParentEach
    <3>2. stage[m] # "undeclared" => m \in V BY <1>2 DEF Under, V
    <3>3. QED BY <2>1, <2>4, <2>7, <3>1, <3>2
  <2>8. ASSUME NEW p \in DOMAIN Children, NEW a \in DOMAIN Children[p], p \in V
        PROVE  /\ stage'[p] \in Before => stage'[Children[p][a]] = "undeclared"
               /\ stage'[p] \in Harness!Over => stage'[Children[p][a]] \notin Began
    <3> DEFINE c == Children[p][a]
    <3>1. c \in DOMAIN Children BY DEF Planned
    <3>2. /\ stage[p] \in Before => stage[c] = "undeclared"
          /\ stage[p] \in Harness!Over => stage[c] \notin Began
      BY <1>2, <2>8 DEF Under, V
    <3>3. c \in K => p = n BY <2>2, <2>4, <2>5, <2>8 DEF OneParentEach
    <3>4. p = n => c \in K /\ Children[n] # <<>>
      <4> SUFFICES ASSUME p = n PROVE c \in K /\ Children[n] # <<>> OBVIOUS
      <4>1. c \in K BY <2>2
      <4>2. Children[n] # <<>>
        <5>1. DOMAIN Children[n] # {} OBVIOUS
        <5>2. QED BY <5>1
      <4>3. QED BY <4>1, <4>2
    <3> HIDE DEF c
    <3>5. /\ stage'[p] = IF p = n THEN IF Children[n] = <<>> THEN "done" ELSE "fanning"
                         ELSE IF p \in K THEN "queued" ELSE stage[p]
          /\ stage'[c] = IF c = n THEN IF Children[n] = <<>> THEN "done" ELSE "fanning"
                         ELSE IF c \in K THEN "queued" ELSE stage[c]
      BY <2>1, <3>1
    <3>6. CASE p = n
      <4>1. stage'[p] = "fanning" BY <3>4, <3>5, <3>6
      <4>2. QED BY <4>1, StagesDiffer DEF c, Before
    <3>7. CASE p # n
      <4>1. c \notin K BY <3>3, <3>7
      <4>2. CASE p \in K
        <5>1. stage[c] = "undeclared" BY <2>3, <3>2, <4>2 DEF Before
        <5>2. stage'[c] = "undeclared" BY <1>1, <3>5, <4>1, <5>1
        <5>3. QED BY <5>2, StagesDiffer DEF c
      <4>3. CASE p \notin K
        <5>1. stage'[p] = stage[p] BY <3>5, <3>7, <4>3
        <5>2. CASE c = n
          <6>1. stage[p] \notin Before /\ stage[p] \notin Harness!Over
            BY <1>1, <3>2, <5>2, StagesDiffer
          <6>2. QED BY <5>1, <6>1
        <5>3. CASE c # n
          <6>1. stage'[c] = stage[c] BY <3>5, <4>1, <5>3
          <6>2. QED BY <3>2, <5>1, <6>1 DEF c
        <5>4. QED BY <5>2, <5>3
      <4>4. QED BY <4>2, <4>3
    <3>8. QED BY <3>6, <3>7
  <2>9. Under(stage') BY <2>7, <2>8 DEF Under, V
  <2>10. QED BY <2>6, <2>9, PoolsAre
<1>7. QED BY <1>5, <1>6 DEF Harness!Store

LEMMA CancelsQueued ==
    ASSUME Planned, PoolsInv, NEW n \in DOMAIN Children, Harness!CancelQueued(n)
    PROVE  PoolsInv'
<1> DEFINE K == Harness!Range(Children[n])
<1>1. /\ slots' = slots
      /\ stage' = [m \in Harness!Node |-> IF m \in K /\ stage[m] = "queued"
                                          THEN "cancelled" ELSE stage[m]]
  BY DEF Harness!CancelQueued
<1> HIDE DEF K
<1>2. Harness!TypeOK /\ Under(stage) BY PoolsAre
<1>3. stage \in [DOMAIN Children -> Harness!Stages] BY <1>2, HarnessTypes
<1>4. /\ stage' \in [DOMAIN Children -> Harness!Stages]
      /\ \A m \in DOMAIN Children : stage'[m] =
            IF m \in K /\ stage[m] = "queued" THEN "cancelled" ELSE stage[m]
  BY <1>1, <1>3 DEF Harness!Node, Harness!Stages
<1>5. Harness!TypeOK' BY <1>1, <1>2, <1>4, SlotsKept
<1>6. ASSUME NEW m \in DOMAIN Children, stage'[m] # "undeclared"
      PROVE  Harness!Valid /\ m \in Harness!Range(Harness!Visited)
  BY <1>2, <1>4, <1>6 DEF Under
<1>7. ASSUME NEW p \in DOMAIN Children, NEW a \in DOMAIN Children[p],
             p \in Harness!Range(Harness!Visited)
      PROVE  /\ stage'[p] \in Before => stage'[Children[p][a]] = "undeclared"
             /\ stage'[p] \in Harness!Over => stage'[Children[p][a]] \notin Began
  <2> DEFINE c == Children[p][a]
  <2>1. c \in DOMAIN Children BY DEF Planned
  <2>2. /\ stage[p] \in Before => stage[c] = "undeclared"
        /\ stage[p] \in Harness!Over => stage[c] \notin Began
    BY <1>2, <1>7 DEF Under
  <2> HIDE DEF c
  <2>3. /\ stage'[p] = IF p \in K /\ stage[p] = "queued" THEN "cancelled" ELSE stage[p]
        /\ stage'[c] = IF c \in K /\ stage[c] = "queued" THEN "cancelled" ELSE stage[c]
    BY <1>4, <2>1
  <2>4. stage'[p] \in Before => stage'[c] = "undeclared"
    BY <2>2, <2>3 DEF Before
  <2>5. stage'[p] \in Harness!Over => stage'[c] \notin Began
    BY <2>2, <2>3, StagesDiffer DEF Before
  <2>6. QED BY <2>4, <2>5 DEF c
<1>8. Under(stage') BY <1>6, <1>7 DEF Under
<1>9. QED BY <1>5, <1>8, PoolsAre

LEMMA PoolsStep ==
    ASSUME Planned, PoolsInv, Harness!Next \/ UNCHANGED harnessVars PROVE PoolsInv'
<1>1. CASE Harness!Next
  <2>1. PICK n \in DOMAIN Children : Harness!Step(n)
    BY <1>1 DEF Harness!Next, Harness!Node
  <2>2. QED BY <2>1, TakesUp, Enters, LeavesSlot, Stores, CancelsQueued, Fails, Gathers
            DEF Harness!Step
<1>2. CASE UNCHANGED harnessVars
  <2>1. stage' = stage /\ slots' = slots BY <1>2 DEF harnessVars
  <2>2. QED BY <2>1, PoolsAre, HarnessTypes, HarnessTypesPrime
<1>3. QED BY <1>1, <1>2

LEMMA PoolsKeepTheirBounds ==
    ASSUME Planned, PoolsInv
    PROVE  Harness!TypeOK /\ Harness!BoundedAcrossPools /\ Harness!NothingRunsBehind
<1>1. Harness!TypeOK /\ Under(stage) BY PoolsAre
<1>2. Harness!BoundedAcrossPools
  <2>1. /\ slots \in Nat /\ MaxConcurrency \in Nat
        /\ slots + Cardinality(Executing(stage)) = MaxConcurrency
    BY <1>1, HarnessTypes DEF Planned
  <2>2. Cardinality(Executing(stage)) \in Nat BY ExecutingFinite
  <2>3. Cardinality(Executing(stage)) <= MaxConcurrency BY <2>1, <2>2
  <2>4. QED BY <2>3, SlotsAreCounted DEF Harness!BoundedAcrossPools, Harness!Node, Executing
<1>3. Harness!NothingRunsBehind
  <2> SUFFICES ASSUME NEW n \in DOMAIN Children, stage[n] \in Harness!Over,
                      NEW m \in Harness!Range(Children[n])
               PROVE  stage[m] \notin Began
    BY DEF Harness!NothingRunsBehind, Harness!Node, Began
  <2>1. stage[n] # "undeclared" BY StagesDiffer
  <2>2. n \in Harness!Range(Harness!Visited) BY <1>1, <2>1 DEF Under
  <2>3. PICK a \in DOMAIN Children[n] : m = Children[n][a] BY DEF Harness!Range
  <2>4. QED BY <1>1, <2>2, <2>3 DEF Under
<1>4. QED BY <1>1, <1>2, <1>3

\* In any finite plan the runs of all pools together keep within the semaphore, and a node
\* is over only when nothing under it runs or is still to run.
THEOREM HarnessKeepsItsBounds ==
    ASSUME Planned
    PROVE  MCSpec => [](/\ Harness!TypeOK
                        /\ Harness!BoundedAcrossPools
                        /\ Harness!NothingRunsBehind)
<1>1. MCInit => PoolsInv BY PoolsInit DEF MCInit
<1>2. PoolsInv /\ [MCNext]_mcVars => PoolsInv' BY Steps, PoolsStep
<1>3. PoolsInv => /\ Harness!TypeOK
                 /\ Harness!BoundedAcrossPools
                 /\ Harness!NothingRunsBehind
  BY PoolsKeepTheirBounds
<1>4. QED BY <1>1, <1>2, <1>3, PTL DEF MCSpec
=============================================================================
