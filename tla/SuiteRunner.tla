------------------------------ MODULE SuiteRunner ------------------------------
(***************************************************************************)
(* rlm0/harness/runner.py: run_suite over one output directory, run again  *)
(* and again, with the same or another corpus, solver and grading policy,  *)
(* with and without resume, over all samples or some (`only`).  On disk    *)
(* are the corpus, the records, one line per sample, and the manifest.     *)
(* The process may die between any two steps and inside a write.           *)
(*                                                                         *)
(* A record keeps what it was measured on and under; scores, answers and   *)
(* accounting are left out.                                                *)
(***************************************************************************)
EXTENDS Naturals, Sequences, FiniteSets, Functions

CONSTANTS
    Samples,    \* the samples of every corpus, in order
    Corpus,     \* content hashes
    Setup,      \* a solver with a grading policy, as the manifest describes them
    RunBound    \* bound on the runs over the directory

Sample == Range(Samples)
None == "none"

VARIABLES
    corpusFile, \* whose corpus.json is there
    lines,      \* records.jsonl
    manifest,   \* manifest.json
    pc,         \* where run_suite is
    run,        \* its arguments
    records,    \* the records it holds in memory
    runs        \* how many were started

disk == <<corpusFile, lines, manifest>>
vars == <<disk, pc, run, records, runs>>

\* A line is whole, cut inside the JSON, or lacks only its newline.
Line == [sample : Sample, corpus : Corpus, setup : Setup, text : {"whole", "cut", "unended"}]
Record == [sample : Sample, corpus : Corpus, setup : Setup]
NoManifest == [corpus |-> None, setup |-> None, status |-> "absent", n |-> 0]
Manifest == [corpus : Corpus, setup : Setup, status : {"running", "complete"}, n : Nat]
Arguments == [corpus : Corpus, setup : Setup, resume : BOOLEAN, only : SUBSET Sample]

TypeOK ==
    /\ corpusFile \in Corpus \cup {None}
    /\ lines \in Seq(Line)
    /\ manifest \in Manifest \cup {NoManifest}
    /\ pc \in {"idle", "corpus", "load", "manifest", "samples"}
    /\ run \in Arguments
    /\ records \in Seq(Record)
    /\ runs \in 0..RunBound

Init ==
    /\ corpusFile = None /\ lines = <<>> /\ manifest = NoManifest
    /\ pc = "idle" /\ records = <<>> /\ runs = 0
    /\ run \in [corpus : Corpus, setup : Setup, resume : {TRUE}, only : {Sample}]

-----------------------------------------------------------------------------
(* One run.                                                                  *)

Begin ==
    /\ pc = "idle" /\ runs < RunBound
    /\ run' \in Arguments
    /\ runs' = runs + 1
    /\ pc' = "corpus"
    /\ UNCHANGED <<disk, records>>

\* The corpus is written before the records are looked at.
WriteCorpus ==
    /\ pc = "corpus"
    /\ corpusFile' = run.corpus
    /\ pc' = "load"
    /\ UNCHANGED <<lines, manifest, run, records, runs>>

Readable(l) == l.text # "cut"

\* Seeded fault: the hash of a record is not compared.
LoadableAny(ls) == \A i \in DOMAIN ls : Readable(ls[i])

\* _load_existing.
Loadable(ls) == \A i \in DOMAIN ls : Readable(ls[i]) /\ ls[i].corpus = run.corpus

Loaded(ls) ==
    [i \in DOMAIN ls |-> [sample |-> ls[i].sample, corpus |-> ls[i].corpus,
                          setup |-> ls[i].setup]]

Load ==
    /\ pc = "load"
    /\ \/ ~run.resume /\ lines' = <<>> /\ records' = <<>> /\ pc' = "manifest"
       \/ /\ run.resume /\ Loadable(lines)
          /\ records' = Loaded(lines)
          /\ pc' = "manifest"
          /\ UNCHANGED lines
       \/ /\ run.resume /\ ~Loadable(lines)
          /\ pc' = "idle"
          /\ UNCHANGED <<lines, records>>
    /\ UNCHANGED <<corpusFile, manifest, run, runs>>

ManifestOf(status) ==
    [corpus |-> run.corpus, setup |-> run.setup, status |-> status, n |-> Len(records)]

WriteManifest ==
    /\ pc = "manifest"
    /\ manifest' = ManifestOf("running")
    /\ pc' = "samples"
    /\ UNCHANGED <<corpusFile, lines, run, records, runs>>

\* The places of the samples that are asked for and have no record yet.
Wanted ==
    {k \in DOMAIN Samples :
        /\ Samples[k] \in run.only
        /\ ~\E i \in DOMAIN records : records[i].sample = Samples[k]}
NextSample == Samples[CHOOSE k \in Wanted : \A j \in Wanted : k <= j]

\* The new text goes after what is there: a line without its newline takes it in.
Appended(l) ==
    IF lines # <<>> /\ lines[Len(lines)].text # "whole"
    THEN [lines EXCEPT ![Len(lines)].text = "cut"]
    ELSE Append(lines, l)

Measured(s) == [sample |-> s, corpus |-> run.corpus, setup |-> run.setup]
LineOf(s, text) ==
    [sample |-> s, corpus |-> run.corpus, setup |-> run.setup, text |-> text]

\* Solve, check, grade, classify, then append the record and sync it.
Measure ==
    /\ pc = "samples" /\ Wanted # {}
    /\ lines' = Appended(LineOf(NextSample, "whole"))
    /\ records' = Append(records, Measured(NextSample))
    /\ UNCHANGED <<corpusFile, manifest, pc, run, runs>>

Finish ==
    /\ pc = "samples" /\ Wanted = {}
    /\ manifest' = ManifestOf("complete")
    /\ pc' = "idle"
    /\ UNCHANGED <<corpusFile, lines, run, records, runs>>

-----------------------------------------------------------------------------
(* Failures: the solver raises or breaks its contract, the process dies.     *)

Stop ==
    /\ pc # "idle"
    /\ pc' = "idle"
    /\ UNCHANGED <<disk, run, records, runs>>

DieInAppend ==
    /\ pc = "samples" /\ Wanted # {}
    /\ \E text \in {"cut", "unended"} :
          lines' = Appended(LineOf(NextSample, text))
    /\ pc' = "idle"
    /\ UNCHANGED <<corpusFile, manifest, run, records, runs>>

Next ==
    \/ Begin \/ WriteCorpus \/ Load \/ WriteManifest \/ Measure \/ Finish
    \/ Stop \/ DieInAppend

Spec == Init /\ [][Next]_vars

-----------------------------------------------------------------------------
(* Properties.                                                               *)

\* The lines a reader gets something from.
Good == {i \in DOMAIN lines : Readable(lines[i])}

\* However often a suite is stopped, killed and run again, under whatever setup,
\* a sample has one readable record.
NoSampleTwice ==
    \A i, j \in Good : lines[i].sample = lines[j].sample => i = j

\* "resuming would pool two different benchmarks into one number": the readable
\* records of a directory were measured on one corpus.
OneCorpus == \A i, j \in Good : lines[i].corpus = lines[j].corpus

\* A manifest that says complete names the corpus of the records beside it and their
\* number, unless a run that does not resume has just deleted them, or one that
\* resumes has written its first record onto the end of an unended line.
CompleteIsTrue ==
    manifest.status = "complete" /\ lines # <<>> /\ Good = DOMAIN lines =>
        /\ manifest.n = Len(lines)
        /\ \A i \in DOMAIN lines : lines[i].corpus = manifest.corpus

\* What is on disk can be believed.
DirectoryIsSound == NoSampleTwice /\ OneCorpus /\ CompleteIsTrue
=============================================================================
