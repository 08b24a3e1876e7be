-------------------------------- MODULE EventLog --------------------------------
(***************************************************************************)
(* rlm0/research/events.py: the hash-chained event file, the sessions that *)
(* write_research_events puts into it, and the replay that rebuilds a      *)
(* session from it.  Writers are EventLog objects, of one process or of    *)
(* several; each reads the file once, when it is constructed, and          *)
(* afterwards trusts its memory.  A write may fail before or after its     *)
(* line is in the file, a process may die in the middle of a line, and     *)
(* somebody may have edited the file.                                      *)
(*                                                                         *)
(* A digest stands for the events it was computed from, so that the digest *)
(* of a chain is modelled by the chain.                                    *)
(***************************************************************************)
EXTENDS Naturals, Sequences, FiniteSets, SequencesExt

CONSTANTS
    Writers,
    Research,     \* research ids
    Trials,       \* the trials of each, as a sequence; two may share a trial
    OpenBound,    \* bound on the logs constructed
    FaultBound,   \* bound on the appends that fail or are cut, and the edits
    LineBound     \* bound on the lines of the file

VARIABLES
    lines,    \* the file
    open,     \* the writer has an EventLog object
    chain,    \* what its object holds: _next_sequence and _previous_digest
    complete, \* _complete
    todo,     \* the events write_research_events has yet to append
    opens,    \* how many objects were constructed
    faults,   \* how many appends failed, lines were cut, edits made
    edited    \* somebody else changed the file

vars == <<lines, open, chain, complete, todo, opens, faults, edited>>

Trial == UNION {Range(Trials[r]) : r \in Research}

\* `altered` says that the payload is no longer the one that was written.
Event == [kind : {"research_started", "research_complete"}, of : Research,
          altered : BOOLEAN]
         \cup [kind : {"trial_recorded"}, of : Trial, altered : BOOLEAN]

Written(kind, of) == [kind |-> kind, of |-> of, altered |-> FALSE]
Started(r) == Written("research_started", r)
Recorded(t) == Written("trial_recorded", t)
Complete(r) == Written("research_complete", r)

\* write_research_events, as the events it appends.
Session(r) ==
    <<Started(r)>> \o [i \in DOMAIN Trials[r] |-> Recorded(Trials[r][i])]
                   \o <<Complete(r)>>

Line == [seq : Nat, event : Event, prev : Seq(Event), digest : Seq(Event), cut : BOOLEAN]

TypeOK ==
    /\ lines \in Seq(Line) /\ Len(lines) <= LineBound
    /\ open \in [Writers -> BOOLEAN]
    /\ chain \in [Writers -> Seq(Event)]
    /\ complete \in [Writers -> BOOLEAN]
    /\ todo \in [Writers -> Seq(Event)]
    /\ opens \in 0..OpenBound
    /\ faults \in 0..FaultBound
    /\ edited \in BOOLEAN

Init ==
    /\ lines = <<>>
    /\ open = [w \in Writers |-> FALSE]
    /\ chain = [w \in Writers |-> <<>>]
    /\ complete = [w \in Writers |-> FALSE]
    /\ todo = [w \in Writers |-> <<>>]
    /\ opens = 0 /\ faults = 0 /\ edited = FALSE

-----------------------------------------------------------------------------
(* Reading.                                                                  *)

Events(ls) == [i \in DOMAIN ls |-> ls[i].event]

\* EventRecord.__post_init__: the digest matches the content.
Intact(l) == ~l.cut /\ l.digest = Append(l.prev, l.event)

\* read_events.
Valid(ls) ==
    \A i \in DOMAIN ls :
        /\ Intact(ls[i])
        /\ ls[i].seq = i - 1
        /\ ls[i].prev = IF i = 1 THEN <<>> ELSE ls[i - 1].digest

\* Every trial of the research, each once, and no other.
TrialsMatch(es, r) ==
    LET at == {i \in DOMAIN es : es[i].kind = "trial_recorded"} IN
    /\ {es[i].of : i \in at} = Range(Trials[r])
    /\ Cardinality(at) = Cardinality(Range(Trials[r]))

\* replay.
Replays(ls) ==
    /\ Valid(ls) /\ ls # <<>>
    /\ LET es == Events(ls) IN
       \E r \in Research :
          /\ es[1].kind = "research_started" /\ es[1].of = r
          /\ Last(es).kind = "research_complete" /\ Last(es).of = r
          /\ \A i \in 2..(Len(es) - 1) : es[i].kind = "trial_recorded"
          /\ TrialsMatch(es, r)

-----------------------------------------------------------------------------
(* Writing.                                                                  *)

\* EventLog.__init__; what follows a completion is refused.
Opens(w, es) ==
    LET done == \E i \in DOMAIN es : es[i].kind = "research_complete" IN
    /\ done => Last(es).kind = "research_complete"
    /\ chain' = [chain EXCEPT ![w] = es]
    /\ complete' = [complete EXCEPT ![w] = done]

Construct(w) ==
    /\ ~open[w] /\ opens < OpenBound
    /\ Valid(lines)
    /\ Opens(w, Events(lines))
    /\ open' = [open EXCEPT ![w] = TRUE]
    /\ opens' = opens + 1
    /\ UNCHANGED <<lines, todo, faults, edited>>

WriteSession(w, r) ==
    /\ open[w] /\ todo[w] = <<>>
    /\ todo' = [todo EXCEPT ![w] = Session(r)]
    /\ UNCHANGED <<lines, open, chain, complete, opens, faults, edited>>

LineOf(w, cut) ==
    [seq |-> Len(chain[w]), event |-> Head(todo[w]), prev |-> chain[w],
     digest |-> Append(chain[w], Head(todo[w])), cut |-> cut]

\* A new line, or the rest of a cut one, which then is no JSON either.
Put(l) == lines' = IF lines # <<>> /\ Last(lines).cut THEN lines ELSE Append(lines, l)

\* Seeded fault: _complete is not looked at.
MayAppendAlways(w) == open[w] /\ todo[w] # <<>>
MayAppend(w) == open[w] /\ todo[w] # <<>> /\ ~complete[w]

AppendEvent(w) ==
    /\ MayAppend(w) /\ Len(lines) < LineBound
    /\ Put(LineOf(w, FALSE))
    /\ chain' = [chain EXCEPT ![w] = Append(@, Head(todo[w]))]
    /\ complete' = [complete EXCEPT ![w] = Head(todo[w]).kind = "research_complete"]
    /\ todo' = [todo EXCEPT ![w] = Tail(@)]
    /\ UNCHANGED <<open, opens, faults, edited>>

Fault == faults < FaultBound /\ faults' = faults + 1

\* The write or the sync raises, the line being in the file, cut, or not at all.
\* The object's memory is as before, and write_research_events is over.
AppendFails(w) ==
    /\ MayAppend(w) /\ Len(lines) < LineBound /\ Fault
    /\ \E cut \in BOOLEAN : Put(LineOf(w, cut)) \/ UNCHANGED lines
    /\ todo' = [todo EXCEPT ![w] = <<>>]
    /\ UNCHANGED <<open, chain, complete, opens, edited>>

AppendRefused(w) ==
    /\ open[w] /\ todo[w] # <<>> /\ ~MayAppend(w)
    /\ todo' = [todo EXCEPT ![w] = <<>>]
    /\ UNCHANGED <<lines, open, chain, complete, opens, faults, edited>>

\* The object is dropped, by its owner or with its process, which may be writing.
Drop(w) ==
    /\ open[w]
    /\ open' = [open EXCEPT ![w] = FALSE]
    /\ todo' = [todo EXCEPT ![w] = <<>>]
    /\ chain' = [chain EXCEPT ![w] = <<>>]
    /\ complete' = [complete EXCEPT ![w] = FALSE]
    /\ \/ UNCHANGED <<lines, faults>>
       \/ MayAppend(w) /\ Len(lines) < LineBound /\ Fault /\ Put(LineOf(w, TRUE))
    /\ UNCHANGED <<opens, edited>>

\* Somebody drops a line, alters its payload or exchanges it with the next one,
\* and computes no digest.
Edit ==
    /\ Fault /\ edited' = TRUE
    /\ \E i \in DOMAIN lines :
          \/ lines' = RemoveAt(lines, i)
          \/ lines' = [lines EXCEPT ![i].event.altered = TRUE]
          \/ i < Len(lines) /\ lines' = [lines EXCEPT ![i] = lines[i + 1], ![i + 1] = lines[i]]
    /\ UNCHANGED <<open, chain, complete, todo, opens>>

Next ==
    \/ \E w \in Writers :
          \/ Construct(w) \/ AppendEvent(w) \/ AppendFails(w) \/ AppendRefused(w)
          \/ Drop(w) \/ \E r \in Research : WriteSession(w, r)
    \/ Edit

Spec == Init /\ [][Next]_vars

-----------------------------------------------------------------------------
(* Properties.                                                               *)

\* What replays is one session, whole and in the order in which it was written,
\* whoever else wrote, failed, died or edited the file.
ReplayIsOneSession ==
    Replays(lines) => \E r \in Research : Events(lines) = Session(r)

\* A log that replays is never added to by anyone who has read it as it is, so that
\* only an edit, or a writer that read it before it was complete, can spoil it.
AddsToNoStory ==
    Replays(lines) /\ ~edited' /\ (\A w \in Writers : open[w] => chain[w] = Events(lines))
        => lines' = lines

\* The log tells one story, and once it has told it nobody goes on.
LogTellsOneStory == []ReplayIsOneSession /\ [][AddsToNoStory]_vars
=============================================================================
