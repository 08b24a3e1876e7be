----------------------------- MODULE BridgeFrames -----------------------------
(***************************************************************************)
(* _Bridge in rlm0/assembly.py: the one object that is prompter, parser    *)
(* and observation formatter of every REPL of a run.  What it must         *)
(* remember about a REPL it keeps in a frame, the frames in a stack, and   *)
(* every call works on the top of the stack.  A REPL pushes its frame when *)
(* its sandbox is made and pops it when it is closed; the children of a    *)
(* batch do so on the threads of a pool (runtime.py, _service_sub_batch).  *)
(*                                                                         *)
(* A step is one call into the bridge; calls of different threads          *)
(* interleave.  Of a frame only what decides an answer is kept.            *)
(***************************************************************************)
EXTENDS Naturals, SequencesExt

CONSTANTS
    Children,   \* the children of the batch
    Root,       \* the REPL whose block asks for the batch
    Workers     \* threads of the pool

Repl == {Root} \cup Children

VARIABLES
    frames,   \* _frames: whose sandbox, and code_has_run
    pc,       \* where each REPL's thread is
    source    \* history: the REPL each REPL's answer was read from, or "none"

vars == <<frames, pc, source>>

Frame == [sandbox : Repl, codeHasRun : BOOLEAN]

\* Frames name the REPLs they belong to, and a REPL is at one point of its turn.
TypeOK ==
    /\ frames \in Seq(Frame)
    /\ pc \in [Repl -> {"idle", "opening", "turn", "observe", "batch", "close", "closed"}]
    /\ source \in [Repl -> Repl \cup {"none"}]

Init ==
    /\ frames = <<>>
    /\ pc = [r \in Repl |-> "idle"]
    /\ source = [r \in Repl |-> "none"]

Goto(r, from, to) == pc[r] = from /\ pc' = [pc EXCEPT ![r] = to]

\* _frame: the REPL "currently being driven".
Top == Len(frames)

Busy == {c \in Children : pc[c] \notin {"idle", "closed"}}

\* A child needs a worker of the pool while the root's block waits for the batch.
MayStart(r) == r = Root \/ (pc[Root] = "batch" /\ Cardinality(Busy) < Workers)

\* The factory makes the sandbox, whose port pushes a frame.
Push(r) ==
    /\ MayStart(r)
    /\ Goto(r, "idle", "opening")
    /\ frames' = Append(frames, [sandbox |-> r, codeHasRun |-> FALSE])
    /\ UNCHANGED source

Opening(r) ==
    /\ Goto(r, "opening", "turn")
    /\ frames' = [frames EXCEPT ![Top].codeHasRun = FALSE]
    /\ UNCHANGED source

\* The turn has a block: it runs in the REPL's own sandbox.
RunsCode(r) ==
    /\ Goto(r, "turn", "observe")
    /\ UNCHANGED <<frames, source>>

\* The root's block asks for the batch, once.
Batch ==
    /\ pc[Root] = "turn" /\ \A c \in Children : pc[c] = "idle"
    /\ Goto(Root, "turn", "batch")
    /\ UNCHANGED <<frames, source>>

Join ==
    /\ \A c \in Children : pc[c] = "closed"
    /\ Goto(Root, "batch", "observe")
    /\ UNCHANGED <<frames, source>>

Format(r) ==
    /\ Goto(r, "observe", "turn")
    /\ frames' = [frames EXCEPT ![Top].codeHasRun = TRUE]
    /\ UNCHANGED source

\* The turn ends with FINAL_VAR: accepted if code has run, and read from the
\* sandbox of the frame.  Rejected or unbound, it changes nothing kept here.
FinalVar(r) ==
    /\ Goto(r, "turn", "close")
    /\ frames[Top].codeHasRun
    /\ source' = [source EXCEPT ![r] = frames[Top].sandbox]
    /\ UNCHANGED frames

\* The turns run out.
GivesUp(r) ==
    /\ Goto(r, "turn", "close")
    /\ UNCHANGED <<frames, source>>

\* Seeded fault: a REPL that closes leaves its frame behind.
PopForgotten(r) ==
    /\ Goto(r, "close", "closed")
    /\ UNCHANGED <<frames, source>>

\* close: pop scans from the top for the REPL's own frame, wherever it is.
Pop(r) ==
    /\ Goto(r, "close", "closed")
    /\ LET own == {i \in 1..Top : frames[i].sandbox = r}
       IN frames' = IF own = {} THEN frames ELSE RemoveAt(frames, Max(own))
    /\ UNCHANGED source

Next ==
    \/ Batch \/ Join
    \/ \E r \in Repl :
          \/ Push(r) \/ Opening(r) \/ RunsCode(r) \/ Format(r)
          \/ FinalVar(r) \/ GivesUp(r) \/ Pop(r)

Spec == Init /\ [][Next]_vars

\* _read_variable resolves FINAL_VAR "against the REPL that produced it": the
\* answer of a REPL is read from its own sandbox, whatever its siblings do.
FinalVarIsOwn == \A r \in Repl : source[r] \in {r, "none"}
=============================================================================
