------------------------------ MODULE SandboxExit ------------------------------
(***************************************************************************)
(* Leaving the process: the registry of live sandboxes in                  *)
(* rlm0/sandbox/cleanup.py, its one lock, the hook that runs at exit and   *)
(* the signal handler that runs on the main thread between any two of its  *)
(* steps, against the threads that create, use, replace and close their    *)
(* sandboxes (_channel.py: _start, execute, _restart_after, close).        *)
(*                                                                         *)
(* A thread owns the sandbox of the same name.  What is said over the      *)
(* pipes is left out (SandboxChannel has it): of a child only whether it   *)
(* lives and whether it is inside a block, which it leaves for no one.     *)
(***************************************************************************)
EXTENDS Naturals, FiniteSets

CONSTANTS
    Main,       \* the thread signals are delivered to
    Workers,    \* the other threads
    ChildBound  \* bound on the children started: the next spawn fails

Thread == {Main} \cup Workers
Sandbox == Thread
Child == 1..ChildBound

VARIABLES
    pc,        \* where each thread is
    restarts,  \* it is there from _restart_after, not from a constructor
    closed,    \* _closed of each sandbox
    child,     \* _child of each sandbox, 0 for None
    born,      \* how many children were started
    alive,     \* those that live
    busy,      \* those inside a block
    lock,      \* _LOCK: a thread, "frame", or "free"
    live,      \* _LIVE
    installed, \* _INSTALLED, and whether by the main thread
    signal,    \* the signal that was sent, or "none"
    frame,     \* where the handler or the exit hook is, on the main thread
    why,       \* which of the two it is
    counted,   \* the registry as its copy began
    todo,      \* the copy, as far as it is not closed yet
    target,    \* the sandbox it is closing
    caught,    \* history: the children of the copied sandboxes
    ended      \* the process is over

threadVars == <<pc, restarts>>
sandboxVars == <<closed, child, born, alive, busy>>
registryVars == <<lock, live, installed>>
frameVars == <<signal, frame, why, counted, todo, target, caught, ended>>
vars == <<threadVars, sandboxVars, registryVars, frameVars>>

Closing == {"mark", "unregister", "discard", "reap", "wait", "clear"}
Locked == {"add", "added", "discard"}

TypeOK ==
    /\ pc \in [Thread -> {"start", "handshake", "register", "open", "exec", "restart",
                          "raised", "done"} \cup Closing \cup Locked]
    /\ restarts \in [Thread -> BOOLEAN]
    /\ closed \in [Sandbox -> BOOLEAN]
    /\ child \in [Sandbox -> Child \cup {0}]
    /\ born \in Child \cup {0}
    /\ alive \subseteq 1..born /\ busy \subseteq alive
    /\ lock \in Thread \cup {"frame", "free"}
    /\ live \subseteq Sandbox
    /\ installed \in {"no", "hook", "handlers"}
    /\ signal \in {"none", "INT", "TERM"}
    /\ frame \in {"none", "copy", "copying", "next", "test"} \cup Closing
    /\ why \in {"none", "signal", "exit"}
    /\ counted \subseteq Sandbox /\ todo \subseteq Sandbox
    /\ target \in Sandbox
    /\ caught \subseteq Child
    /\ ended \in BOOLEAN
    /\ \A t \in Thread : lock = t <=> pc[t] \in Locked

Init ==
    /\ pc = [t \in Thread |-> "start"] /\ restarts = [t \in Thread |-> FALSE]
    /\ closed = [s \in Sandbox |-> FALSE] /\ child = [s \in Sandbox |-> 0]
    /\ born = 0 /\ alive = {} /\ busy = {}
    /\ lock = "free" /\ live = {} /\ installed = "no"
    /\ signal = "none" /\ frame = "none" /\ why = "none"
    /\ counted = {} /\ todo = {} /\ target = Main /\ caught = {}
    /\ ended = FALSE

Runs(t) == ~ended /\ (t = Main => frame = "none")

Goto(t, from, to) ==
    /\ Runs(t) /\ pc[t] = from
    /\ pc' = [pc EXCEPT ![t] = to]

\* _kill: whatever the sandbox holds as its child at this moment.
KillChild(s) == alive' = alive \ {child[s]} /\ busy' = busy \ {child[s]}

-----------------------------------------------------------------------------
(* _start: spawn, handshake, register.  Nothing in it looks at _closed.      *)

Spawn(t) ==
    /\ Goto(t, "start", "handshake")
    /\ born < ChildBound
    /\ born' = born + 1
    /\ child' = [child EXCEPT ![t] = born']
    /\ alive' = alive \cup {born'}
    /\ UNCHANGED <<restarts, closed, busy, registryVars, frameVars>>

SpawnFails(t) ==
    /\ Goto(t, "start", "raised")
    /\ closed' = [closed EXCEPT ![t] = @ \/ restarts[t]]
    /\ UNCHANGED <<restarts, child, born, alive, busy, registryVars, frameVars>>

Greets(t) ==
    /\ Goto(t, "handshake", "register")
    /\ child[t] \in alive
    /\ UNCHANGED <<restarts, sandboxVars, registryVars, frameVars>>

\* No greeting: the child died, was killed meanwhile, or is too slow.
GreetingFails(t) ==
    /\ Goto(t, "handshake", "raised")
    /\ KillChild(t)
    /\ closed' = [closed EXCEPT ![t] = @ \/ restarts[t]]
    /\ UNCHANGED <<restarts, child, born, registryVars, frameVars>>

\* A first line that is no frame raises past _start and _restart_after, and kills
\* nothing.  Of a restart the owner then closes the sandbox, of a constructor nobody has
\* it: the threads that read from the child keep it from __del__.
GreetingGarbled(t) ==
    /\ Goto(t, "handshake", IF restarts[t] THEN "raised" ELSE "done")
    /\ UNCHANGED <<restarts, sandboxVars, registryVars, frameVars>>

RegisterLocks(t) ==
    /\ Goto(t, "register", "add")
    /\ lock = "free" /\ lock' = t
    /\ UNCHANGED <<restarts, sandboxVars, live, installed, frameVars>>

\* The hook is registered by whichever thread is first, and never again; the
\* handlers only if that is the main thread.
RegisterAdds(t) ==
    /\ Goto(t, "add", "added")
    /\ live' = live \cup {t}
    /\ installed' = CASE installed # "no" -> installed
                      [] t = Main -> "handlers"
                      [] OTHER -> "hook"
    /\ UNCHANGED <<restarts, sandboxVars, lock, frameVars>>

\* What a restart still says to the guest is left out: if it raises, the owner goes on
\* as from "open" to its close.
RegisterUnlocks(t) ==
    /\ Goto(t, "added", "open")
    /\ lock' = "free"
    /\ restarts' = [restarts EXCEPT ![t] = FALSE]
    /\ UNCHANGED <<sandboxVars, live, installed, frameVars>>

-----------------------------------------------------------------------------
(* execute and _restart_after.                                               *)

ExecuteBegins(t) ==
    /\ Goto(t, "open", "exec")
    /\ ~closed[t] /\ child[t] \in alive
    /\ busy' = busy \cup {child[t]}
    /\ UNCHANGED <<restarts, closed, child, born, alive, registryVars, frameVars>>

ExecuteReturns(t) ==
    /\ Goto(t, "exec", "open")
    /\ child[t] \in alive
    /\ busy' = busy \ {child[t]}
    /\ UNCHANGED <<restarts, closed, child, born, alive, registryVars, frameVars>>

\* _require_open refuses.
ExecuteRefused(t) ==
    /\ Goto(t, "open", "raised")
    /\ closed[t]
    /\ UNCHANGED <<restarts, sandboxVars, registryVars, frameVars>>

\* The block overruns its deadline, or the child is found dead.
ExecuteLoses(t) ==
    /\ \/ Goto(t, "exec", "restart")
       \/ Goto(t, "open", "restart") /\ ~closed[t] /\ child[t] \notin alive
    /\ UNCHANGED <<restarts, sandboxVars, registryVars, frameVars>>

\* Seeded fault: the lost child is forgotten, not killed.
RestartForgets(t) ==
    /\ Goto(t, "restart", "start")
    /\ restarts' = [restarts EXCEPT ![t] = TRUE]
    /\ UNCHANGED <<sandboxVars, registryVars, frameVars>>

RestartKills(t) ==
    /\ Goto(t, "restart", "start")
    /\ KillChild(t)
    /\ restarts' = [restarts EXCEPT ![t] = TRUE]
    /\ UNCHANGED <<closed, child, born, registryVars, frameVars>>

-----------------------------------------------------------------------------
(* close, by the owner and by the frame: one operator per step, over the     *)
(* sandbox it closes.                                                        *)

MarkClosed(s) == closed' = [closed EXCEPT ![s] = TRUE]

LockFor(p) == lock = "free" /\ lock' = p

\* Seeded fault: unregister returns with the lock held.
DiscardHolds(s) == live' = live \ {s} /\ lock' = lock
Discard(s) == live' = live \ {s} /\ lock' = "free"

OwnerTest(t) ==
    /\ \/ Goto(t, "open", IF closed[t] THEN "done" ELSE "mark")
       \/ Goto(t, "raised", IF closed[t] THEN "done" ELSE "mark")
    /\ UNCHANGED <<restarts, sandboxVars, registryVars, frameVars>>

OwnerMarks(t) ==
    /\ Goto(t, "mark", "unregister")
    /\ MarkClosed(t)
    /\ UNCHANGED <<restarts, child, born, alive, busy, registryVars, frameVars>>

OwnerLocks(t) ==
    /\ Goto(t, "unregister", "discard")
    /\ LockFor(t)
    /\ UNCHANGED <<restarts, sandboxVars, live, installed, frameVars>>

OwnerDiscards(t) ==
    /\ Goto(t, "discard", "reap")
    /\ Discard(t)
    /\ UNCHANGED <<restarts, sandboxVars, installed, frameVars>>

\* With a child: shutdown is sent and the wait for it may take two seconds.
OwnerReaps(t) ==
    /\ Goto(t, "reap", IF child[t] = 0 THEN "clear" ELSE "wait")
    /\ UNCHANGED <<restarts, sandboxVars, registryVars, frameVars>>

OwnerKills(t) ==
    /\ Goto(t, "wait", "clear")
    /\ KillChild(t)
    /\ UNCHANGED <<restarts, closed, child, born, registryVars, frameVars>>

OwnerClears(t) ==
    /\ Goto(t, "clear", "done")
    /\ child' = [child EXCEPT ![t] = 0]
    /\ UNCHANGED <<restarts, closed, born, alive, busy, registryVars, frameVars>>

Owner(t) ==
    \/ Spawn(t) \/ SpawnFails(t) \/ Greets(t) \/ GreetingFails(t)
    \/ GreetingGarbled(t)
    \/ RegisterLocks(t) \/ RegisterAdds(t) \/ RegisterUnlocks(t)
    \/ ExecuteBegins(t) \/ ExecuteReturns(t) \/ ExecuteRefused(t) \/ ExecuteLoses(t)
    \/ RestartKills(t)
    \/ OwnerTest(t) \/ OwnerMarks(t) \/ OwnerLocks(t) \/ OwnerDiscards(t)
    \/ OwnerReaps(t) \/ OwnerKills(t) \/ OwnerClears(t)

-----------------------------------------------------------------------------
(* The main thread is interrupted.                                           *)

\* KeyboardInterrupt, or an error out of the handler, unwinds the main thread: a
\* with block gives the lock back, whoever holds a sandbox closes it, and a close
\* that was cut short is not taken up again.
Unwind ==
    /\ pc' = [pc EXCEPT ![Main] = IF @ \in Closing \cup {"done"} THEN "done" ELSE "raised"]
    /\ lock' = IF lock = Main THEN "free" ELSE lock

\* What no thread executes any more sees the end of its pipe and exits, unless it
\* is inside a block.
ProcessEnds == ended' = TRUE /\ alive' = busy

\* With handlers, the frame starts; without, the default action is taken.
SignalArrives(sig) ==
    /\ ~ended /\ signal = "none" /\ frame = "none"
    /\ signal' = sig
    /\ \/ /\ installed = "handlers"
          /\ frame' = "copy" /\ why' = "signal"
          /\ UNCHANGED <<pc, lock, alive, ended>>
       \/ /\ installed # "handlers" /\ sig = "TERM"
          /\ ProcessEnds
          /\ UNCHANGED <<pc, lock, frame, why>>
       \/ /\ installed # "handlers" /\ sig = "INT"
          /\ Unwind
          /\ UNCHANGED <<alive, frame, why, ended>>
    /\ UNCHANGED <<restarts, closed, child, born, busy, live, installed, counted, todo,
                   target, caught>>

\* The main thread is done and the pools are joined.
ExitBegins ==
    /\ ~ended /\ frame = "none" /\ \A t \in Thread : pc[t] = "done"
    /\ \/ installed = "no" /\ ProcessEnds /\ UNCHANGED <<frame, why>>
       \/ installed # "no" /\ frame' = "copy" /\ why' = "exit" /\ UNCHANGED <<alive, ended>>
    /\ UNCHANGED <<threadVars, closed, child, born, busy, registryVars, signal, counted,
                   todo, target, caught>>

FrameGoto(from, to) ==
    /\ ~ended /\ frame = from
    /\ frame' = to

CopyBegins ==
    /\ FrameGoto("copy", "copying")
    /\ counted' = live
    /\ UNCHANGED <<threadVars, sandboxVars, registryVars, signal, why, todo, target,
                   caught, ended>>

CopyEnds ==
    /\ FrameGoto("copying", "next")
    /\ Cardinality(live) = Cardinality(counted)
    /\ todo' = live
    /\ caught' = caught \cup ({child[s] : s \in live} \ {0})
    /\ UNCHANGED <<threadVars, sandboxVars, registryVars, signal, why, counted, target,
                   ended>>

\* "Set changed size during iteration": nothing is closed.  It leaves the handler
\* as an error of the main thread, and the exit hook as a message.
CopyFails ==
    /\ FrameGoto("copying", "none")
    /\ Cardinality(live) # Cardinality(counted)
    /\ why' = "none"
    /\ \/ why = "signal" /\ Unwind /\ UNCHANGED <<alive, ended>>
       \/ why = "exit" /\ ProcessEnds /\ UNCHANGED <<pc, lock>>
    /\ UNCHANGED <<restarts, closed, child, born, busy, live, installed, signal, counted,
                   todo, target, caught>>

FramePicks ==
    /\ FrameGoto("next", "test")
    /\ \E s \in todo : target' = s /\ todo' = todo \ {s}
    /\ UNCHANGED <<threadVars, sandboxVars, registryVars, signal, why, counted, caught,
                   ended>>

FrameTests ==
    /\ FrameGoto("test", IF closed[target] THEN "next" ELSE "mark")
    /\ UNCHANGED <<threadVars, sandboxVars, registryVars, signal, why, counted, todo,
                   target, caught, ended>>

FrameMarks ==
    /\ FrameGoto("mark", "unregister")
    /\ MarkClosed(target)
    /\ UNCHANGED <<threadVars, child, born, alive, busy, registryVars, signal, why,
                   counted, todo, target, caught, ended>>

\* The lock is not reentrant, and its holder may be the frame this one interrupted.
FrameLocks ==
    /\ FrameGoto("unregister", "discard")
    /\ LockFor("frame")
    /\ UNCHANGED <<threadVars, sandboxVars, live, installed, signal, why, counted, todo,
                   target, caught, ended>>

FrameDiscards ==
    /\ FrameGoto("discard", "reap")
    /\ Discard(target)
    /\ UNCHANGED <<threadVars, sandboxVars, installed, signal, why, counted, todo,
                   target, caught, ended>>

FrameReaps ==
    /\ FrameGoto("reap", IF child[target] = 0 THEN "clear" ELSE "wait")
    /\ UNCHANGED <<threadVars, sandboxVars, registryVars, signal, why, counted, todo,
                   target, caught, ended>>

FrameKills ==
    /\ FrameGoto("wait", "clear")
    /\ KillChild(target)
    /\ UNCHANGED <<threadVars, closed, child, born, registryVars, signal, why, counted,
                   todo, target, caught, ended>>

FrameClears ==
    /\ FrameGoto("clear", "next")
    /\ child' = [child EXCEPT ![target] = 0]
    /\ UNCHANGED <<threadVars, closed, born, alive, busy, registryVars, signal, why,
                   counted, todo, target, caught, ended>>

\* All are closed.  SIGTERM is sent again with its default action, SIGINT goes to
\* the handler that was there before, and the exit hook ends the process.
FrameEnds ==
    /\ FrameGoto("next", "none")
    /\ todo = {}
    /\ why' = "none"
    /\ \/ why = "signal" /\ signal = "INT" /\ Unwind /\ UNCHANGED <<alive, ended>>
       \/ (why = "exit" \/ signal = "TERM") /\ ProcessEnds /\ UNCHANGED <<pc, lock>>
    /\ UNCHANGED <<restarts, closed, child, born, busy, live, installed, signal, counted,
                   todo, target, caught>>

Frame ==
    \/ CopyBegins \/ CopyEnds \/ CopyFails \/ FramePicks \/ FrameTests \/ FrameMarks
    \/ FrameLocks \/ FrameDiscards \/ FrameReaps \/ FrameKills \/ FrameClears
    \/ FrameEnds

Next ==
    \/ \E t \in Thread : Owner(t)
    \/ \E sig \in {"INT", "TERM"} : SignalArrives(sig)
    \/ ExitBegins \/ Frame

\* Threads are scheduled; blocks end or are found overrun.  No signal need come.
Spec ==
    /\ Init /\ [][Next]_vars
    /\ WF_vars(Frame) /\ \A t \in Thread : WF_vars(Owner(t))

-----------------------------------------------------------------------------
(* Properties.                                                               *)

\* A child that belonged to a sandbox when the exit path copied the registry does
\* not outlive the process, whatever its owner was doing: closing it, losing it,
\* replacing it.  What may outlive is what was started or registered later, and
\* everything if the copy failed.
CaughtIsKilled == ended => caught \cap alive = {}

\* A sandbox in whose child a block is running is in the registry, or was closed by
\* the exit path, through every restart: the exit path misses none for good.
ExecutingIsTracked == \A t \in Thread : pc[t] = "exec" => t \in live \/ closed[t]

\* The exit path misses no child that it could have known of.
ExitPathMissesNone == CaughtIsKilled /\ ExecutingIsTracked

\* The handler and the exit hook come to an end, unless the handler interrupted the
\* main thread inside register or unregister and asks for the lock held there.
FrameComesToAnEnd ==
    frame # "none" ~> frame = "none" \/ ended \/ (frame = "unregister" /\ lock = Main)

\* "Signal handlers chain to whatever was installed before": a handler that has begun
\* ends, in the one before it or in an error, and the signal is not swallowed.
SignalIsPassedOn == why = "signal" ~> why = "none"
=============================================================================
