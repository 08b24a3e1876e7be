---------------------------- MODULE SandboxBackend ----------------------------
(***************************************************************************)
(* The three back ends of rlm0/sandbox: what a constructor checks and      *)
(* starts before it hands a sandbox out, what a restart starts, and what   *)
(* killing one reaches.  A sandbox is two things to the operating system:  *)
(* the process the host started, and what that process stands for or       *)
(* leaves behind: the container behind a docker client, the processes a    *)
(* block forked in a subprocess.                                           *)
(*                                                                         *)
(* The daemon, the runtime and the operating system are the environment:   *)
(* each answer they give is a choice.                                      *)
(***************************************************************************)
EXTENDS Naturals

CONSTANT RestartBound   \* bound on the restarts

VARIABLES
    backend,    \* which class
    require,    \* MicroVMSandbox: require_separate_kernel
    linux,      \* the host is Linux
    registered, \* the daemon knows the microVM runtime
    pc,         \* where the owner's thread is
    phase,      \* what it is up to: building, verifying the kernel, using
    after,      \* where it goes when the child is killed
    proc,       \* the process the host started last
    rest,       \* its container, or what its blocks forked
    left,       \* what an earlier child's blocks forked is still there
    kernel,     \* the kernel behind the newest child
    reported,   \* _guest_kernel, "none" for the empty string
    ok,         \* ok of the kernel probe's result
    restarts,
    closed,     \* _closed
    error,      \* what was raised: SandboxUnavailableError, or anything else
    refused     \* history: the system did not carry out a kill it was asked for

options == <<backend, require, linux, registered>>
os == <<proc, rest, left, kernel, refused>>
evidence == <<reported, ok>>
outcome == <<closed, error>>
vars == <<options, pc, phase, after, os, evidence, restarts, outcome>>

\* The owner, the process and what stands behind it are of the kinds above.
TypeOK ==
    /\ backend \in {"subprocess", "docker", "microvm"}
    /\ require \in BOOLEAN /\ linux \in BOOLEAN /\ registered \in BOOLEAN
    /\ pc \in {"runtimes", "probe", "image", "python", "spawn", "handshake", "ask",
               "judge", "register", "open", "wait", "terminate", "kill", "raised", "closed"}
    /\ phase \in {"build", "verify", "use"}
    /\ after \in {"none", "raised", "closed", "spawn"}
    /\ proc \in {"none", "alive", "dead"} /\ rest \in {"none", "alive"}
    /\ left \in BOOLEAN /\ refused \in BOOLEAN /\ ok \in BOOLEAN
    /\ kernel \in {"none", "own", "hosts"} /\ reported \in {"none", "own", "hosts"}
    /\ restarts \in 0..RestartBound
    /\ closed \in BOOLEAN /\ error \in {"none", "unavailable", "other"}

Init ==
    /\ backend \in {"subprocess", "docker", "microvm"}
    /\ require \in BOOLEAN /\ linux \in BOOLEAN /\ registered \in BOOLEAN
    /\ pc = [subprocess |-> "python", docker |-> "probe", microvm |-> "runtimes"][backend]
    /\ phase = "build" /\ after = "none"
    /\ proc = "none" /\ rest = "none" /\ left = FALSE /\ kernel = "none"
    /\ reported = "none" /\ ok = FALSE /\ restarts = 0 /\ refused = FALSE
    /\ closed = FALSE /\ error = "none"

Goto(from, to) == pc = from /\ pc' = to
Docker == backend # "subprocess"

\* _start is called by _restart_after, which marks the sandbox closed when it raises
\* SandboxUnavailableError, and only then.
Restarting == phase # "build"

RaiseUnavailable(from) ==
    /\ Goto(from, "raised")
    /\ error' = "unavailable" /\ closed' = (closed \/ Restarting)

\* Seeded fault: a restart marks the sandbox closed whatever _start raised.
RaiseOtherClosed(from) ==
    /\ Goto(from, "raised")
    /\ error' = "other" /\ closed' = (closed \/ Restarting)
RaiseOther(from) == Goto(from, "raised") /\ error' = "other" /\ UNCHANGED closed

-----------------------------------------------------------------------------
(* The constructors.                                                         *)

Check(from, to) ==
    /\ Goto(from, to)
    /\ UNCHANGED <<options, phase, after, os, evidence, restarts, outcome>>

Refuse(from) ==
    /\ RaiseUnavailable(from)
    /\ UNCHANGED <<options, phase, after, os, evidence, restarts>>

\* registered_runtimes: no answer counts as no objection, and the probe that
\* follows will say what is wrong.
AskRuntimes ==
    Check("runtimes", "probe") \/ (~registered /\ Refuse("runtimes"))

\* No binary, no daemon, no answer in time.
Probe == Check("probe", "image") \/ Refuse("probe")

\* The image is there, or is pulled if that is allowed and works.
EnsureImage == Check("image", "spawn") \/ Refuse("image")

FindPython == Check("python", "spawn") \/ Refuse("python")

\* The interpreter itself, or the client of a container that is yet to start.
Spawn ==
    /\ Goto("spawn", "handshake")
    /\ proc' = "alive" /\ rest' = "none"
    /\ left' = (left \/ rest = "alive")
    /\ kernel' = IF Docker THEN "none" ELSE "hosts"
    /\ UNCHANGED <<options, phase, after, refused, evidence, restarts, outcome>>

SpawnFails == Refuse("spawn")

\* The daemon starts the container, under a runtime that may fall back to sharing
\* the host's kernel.
ContainerStarts ==
    /\ Docker /\ proc = "alive" /\ rest = "none"
    /\ backend = "microvm" => registered
    /\ rest' = "alive"
    /\ kernel' \in IF backend = "microvm" THEN {"own", "hosts"} ELSE {"hosts"}
    /\ UNCHANGED <<options, pc, phase, after, proc, left, refused, evidence, restarts,
                   outcome>>

Speaks == proc = "alive" /\ kernel # "none"

\* A constructor goes on to the kernel, or returns; a restart goes on to the result of
\* the kernel probe, or to the names the guest has to be told of again.
Handshake ==
    /\ Speaks
    /\ \/ phase = "build" /\ backend # "microvm" /\ Goto("handshake", "open") /\ phase' = "use"
       \/ phase = "build" /\ backend = "microvm" /\ Goto("handshake", "ask") /\ phase' = "verify"
       \/ phase = "verify" /\ Goto("handshake", "judge") /\ UNCHANGED phase
       \/ phase = "use" /\ Goto("handshake", "register") /\ UNCHANGED phase
    /\ UNCHANGED <<options, after, os, evidence, restarts, outcome>>

\* No greeting in time, the end of the stream, another message or another protocol.
HandshakeFails ==
    /\ Goto("handshake", "terminate")
    /\ after' = "raised"
    /\ UNCHANGED <<options, phase, os, evidence, restarts, outcome>>

\* A first line that is no frame is a ProtocolError, and neither _start nor
\* _restart_after catches that: the child is left as it is.
HandshakeGarbled ==
    /\ RaiseOther("handshake")
    /\ UNCHANGED <<options, phase, after, os, evidence, restarts>>

\* The names of _registered, one round trip after the other.
RegisterAgain ==
    /\ Speaks /\ Goto("register", "open")
    /\ UNCHANGED <<options, phase, after, os, evidence, restarts, outcome>>

\* One of them is refused, garbled or unanswered, or the child is gone: execute raises
\* what it was, beside the fresh child.
RegisterAgainFails ==
    /\ RaiseOther("register")
    /\ UNCHANGED <<options, phase, after, os, evidence, restarts>>

-----------------------------------------------------------------------------
(* MicroVMSandbox._verify_separate_kernel, through execute.                  *)

AskKernel ==
    /\ Goto("ask", "judge") /\ Speaks
    /\ ok' = TRUE /\ reported' = kernel
    /\ UNCHANGED <<options, phase, after, os, restarts, outcome>>

\* The probe overruns or its child dies: execute restarts the child and returns a
\* result that is not ok and says nothing.
AskKernelFails ==
    /\ Goto("ask", "terminate")
    /\ after' = "spawn"
    /\ UNCHANGED <<options, phase, os, evidence, restarts, outcome>>

\* No evidence is a refusal too, on any host; the comparison is made on Linux.
Accepts ==
    \/ ~require
    \/ ok /\ reported # "none" /\ (linux => reported # "hosts")

Judge ==
    /\ Goto("judge", IF Accepts THEN "open" ELSE "wait")
    /\ phase' = "use"
    /\ after' = IF Accepts THEN after ELSE "raised"
    /\ closed' = ~Accepts
    /\ UNCHANGED <<options, os, evidence, restarts, error>>

-----------------------------------------------------------------------------
(* Use: blocks that fork, overrun and crash.                                 *)

BlockForks ==
    /\ pc = "open" /\ ~Docker /\ proc = "alive"
    /\ rest' = "alive"
    /\ UNCHANGED <<options, pc, phase, after, proc, left, kernel, refused, evidence,
                   restarts, outcome>>

\* A container goes with its first process, what was forked does not.
ChildGoes ==
    /\ proc' = "dead"
    /\ rest' = IF Docker THEN "none" ELSE rest

ChildDies ==
    /\ pc \in {"open", "ask", "handshake", "register"} /\ proc = "alive"
    /\ ChildGoes
    /\ UNCHANGED <<options, pc, phase, after, left, kernel, refused, evidence, restarts, outcome>>

\* _restart_after, which does not ask for the kernel again.
Lose ==
    /\ Goto("open", "terminate")
    /\ restarts < RestartBound /\ restarts' = restarts + 1
    /\ after' = "spawn"
    /\ UNCHANGED <<options, phase, os, evidence, outcome>>

\* close, by the caller of a sandbox it was handed, also after an execute that raised.
\* A constructor that raises hands out nothing, and the threads that pump the child's
\* output keep __del__ from running while it lives.
Close ==
    /\ phase = "use" /\ ~closed
    /\ Goto("open", "wait") \/ Goto("raised", "wait")
    /\ after' = "closed" /\ closed' = TRUE
    /\ UNCHANGED <<options, phase, os, evidence, restarts, error>>

\* The guest obeys the shutdown and exits, or the two seconds pass.
ShutdownSent ==
    /\ Goto("wait", "terminate")
    /\ ChildGoes \/ UNCHANGED <<proc, rest>>
    /\ UNCHANGED <<options, phase, after, left, kernel, refused, evidence, restarts, outcome>>

-----------------------------------------------------------------------------
(* terminate, as each back end hands it to _kill.                            *)

\* docker rm --force names the container.  It may fail, and the failure is
\* suppressed; the client is killed afterwards.
RemoveContainer ==
    /\ Docker /\ Goto("terminate", "kill")
    /\ \/ rest = "alive" /\ ChildGoes /\ UNCHANGED refused
       \/ refused' = TRUE /\ UNCHANGED <<proc, rest>>
    /\ UNCHANGED <<options, phase, after, left, kernel, evidence, restarts, outcome>>

Killed ==
    /\ proc' = "dead"
    /\ \/ after # "raised" /\ pc' = after /\ UNCHANGED outcome
       \/ after = "raised" /\ RaiseUnavailable(pc)

KillClient ==
    /\ pc = "kill" /\ Killed
    /\ UNCHANGED <<options, phase, after, rest, left, kernel, refused, evidence, restarts>>

\* A process that is gone already is left alone, and so is its group.
KillGroup ==
    /\ ~Docker /\ pc = "terminate" /\ Killed
    /\ \/ proc = "alive" /\ rest' = "none" /\ UNCHANGED refused
       \/ proc = "alive" /\ refused' = TRUE /\ UNCHANGED rest
       \/ proc = "dead" /\ UNCHANGED <<rest, refused>>
    /\ UNCHANGED <<options, phase, after, left, kernel, evidence, restarts>>

Next ==
    \/ AskRuntimes \/ Probe \/ EnsureImage \/ FindPython
    \/ Spawn \/ SpawnFails \/ ContainerStarts
    \/ Handshake \/ HandshakeFails \/ HandshakeGarbled \/ RegisterAgain \/ RegisterAgainFails
    \/ AskKernel \/ AskKernelFails \/ Judge
    \/ BlockForks \/ ChildDies \/ Lose \/ Close \/ ShutdownSent
    \/ RemoveContainer \/ KillClient \/ KillGroup

Spec == Init /\ [][Next]_vars

-----------------------------------------------------------------------------
(* Properties.                                                               *)

\* A microVM sandbox that a constructor hands out on Linux has a kernel of its own,
\* also if the probe overran and a fresh child was started in the middle of it, and
\* if the daemon could not be asked for its runtimes at first.
HandedOutIsIsolated ==
    pc = "open" /\ restarts = 0 /\ backend = "microvm" /\ require /\ linux => kernel = "own"

\* Nothing runs that the host started last, and no container the daemon was able to
\* remove.
Gone == proc # "alive" /\ (Docker /\ ~refused => rest = "none")

\* "No sandbox could be built": whoever is told so, by a constructor or by a restart in
\* the middle of an execute, has nothing to clean up.
UnavailableLeavesNothing == pc = "raised" /\ error = "unavailable" => Gone

\* Any other error may leave the fresh child running, but then the sandbox is not marked
\* closed, so that the close that follows is not an empty one, and it does kill it.
CloseStillCloses ==
    /\ pc = "raised" /\ proc = "alive" => ~closed
    /\ pc = "closed" => Gone

\* What a constructor hands out is what it promised, and what it refuses is gone; what
\* an error leaves behind close removes.
ConstructorsKeepTheirWord ==
    HandedOutIsIsolated /\ UnavailableLeavesNothing /\ CloseStillCloses
=============================================================================
