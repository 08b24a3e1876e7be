------------------------------- MODULE MCSandbox -------------------------------
(***************************************************************************)
(* The four models of the sandbox side by side, for one run: the channel   *)
(* (SandboxChannel), the way out of the process (SandboxExit), the back    *)
(* ends (SandboxBackend) and the stack of frames on a serial pool          *)
(* (BridgeFrames).  They share no state: a behaviour picks one of them in  *)
(* its first state and takes the steps of that one only.                   *)
(***************************************************************************)
EXTENDS SandboxChannel

CONSTANTS Main, Others, ExitChildren,   \* SandboxExit: threads, and children started
          RestartBound,                 \* SandboxBackend
          Root, Siblings, PoolWorkers   \* BridgeFrames

\* The two words that _LOCK may hold besides a thread are not threads.
ASSUME SandboxAssumption ==
    /\ {"frame", "free"} \cap ({Main} \cup Others) = {}
    /\ ExitChildren \in Nat /\ RestartBound \in Nat

VARIABLES
    part,
    at, replacing, shut, child, born, alive, busy, lock, live, installed, signal,
        frame, why, counted, toClose, target, caught, over,
    backend, require, linux, inDaemon, where, phase, after, proc, rest, left,
        kernel, reported, ok, restarts, sealed, error, refused,
    frames, turn, source

Exit == INSTANCE SandboxExit WITH
    Workers <- Others, ChildBound <- ExitChildren, pc <- at, restarts <- replacing,
    closed <- shut, todo <- toClose, ended <- over

Backend == INSTANCE SandboxBackend WITH registered <- inDaemon, pc <- where, closed <- sealed

Bridge == INSTANCE BridgeFrames WITH
    Children <- Siblings, Workers <- PoolWorkers, pc <- turn

exitVars ==
    <<at, replacing, shut, child, born, alive, busy, lock, live, installed, signal,
      frame, why, counted, toClose, target, caught, over>>
backendVars ==
    <<backend, require, linux, inDaemon, where, phase, after, proc, rest, left,
      kernel, reported, ok, restarts, sealed, error, refused>>
bridgeVars == <<frames, turn, source>>
mcVars == <<part, vars, exitVars, backendVars, bridgeVars>>

\* The parts a behaviour leaves alone start in one fixed state.
MCInit ==
    /\ part \in {"channel", "exit", "backend", "bridge"}
    /\ Init /\ Exit!Init /\ Backend!Init /\ Bridge!Init
    /\ part # "backend" => backend = "docker" /\ require /\ linux /\ inDaemon

InChannel(A) == part = "channel" /\ A /\ UNCHANGED <<part, exitVars, backendVars, bridgeVars>>
InExit(A) == part = "exit" /\ A /\ UNCHANGED <<part, vars, backendVars, bridgeVars>>
InBackend(A) == part = "backend" /\ A /\ UNCHANGED <<part, vars, exitVars, bridgeVars>>
InBridge(A) == part = "bridge" /\ A /\ UNCHANGED <<part, vars, exitVars, backendVars>>

MCNext ==
    \/ InChannel(Next) \/ InExit(Exit!Next) \/ InBackend(Backend!Next)
    \/ InBridge(Bridge!Next)

\* The fairness of SandboxChannel and of SandboxExit, each within its part.
MCSpec ==
    /\ MCInit /\ [][MCNext]_mcVars
    /\ WF_mcVars(InChannel(Host)) /\ SF_mcVars(InChannel(Overrun))
    /\ WF_mcVars(InExit(Exit!Frame))
    /\ \A t \in {Main} \cup Others : WF_mcVars(InExit(Exit!Owner(t)))

\* All four are of their types.
MCTypeOK == TypeOK /\ Exit!TypeOK /\ Backend!TypeOK /\ Bridge!TypeOK

\* The exit path misses no child that it could have known of.
ExitPathMissesNone == Exit!ExitPathMissesNone

\* The signal handler and the exit hook come to an end.
FrameComesToAnEnd ==
    frame # "none" ~> frame = "none" \/ over \/ (frame = "unregister" /\ lock = Main)

\* A sandbox that is handed out is as isolated as it was asked to be, one that is said
\* to be unavailable leaves nothing behind, and what any other error leaves close kills.
ConstructorsKeepTheirWord == Backend!ConstructorsKeepTheirWord

\* On one worker every FINAL_VAR is read from the sandbox of its own REPL.
FinalVarIsOwn == Bridge!FinalVarIsOwn
=============================================================================
