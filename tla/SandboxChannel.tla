---------------------------- MODULE SandboxChannel ----------------------------
(***************************************************************************)
(* One sandbox of rlm0/sandbox: the host's half (_channel.py), the guest   *)
(* in its child process (_guest.py), the thread that pumps the child's     *)
(* output into the host's inbox, and the _SandboxPort of assembly.py that  *)
(* the runtime holds.  The host speaks request and reply over two pipes;   *)
(* while a block runs the guest may turn the direction round with a host   *)
(* call.  When a block overruns or the child dies, the host kills what is  *)
(* left and starts a fresh child under the same object.                    *)
(*                                                                         *)
(* The caller is a REPL of the runtime: one thread, which closes the       *)
(* sandbox after the first call that raises.  Values are left out: of a    *)
(* variable only whether it is bound is kept.                              *)
(***************************************************************************)
EXTENDS Naturals, Sequences

CONSTANTS
    Var,          \* variables that the host or the block may bind
    Name,         \* host call names
    RequestBound, \* bound on the requests of the caller
    ChildBound    \* bound on the children started: the next spawn fails

ASSUME ChannelAssumption ==
    RequestBound \in Nat \ {0} /\ ChildBound \in Nat \ {0}

Child == 1..ChildBound

VARIABLES
    pc,          \* where the host's thread is
    op,          \* the call it is in: "exec" is the port's _executing
    arg,         \* the variable or name of a control request
    request,     \* the last id drawn from _ids
    closed,      \* _closed
    inbox,       \* _inbox, the queue of the newest child
    gen,         \* how many children were started; the last one is _child
    asked,       \* port: names the runtime wants exposed
    bound,       \* _host_calls: names the host can service
    registered,  \* _registered: names the guest acknowledged
    todo,        \* names a restart has still to register again
    known,       \* history: the variables the caller was told are bound
    guest,       \* state of the newest child
    running,     \* the id of the block it runs
    env,         \* _env: the variables bound in it
    shims,       \* the host calls injected in it
    stdin,       \* what it has not read yet
    stdout,      \* what it wrote and its pump has not read
    hand,        \* what the pump of each child has read and not yet put
    ended        \* the newest child's pump has seen the end of its stream

hostVars == <<pc, op, arg, request, closed, known>>
portVars == <<asked, bound, registered, todo>>
guestVars == <<guest, running, env, shims>>
pipeVars == <<stdin, stdout, hand, ended, inbox>>
vars == <<hostVars, portVars, gen, guestVars, pipeVars>>

Request == [kind : {"exec", "set_var", "get_var", "register", "host_result"},
            id : Nat, arg : Var \cup Name \cup {"none"}]

Line == [kind : {"ready", "host_call", "result", "ack", "value", "fatal", "eof"},
         id : Nat, names : SUBSET Var, from : Child]

TypeOK ==
    /\ pc \in {"start", "handshake", "register", "idle", "exec", "serve", "control",
               "restart", "raised", "closed"}
    /\ op \in {"none", "exec", "set", "get", "register"}
    /\ arg \in Var \cup Name \cup {"none"}
    /\ request \in Nat
    /\ closed \in BOOLEAN
    /\ inbox \in Seq(Line)
    /\ gen \in {0} \cup Child
    /\ asked \subseteq Name /\ bound \subseteq Name
    /\ registered \subseteq asked \cap bound
    /\ todo \subseteq registered
    /\ known \subseteq Var
    /\ guest \in {"none", "starting", "ready", "running", "waiting", "dead"}
    /\ running \in Nat
    /\ env \subseteq Var /\ shims \subseteq Name
    /\ stdin \in Seq(Request)
    /\ stdout \in Seq(Line)
    /\ hand \in [Child -> Seq(Line)]
    /\ ended \in BOOLEAN

Init ==
    /\ pc = "start" /\ op = "none" /\ arg = "none"
    /\ request = 0 /\ closed = FALSE
    /\ known = {}
    /\ asked = {} /\ bound = {} /\ registered = {} /\ todo = {}
    /\ gen = 0
    /\ guest = "none" /\ running = 0 /\ env = {} /\ shims = {}
    /\ stdin = <<>> /\ stdout = <<>> /\ inbox = <<>>
    /\ hand = [g \in Child |-> <<>>] /\ ended = FALSE

Alive == guest \notin {"none", "dead"}

\* _executing: set for as long as execute runs, host calls and restart included.
\* Seeded fault: it is set only while the channel is read.
ExecutingWhileReading == pc = "exec"
Executing == op = "exec"

Free == pc = "idle" /\ ~closed /\ request < RequestBound

-----------------------------------------------------------------------------
(* The pump of each child, and the end of one.                               *)

Eof(g) == [kind |-> "eof", id |-> 0, names |-> {}, from |-> g]

PumpRead ==
    /\ gen > 0 /\ hand[gen] = <<>> /\ stdout # <<>>
    /\ hand' = [hand EXCEPT ![gen] = <<Head(stdout)>>]
    /\ stdout' = Tail(stdout)
    /\ UNCHANGED <<hostVars, portVars, gen, guestVars, stdin, ended, inbox>>

PumpEnd ==
    /\ guest = "dead" /\ ~ended /\ hand[gen] = <<>> /\ stdout = <<>>
    /\ hand' = [hand EXCEPT ![gen] = <<Eof(gen)>>]
    /\ ended' = TRUE
    /\ UNCHANGED <<hostVars, portVars, gen, guestVars, stdin, stdout, inbox>>

\* self._inbox is looked up for every line: a late pump finds the new queue.
PumpPut(g) ==
    /\ hand[g] # <<>>
    /\ inbox' = Append(inbox, Head(hand[g]))
    /\ hand' = [hand EXCEPT ![g] = Tail(@)]
    /\ UNCHANGED <<hostVars, portVars, gen, guestVars, stdin, stdout, ended>>

\* Closing the stream leaves the pump what it already holds, then the end.
DropStream ==
    /\ stdin' = <<>> /\ stdout' = <<>>
    /\ hand' = IF gen = 0 \/ ended THEN hand
               ELSE [hand EXCEPT ![gen] = Append(@, Eof(gen))]
    /\ ended' = TRUE

\* Seeded fault: terminate raises and the suppressed error hides it.
KillStreamsOnly == DropStream /\ UNCHANGED guestVars

\* Everything that was bound in the guest goes with it.
Gone ==
    /\ guest' = IF gen = 0 THEN "none" ELSE "dead"
    /\ running' = 0 /\ env' = {} /\ shims' = {}

Kill == DropStream /\ Gone

-----------------------------------------------------------------------------
(* The host: _start, and _restart_after around it.                           *)

Send(kind, a) ==
    stdin' = Append(stdin, [kind |-> kind, id |-> request', arg |-> a])

\* A new child and a new queue, or no child at all.
Start ==
    /\ pc = "start"
    /\ inbox' = <<>>
    /\ \/ /\ gen < ChildBound
          /\ gen' = gen + 1
          /\ guest' = "starting"
          /\ ended' = FALSE
          /\ pc' = "handshake"
          /\ UNCHANGED <<op, closed, running, env, shims, stdin, stdout, hand>>
       \/ /\ pc' = "raised"
          /\ closed' = Executing
          /\ op' = "none"
          /\ UNCHANGED <<gen, guestVars, stdin, stdout, hand, ended>>
    /\ UNCHANGED <<arg, request, known, portVars>>

\* Seeded fault: a restart leaves the fresh guest without its host calls.
ToRegisterNothing == {}
ToRegister == registered

Handshake ==
    /\ pc = "handshake"
    /\ inbox # <<>> /\ Head(inbox).kind = "ready"
    /\ inbox' = Tail(inbox)
    /\ pc' = IF Executing THEN "register" ELSE "idle"
    /\ todo' = IF Executing THEN ToRegister ELSE {}
    /\ UNCHANGED <<op, arg, request, closed, known, asked, bound, registered, gen,
                   guestVars, stdin, stdout, hand, ended>>

\* The first line is another message, or none comes in time, or the child is gone.
HandshakeFails ==
    /\ pc = "handshake"
    /\ pc' = "raised"
    /\ closed' = Executing
    /\ op' = "none"
    /\ Kill
    /\ UNCHANGED <<arg, request, known, portVars, gen, inbox>>

\* The first line is no frame at all, a torn one of the child before included: a
\* ProtocolError, which nobody catches on its way out.  The child is not killed and the
\* sandbox stays open, for the close of whoever has it.
HandshakeGarbled ==
    /\ pc = "handshake"
    /\ pc' = "raised" /\ op' = "none"
    /\ UNCHANGED <<arg, request, closed, known, portVars, gen, guestVars, pipeVars>>

Restart ==
    /\ pc = "restart"
    /\ pc' = "start"
    /\ Kill
    /\ UNCHANGED <<op, arg, request, closed, known, portVars, gen, inbox>>

RegisterAgain ==
    /\ pc = "register"
    /\ \E n \in todo :
          /\ todo' = todo \ {n}
          /\ request' = request + 1
          /\ arg' = n
          /\ \/ Alive /\ Send("register", n) /\ pc' = "control" /\ op' = op
             \/ ~Alive /\ pc' = "raised" /\ op' = "none" /\ UNCHANGED stdin
    /\ UNCHANGED <<closed, known, asked, bound, registered, gen, guestVars, stdout,
                   hand, ended, inbox>>

\* The failed ExecResult that says every variable is gone.
ReportLoss ==
    /\ pc = "register" /\ todo = {}
    /\ pc' = "idle" /\ op' = "none"
    /\ known' = {}
    /\ UNCHANGED <<arg, request, closed, portVars, gen, guestVars, pipeVars>>

-----------------------------------------------------------------------------
(* The host: execute.                                                        *)

Execute ==
    /\ Free
    /\ op' = "exec"
    /\ request' = request + 1
    /\ \/ Alive /\ Send("exec", "none") /\ pc' = "exec"
       \/ ~Alive /\ pc' = "restart" /\ UNCHANGED stdin
    /\ UNCHANGED <<arg, closed, known, portVars, gen, guestVars, stdout, hand, ended,
                   inbox>>

\* Seeded fault: any result is taken for the one that was asked for.
AnswersAny(m) == m.kind = "result"
Answers(m) == m.kind = "result" /\ m.id = request

\* Run the bound function on the host and hand back its result.  The function may
\* read a variable by name (GetVariable below).
Serve ==
    /\ pc = "exec"
    /\ inbox # <<>> /\ Head(inbox).kind = "host_call"
    /\ inbox' = Tail(inbox)
    /\ pc' = "serve"
    /\ UNCHANGED <<op, arg, request, closed, known, portVars, gen, guestVars, stdin,
                   stdout, hand, ended>>

ServeReply ==
    /\ pc = "serve"
    /\ request' = request
    /\ \/ Alive /\ Send("host_result", "none") /\ pc' = "exec"
       \/ ~Alive /\ pc' = "restart" /\ UNCHANGED stdin
    /\ UNCHANGED <<op, arg, closed, known, portVars, gen, guestVars, stdout, hand,
                   ended, inbox>>

Return ==
    /\ pc = "exec"
    /\ inbox # <<>> /\ Answers(Head(inbox))
    /\ inbox' = Tail(inbox)
    /\ known' = Head(inbox).names
    /\ pc' = "idle" /\ op' = "none"
    /\ UNCHANGED <<arg, request, closed, portVars, gen, guestVars, stdin, stdout,
                   hand, ended>>

\* The end of the stream, a fatal, or a message that does not belong here.
Crash ==
    /\ pc = "exec"
    /\ inbox # <<>> /\ Head(inbox).kind # "host_call" /\ ~Answers(Head(inbox))
    /\ pc' = "restart"
    /\ UNCHANGED <<op, arg, request, closed, known, portVars, gen, guestVars, pipeVars>>

\* Seeded fault: execute waits for as long as the guest's own timer lets it.
DeadlinesControl == {"control"}
Deadlines == {"exec", "control"}

\* _recv finds the deadline passed.
Overrun ==
    /\ pc \in Deadlines
    /\ pc' = IF pc = "exec" THEN "restart" ELSE "raised"
    /\ op' = IF pc = "exec" THEN op ELSE "none"
    /\ UNCHANGED <<arg, request, closed, known, portVars, gen, guestVars, pipeVars>>

-----------------------------------------------------------------------------
(* The host: control round trips, and the port's two ways to a registration. *)

RoundTrip(call, kind, a) ==
    /\ request' = request + 1
    /\ arg' = a
    /\ \/ Alive /\ Send(kind, a) /\ pc' = "control" /\ op' = call
       \/ ~Alive /\ pc' = "raised" /\ op' = "none" /\ UNCHANGED stdin

SetVariable(x) ==
    /\ Free
    /\ RoundTrip("set", "set_var", x)
    /\ UNCHANGED <<closed, known, portVars, gen, guestVars, stdout, hand, ended, inbox>>

\* While a block runs the port answers from its own copies, or refuses.
GetVariable(x) ==
    /\ Free \/ pc = "serve"
    /\ ~Executing
    /\ RoundTrip("get", "get_var", x)
    /\ UNCHANGED <<closed, known, portVars, gen, guestVars, stdout, hand, ended, inbox>>

\* Seeded fault: the name is exposed whether or not the host can service it.
SettlesUnbound(n) == n \in asked' /\ n \notin registered
Settles(n) == n \in asked' /\ n \in bound' /\ n \notin registered

\* _settle_registration: whichever half comes second registers the name.
SettleRegistration(n) ==
    /\ \/ Settles(n) /\ RoundTrip("register", "register", n)
       \/ ~Settles(n) /\ UNCHANGED <<request, arg, pc, op, stdin>>
    /\ UNCHANGED <<closed, known, registered, todo, gen, guestVars, stdout, hand,
                   ended, inbox>>

RegisterHostCall(n) ==
    /\ Free
    /\ asked' = asked \cup {n} /\ bound' = bound
    /\ SettleRegistration(n)

BindHostCall(n) ==
    /\ Free
    /\ bound' = bound \cup {n} /\ asked' = asked
    /\ SettleRegistration(n)

Acknowledges(m) ==
    /\ m.kind = IF op = "get" THEN "value" ELSE "ack"
    /\ m.id = request

ControlReply ==
    /\ pc = "control"
    /\ inbox # <<>> /\ Acknowledges(Head(inbox))
    /\ inbox' = Tail(inbox)
    /\ pc' = IF Executing THEN "register" ELSE "idle"
    /\ op' = IF Executing THEN op ELSE "none"
    /\ known' = IF op = "set" THEN known \cup {arg} ELSE known
    /\ registered' = IF op = "register" THEN registered \cup {arg} ELSE registered
    /\ arg' = "none"
    /\ UNCHANGED <<request, closed, asked, bound, todo, gen, guestVars, stdin,
                   stdout, hand, ended>>

ControlRaises ==
    /\ pc = "control"
    /\ inbox # <<>> /\ ~Acknowledges(Head(inbox))
    /\ pc' = "raised" /\ op' = "none"
    /\ UNCHANGED <<arg, request, closed, known, portVars, gen, guestVars, pipeVars>>

\* close, by the caller or after a raise; a second one does nothing.
Close ==
    /\ pc \in {"idle", "raised"}
    /\ ~closed
    /\ closed' = TRUE
    /\ pc' = "closed"
    /\ Kill
    /\ UNCHANGED <<op, arg, request, known, portVars, gen, inbox>>

-----------------------------------------------------------------------------
(* The guest.                                                                *)

Say(kind, id) ==
    stdout' = Append(stdout, [kind |-> kind, id |-> id, names |-> env', from |-> gen])

Boot ==
    /\ guest = "starting"
    /\ guest' = "ready" /\ env' = env
    /\ Say("ready", 0)
    /\ UNCHANGED <<hostVars, portVars, gen, running, shims, stdin, hand, ended, inbox>>

TakeExec ==
    /\ guest = "ready" /\ stdin # <<>> /\ Head(stdin).kind = "exec"
    /\ guest' = "running" /\ running' = Head(stdin).id
    /\ stdin' = Tail(stdin)
    /\ UNCHANGED <<hostVars, portVars, gen, env, shims, stdout, hand, ended, inbox>>

\* A block binds, rebinds and deletes what it likes.
RunCode ==
    /\ guest = "running"
    /\ \E after \in SUBSET Var : after # env /\ env' = after
    /\ UNCHANGED <<hostVars, portVars, gen, guest, running, shims, pipeVars>>

CallHost ==
    /\ guest = "running" /\ shims # {}
    /\ guest' = "waiting" /\ env' = env
    /\ Say("host_call", 0)
    /\ UNCHANGED <<hostVars, portVars, gen, running, shims, stdin, hand, ended, inbox>>

\* The reply resumes the block; anything else raises inside it.
HostReply ==
    /\ guest = "waiting" /\ stdin # <<>>
    /\ guest' = "running"
    /\ stdin' = Tail(stdin)
    /\ UNCHANGED <<hostVars, portVars, gen, running, env, shims, stdout, hand, ended,
                   inbox>>

\* The block ends, fails, exits, or is interrupted by the guest's own timer.
Finish ==
    /\ guest = "running"
    /\ guest' = "ready" /\ running' = 0 /\ env' = env
    /\ Say("result", running)
    /\ UNCHANGED <<hostVars, portVars, gen, shims, stdin, hand, ended, inbox>>

TakeControl ==
    /\ guest = "ready" /\ stdin # <<>>
    /\ LET m == Head(stdin) IN
       /\ m.kind \in {"set_var", "get_var", "register"}
       /\ env' = IF m.kind = "set_var" THEN env \cup {m.arg} ELSE env
       /\ shims' = IF m.kind = "register" THEN shims \cup {m.arg} ELSE shims
       /\ Say(IF m.kind = "get_var" THEN "value" ELSE "ack", m.id)
    /\ stdin' = Tail(stdin)
    /\ UNCHANGED <<hostVars, portVars, gen, guest, running, hand, ended, inbox>>

\* main's last resort: the names or the value a block left cannot be rendered.
Fatal ==
    /\ \/ guest = "running"
       \/ guest = "ready" /\ stdin # <<>> /\ Head(stdin).kind = "get_var"
    /\ Gone
    /\ Say("fatal", 0)
    /\ stdin' = <<>>
    /\ UNCHANGED <<hostVars, portVars, gen, hand, ended, inbox>>

\* The child is killed from outside, exits at once or is out of memory.  One that
\* dies before its greeting is a HandshakeFails.
Die ==
    /\ guest \in {"ready", "running", "waiting"}
    /\ Gone
    /\ stdin' = <<>>
    /\ UNCHANGED <<hostVars, portVars, gen, stdout, hand, ended, inbox>>

-----------------------------------------------------------------------------
(* The specification.                                                        *)

Host ==
    \/ Start \/ Handshake \/ HandshakeFails \/ HandshakeGarbled
    \/ Restart \/ RegisterAgain \/ ReportLoss
    \/ Serve \/ ServeReply \/ Return \/ Crash \/ Overrun
    \/ ControlReply \/ ControlRaises

Caller ==
    \/ Execute \/ Close
    \/ \E x \in Var : SetVariable(x) \/ GetVariable(x)
    \/ \E n \in Name : RegisterHostCall(n) \/ BindHostCall(n)

Guest ==
    \/ Boot \/ TakeExec \/ RunCode \/ CallHost \/ HostReply \/ Finish \/ TakeControl
    \/ Fatal \/ Die

\* What is put after close nobody reads.
Pump == pc # "closed" /\ (PumpRead \/ PumpEnd \/ \E g \in Child : PumpPut(g))

Next == Host \/ Caller \/ Guest \/ Pump

\* The host's thread goes on whenever it can.  A deadline that is set passes, even
\* if host calls keep extending it: they extend it by no more than they took.
\* Nothing is assumed of the guest.
Spec == Init /\ [][Next]_vars /\ WF_vars(Host) /\ SF_vars(Overrun)

-----------------------------------------------------------------------------
(* Properties.                                                               *)

Settled == pc = "idle" /\ guest # "dead"

\* What the caller was last told is bound is what is bound: no result of another
\* block or of an earlier child is taken for the answer, and no restart is silent.
KnownIsBound == Settled => known = env

\* Every name that the runtime asked for and the host can service is callable in
\* the guest that is there now, whichever half came first and however many
\* children were lost.
HostCallsReachGuest == Settled => shims = asked \cap bound

\* A guest that waits for its host call hears nothing but the reply: no control
\* request is sent into the middle of a block.
GuestHearsOnlyItsReply ==
    guest = "waiting" /\ stdin # <<>> => Head(stdin).kind = "host_result"

\* A sandbox that calls itself closed has no live child, also when it closed
\* because a restart failed, after which close does nothing.
NothingOutlives == closed => ~Alive

\* execute returns or raises whatever the block does, host calls without end and
\* loops that never reach the interpreter included.
ExecuteReturns == op = "exec" ~> op # "exec"

\* The greeting a restart reads was spoken by the child it has just started, so
\* that a block which only overran does not end the run.
GreetingIsFresh ==
    pc = "handshake" /\ inbox # <<>> => Head(inbox).from = gen
=============================================================================
