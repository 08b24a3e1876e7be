---------------------------- MODULE MCSandboxProofs ----------------------------
(***************************************************************************)
(* What host, port and guest of one sandbox keep between them, for any     *)
(* number of requests and children, any variables and names, any lines     *)
(* that wait, and late pumps: the invariant of the channel says of every   *)
(* line on its way what has become of the guest since it was said.  Then   *)
(* what the stack of frames, the way out of the process and the back ends  *)
(* keep, for any siblings, threads and restarts, and the types of all four.*)
(***************************************************************************)
EXTENDS MCSandbox, FiniteSetTheorems, TLAPS

-----------------------------------------------------------------------------
(* What is on its way, each way.                                             *)

Lines(s) == {s[i] : i \in 1..Len(s)}

\* From the guest: in a pipe, in the hand of a pump, late or not, or in the inbox.
InFlight == Lines(inbox) \cup Lines(stdout) \cup UNION {Lines(hand[g]) : g \in Child}

\* To the guest: what it may not be sent in the middle of a block.
IsRequest(r) == r.kind # "host_result"
Requests == {r \in Lines(stdin) : IsRequest(r)}
AtMostOne ==
    \A i, j \in 1..Len(stdin) : IsRequest(stdin[i]) /\ IsRequest(stdin[j]) => i = j

LEMMA LinesAppend ==
    ASSUME NEW S, NEW s \in Seq(S), NEW e \in S
    PROVE  Lines(Append(s, e)) = Lines(s) \cup {e} /\ Append(s, e) \in Seq(S)
<1> DEFINE t == Append(s, e)
<1>1. Len(t) = Len(s) + 1 /\ t[Len(s) + 1] = e /\ \A i \in 1..Len(s) : t[i] = s[i]
  OBVIOUS
<1>2. Len(s) \in Nat OBVIOUS
<1> HIDE DEF t
<1>3. Lines(t) = Lines(s) \cup {e} BY <1>1, <1>2 DEF Lines
<1>4. QED BY <1>3 DEF t

LEMMA LinesTail ==
    ASSUME NEW S, NEW s \in Seq(S), s # <<>>
    PROVE  /\ Head(s) \in Lines(s) /\ Head(s) \in S
           /\ Tail(s) \in Seq(S) /\ Lines(Tail(s)) \subseteq Lines(s)
<1>1. Len(s) \in Nat /\ Len(s) >= 1 /\ Head(s) = s[1] /\ s[1] \in S OBVIOUS
<1>2. Tail(s) \in Seq(S) /\ Len(Tail(s)) = Len(s) - 1
      /\ \A i \in 1..(Len(s) - 1) : Tail(s)[i] = s[i + 1]
  OBVIOUS
<1>3. \A i \in 1..(Len(s) - 1) : i + 1 \in 1..Len(s) BY <1>1
<1>4. Lines(Tail(s)) \subseteq Lines(s) BY <1>1, <1>2, <1>3 DEF Lines
<1>5. QED BY <1>1, <1>2, <1>4 DEF Lines

LEMMA LinesType == ASSUME NEW S, NEW s \in Seq(S) PROVE Lines(s) \subseteq S
  BY DEF Lines

\* Nothing comes from the guest but what it says and the end of its stream.
LEMMA LineTaken ==
    ASSUME TypeOK, inbox # <<>>, inbox' = Tail(inbox), UNCHANGED <<stdout, hand>>
    PROVE  Head(inbox) \in InFlight /\ Head(inbox) \in Line /\ InFlight' \subseteq InFlight
           /\ inbox' \in Seq(Line)
<1>1. inbox \in Seq(Line) BY DEF TypeOK
<1>2. Lines(inbox)' = Lines(Tail(inbox)) BY DEF Lines
<1>3. Lines(stdout)' = Lines(stdout) /\ \A g \in Child : Lines(hand'[g]) = Lines(hand[g])
  BY DEF Lines
<1>4. QED BY <1>1, <1>2, <1>3, LinesTail DEF InFlight

LEMMA LineSaid ==
    ASSUME TypeOK, NEW m \in Line, stdout' = Append(stdout, m), UNCHANGED <<inbox, hand>>
    PROVE  InFlight' = InFlight \cup {m} /\ stdout' \in Seq(Line)
<1>1. stdout \in Seq(Line) BY DEF TypeOK
<1>2. Lines(stdout)' = Lines(Append(stdout, m)) BY DEF Lines
<1>3. Lines(inbox)' = Lines(inbox) /\ \A g \in Child : Lines(hand'[g]) = Lines(hand[g])
  BY DEF Lines
<1>4. QED BY <1>1, <1>2, <1>3, LinesAppend DEF InFlight

LEMMA StreamDropped ==
    ASSUME TypeOK, DropStream, inbox' = inbox
    PROVE  /\ InFlight' \subseteq InFlight \cup {Eof(gen)}
           /\ stdin' = <<>> /\ stdout' = <<>> /\ hand' \in [Child -> Seq(Line)] /\ ended' = TRUE
<1>1. stdin' = <<>> /\ stdout' = <<>> /\ ended' = TRUE BY DEF DropStream
<1>2. Lines(stdout)' = {} BY <1>1 DEF Lines
<1>3. CASE hand' = hand
  BY <1>1, <1>2, <1>3 DEF InFlight, Lines, TypeOK
<1>4. CASE gen # 0 /\ hand' = [hand EXCEPT ![gen] = Append(@, Eof(gen))]
  <2>1. gen \in Child /\ Eof(gen) \in Line /\ hand[gen] \in Seq(Line)
    BY <1>4, ChannelAssumption DEF TypeOK, Eof, Line, Child
  <2>2. Lines(Append(hand[gen], Eof(gen))) = Lines(hand[gen]) \cup {Eof(gen)}
        /\ Append(hand[gen], Eof(gen)) \in Seq(Line)
    BY <2>1, LinesAppend
  <2>3. hand' \in [Child -> Seq(Line)] /\ hand'[gen] = Append(hand[gen], Eof(gen))
        /\ \A g \in Child \ {gen} : hand'[g] = hand[g]
    BY <1>4, <2>1, <2>2 DEF TypeOK
  <2>4. \A g \in Child : Lines(hand'[g]) \subseteq Lines(hand[g]) \cup {Eof(gen)}
    BY <2>2, <2>3
  <2>5. Lines(inbox)' = Lines(inbox) BY DEF Lines
  <2>6. QED BY <1>1, <1>2, <2>3, <2>4, <2>5 DEF InFlight
<1>5. QED BY <1>3, <1>4 DEF DropStream

LEMMA PumpMoves ==
    ASSUME TypeOK, gen = 0 => guest = "none", Pump
    PROVE  InFlight' \subseteq InFlight \cup {Eof(gen)} /\ TypeOK'
<1>1. CASE PumpRead
  <2>1. gen \in Child /\ stdout \in Seq(Line) /\ stdout # <<>>
    BY <1>1 DEF PumpRead, TypeOK
  <2>2. Head(stdout) \in Lines(stdout) /\ Head(stdout) \in Line /\ Tail(stdout) \in Seq(Line)
        /\ Lines(Tail(stdout)) \subseteq Lines(stdout)
    BY <2>1, LinesTail
  <2>3. /\ hand' \in [Child -> Seq(Line)] /\ hand'[gen] = <<Head(stdout)>>
        /\ \A g \in Child \ {gen} : hand'[g] = hand[g]
    BY <1>1, <2>1, <2>2 DEF PumpRead, TypeOK
  <2>4. stdout' = Tail(stdout) /\ inbox' = inbox BY <1>1 DEF PumpRead
  <2>5. Lines(<<Head(stdout)>>) = {Head(stdout)} BY DEF Lines
  <2>6. Lines(stdout)' = Lines(Tail(stdout)) /\ Lines(inbox)' = Lines(inbox) BY <2>4 DEF Lines
  <2>7. TypeOK'
    BY <1>1, <2>2, <2>3, <2>4
    DEF PumpRead, TypeOK, hostVars, portVars, guestVars
  <2>8. QED BY <2>1, <2>2, <2>3, <2>5, <2>6, <2>7 DEF InFlight
<1>2. CASE PumpEnd
  <2>1. gen \in Child /\ Eof(gen) \in Line
    BY <1>2 DEF PumpEnd, TypeOK, Eof, Line
  <2>2. /\ hand' \in [Child -> Seq(Line)] /\ hand'[gen] = <<Eof(gen)>>
        /\ \A g \in Child \ {gen} : hand'[g] = hand[g]
    BY <1>2, <2>1 DEF PumpEnd, TypeOK
  <2>3. Lines(<<Eof(gen)>>) = {Eof(gen)} BY DEF Lines
  <2>4. Lines(stdout)' = Lines(stdout) /\ Lines(inbox)' = Lines(inbox)
    BY <1>2 DEF PumpEnd, Lines
  <2>5. TypeOK'
    BY <1>2, <2>2 DEF PumpEnd, TypeOK, hostVars, portVars, guestVars
  <2>6. QED BY <2>2, <2>3, <2>4, <2>5 DEF InFlight
<1>3. ASSUME NEW g \in Child, PumpPut(g)
      PROVE  InFlight' \subseteq InFlight \cup {Eof(gen)} /\ TypeOK'
  <2>1. hand[g] \in Seq(Line) /\ hand[g] # <<>> /\ inbox \in Seq(Line)
    BY <1>3 DEF PumpPut, TypeOK
  <2>2. Head(hand[g]) \in Lines(hand[g]) /\ Head(hand[g]) \in Line
        /\ Tail(hand[g]) \in Seq(Line) /\ Lines(Tail(hand[g])) \subseteq Lines(hand[g])
    BY <2>1, LinesTail
  <2>3. /\ hand' \in [Child -> Seq(Line)] /\ hand'[g] = Tail(hand[g])
        /\ \A h \in Child \ {g} : hand'[h] = hand[h]
    BY <1>3, <2>2 DEF PumpPut, TypeOK
  <2>4. Lines(Append(inbox, Head(hand[g]))) = Lines(inbox) \cup {Head(hand[g])}
        /\ Append(inbox, Head(hand[g])) \in Seq(Line)
    BY <2>1, <2>2, LinesAppend
  <2>5. inbox' = Append(inbox, Head(hand[g])) /\ stdout' = stdout BY <1>3 DEF PumpPut
  <2>6. Lines(inbox)' = Lines(Append(inbox, Head(hand[g]))) /\ Lines(stdout)' = Lines(stdout)
    BY <2>5 DEF Lines
  <2>7. TypeOK'
    BY <1>3, <2>3, <2>4, <2>5 DEF PumpPut, TypeOK, hostVars, portVars, guestVars
  <2>8. QED BY <2>2, <2>3, <2>4, <2>6, <2>7 DEF InFlight
<1>4. QED BY <1>1, <1>2, <1>3 DEF Pump

\* A request is sent where there is none, and is gone when the guest takes it.
LEMMA RequestSent ==
    ASSUME TypeOK, AtMostOne, NEW r \in Request, IsRequest(r) => Requests = {},
           stdin' = Append(stdin, r)
    PROVE  /\ AtMostOne' /\ stdin' \in Seq(Request)
           /\ Requests' = IF IsRequest(r) THEN {r} ELSE Requests
<1>1. stdin \in Seq(Request) /\ Len(stdin) \in Nat BY DEF TypeOK
<1>2. Lines(stdin)' = Lines(stdin) \cup {r} /\ stdin' \in Seq(Request)
  BY <1>1, LinesAppend DEF Lines
<1>3. Len(stdin') = Len(stdin) + 1 /\ stdin'[Len(stdin) + 1] = r
      /\ \A i \in 1..Len(stdin) : stdin'[i] = stdin[i]
  BY <1>1
<1>4. Requests' = Requests \cup {x \in {r} : IsRequest(x)} BY <1>2 DEF Requests
<1>5. Requests' = IF IsRequest(r) THEN {r} ELSE Requests
  BY <1>4
<1>6. AtMostOne'
  <2>1. SUFFICES ASSUME NEW i \in 1..Len(stdin'), NEW j \in 1..Len(stdin'),
                        IsRequest(stdin'[i]), IsRequest(stdin'[j])
                 PROVE  i = j
    BY DEF AtMostOne, IsRequest
  <2>2. CASE ~IsRequest(r) BY <1>1, <1>3, <2>1, <2>2 DEF AtMostOne
  <2>3. CASE IsRequest(r)
    <3>1. \A k \in 1..Len(stdin) : ~IsRequest(stdin[k]) BY <2>3 DEF Requests, Lines
    <3>2. QED BY <1>1, <1>3, <2>1, <3>1
  <2>4. QED BY <2>2, <2>3
<1>7. QED BY <1>2, <1>5, <1>6

LEMMA RequestTaken ==
    ASSUME TypeOK, AtMostOne, stdin # <<>>, stdin' = Tail(stdin)
    PROVE  /\ AtMostOne' /\ stdin' \in Seq(Request) /\ Head(stdin) \in Request
           /\ IF IsRequest(Head(stdin)) THEN Head(stdin) \in Requests /\ Requests' = {}
              ELSE Requests' = Requests
<1>1. stdin \in Seq(Request) /\ Len(stdin) \in Nat /\ Len(stdin) >= 1 /\ Head(stdin) = stdin[1]
  BY DEF TypeOK
<1>2. /\ Head(stdin) \in Lines(stdin) /\ Head(stdin) \in Request
      /\ stdin' \in Seq(Request) /\ Lines(stdin)' \subseteq Lines(stdin)
  BY <1>1, LinesTail DEF Lines
<1>3. Len(stdin') = Len(stdin) - 1 /\ \A i \in 1..(Len(stdin) - 1) : stdin'[i] = stdin[i + 1]
  BY <1>1
<1>4. \A i \in 1..(Len(stdin) - 1) : i + 1 \in 1..Len(stdin) /\ i + 1 # 1 BY <1>1
<1>5. AtMostOne' BY <1>1, <1>3, <1>4 DEF AtMostOne, IsRequest
<1>6. CASE IsRequest(Head(stdin))
  <2>1. \A i \in 1..(Len(stdin) - 1) : ~IsRequest(stdin'[i])
    BY <1>1, <1>3, <1>4, <1>6 DEF AtMostOne
  <2>2. Requests' = {} BY <1>1, <1>3, <2>1 DEF Requests, Lines, IsRequest
  <2>3. QED BY <1>2, <1>5, <1>6, <2>2 DEF Requests
<1>7. CASE ~IsRequest(Head(stdin))
  <2>1. \A r \in Lines(stdin) : IsRequest(r) => r \in Lines(stdin)'
    <3>1. SUFFICES ASSUME NEW i \in 1..Len(stdin), IsRequest(stdin[i])
                   PROVE  stdin[i] \in Lines(stdin)'
      BY DEF Lines
    <3>2. i # 1 BY <1>1, <1>7, <3>1
    <3>3. i - 1 \in 1..Len(stdin') /\ stdin'[i - 1] = stdin[i] BY <1>1, <1>3, <3>2
    <3>4. QED BY <3>3 DEF Lines
  <2>2. QED BY <1>2, <1>5, <1>7, <2>1 DEF Requests
<1>8. QED BY <1>6, <1>7

LEMMA RequestsDropped == ASSUME stdin' = <<>> PROVE AtMostOne' /\ Requests' = {}
  BY DEF AtMostOne, Requests, Lines

LEMMA RequestsKept ==
    ASSUME stdin' = stdin PROVE (AtMostOne => AtMostOne') /\ Requests' = Requests
  BY DEF AtMostOne, Requests, Lines, IsRequest

-----------------------------------------------------------------------------
(* The invariant.                                                            *)

Idle == Requests = {}

Phases ==
    /\ pc \in {"exec", "serve", "register", "restart"} => op = "exec"
    /\ pc = "idle" => op = "none"
    /\ pc = "control" => op # "none"
    /\ pc \in {"start", "handshake"} => op \in {"none", "exec"}
    /\ pc = "start" => ~Alive
    /\ closed => pc \in {"raised", "closed"} /\ ~Alive
    /\ gen = 0 <=> guest = "none"
    /\ guest = "none" => pc \in {"start", "raised", "closed"}
    /\ pc \in {"start", "handshake"} /\ op = "none" =>
          known = {} /\ asked = {} /\ bound = {} /\ registered = {}

Fresh ==
    /\ guest \in {"none", "dead", "starting"} => env = {} /\ shims = {} /\ running = 0
    /\ ~Alive => stdin = <<>>

\* No id is ahead of the host's, so that what it asks next nobody has answered yet.
Ids ==
    /\ \A m \in InFlight : m.id \in 0..request
    /\ \A r \in Requests : r.id \in 0..request
    /\ running \in 0..request

\* A guest with a block in hand is sent no request, and one without has at most one.
Polite ==
    /\ AtMostOne
    /\ guest \in {"running", "waiting"} => Idle
    /\ \A r \in Requests : r.kind = "set_var" => r.arg \in Var
    /\ \A r \in Requests : r.kind = "register" => r.arg \in Name
    /\ pc \in {"handshake", "register", "idle"} /\ Alive =>
          guest \in {"starting", "ready"} /\ Idle

\* A result of the block that is waited for was the guest's last word.
Answered ==
    pc \in {"exec", "serve"} /\ Alive =>
       /\ \A r \in Requests : r.kind = "exec"
       /\ \A m \in InFlight : m.kind = "result" /\ m.id = request =>
             guest = "ready" /\ m.names = env /\ Idle

\* So is the answer to a control request, which was done when nothing is asked any more.
Controlled ==
    pc = "control" =>
       /\ IF op \in {"set", "get"} THEN arg \in Var ELSE arg \in Name
       /\ op = "exec" => arg \in registered \ todo
       /\ Alive =>
          /\ guest \in {"starting", "ready"}
          /\ \A r \in Requests :
                r.arg = arg /\ r.kind = CASE op = "set" -> "set_var" [] op = "get" -> "get_var"
                                          [] OTHER -> "register"
          /\ \A m \in InFlight : m.kind \in {"ack", "value"} /\ m.id = request => Idle

Bindings ==
    /\ pc = "idle" /\ Alive => known = env
    /\ pc = "control" /\ op # "exec" /\ Alive =>
          env = known \cup {x \in {arg} : op = "set" /\ Idle}
    /\ pc \in {"handshake", "register"} /\ Alive => env = {}
    /\ pc = "control" /\ op = "exec" /\ Alive => env = {}

\* What the guest can call, and what it is yet to be told of.
Exposed ==
    /\ pc \notin {"raised", "closed"} =>
          asked \cap bound = registered \cup {n \in {arg} : pc = "control" /\ op = "register"}
    /\ pc \in {"idle", "exec", "serve"} /\ Alive => shims = registered
    /\ pc = "handshake" /\ Alive => shims = {}
    /\ pc = "register" /\ Alive => shims = registered \ todo
    /\ pc = "control" /\ op \in {"set", "get"} /\ Alive => shims = registered
    /\ pc = "control" /\ op = "register" /\ Alive =>
          shims = registered \cup {n \in {arg} : Idle}
    /\ pc = "control" /\ op = "exec" /\ Alive =>
          shims = registered \ (todo \cup {n \in {arg} : ~Idle})

Protocol ==
    /\ Phases /\ Fresh /\ Ids /\ Polite /\ Answered /\ Controlled /\ Bindings /\ Exposed

ChannelInv == TypeOK /\ Protocol

LEMMA ProtocolSuffices ==
    ChannelInv => KnownIsBound /\ HostCallsReachGuest /\ GuestHearsOnlyItsReply /\ NothingOutlives
<1> SUFFICES ASSUME ChannelInv
             PROVE  KnownIsBound /\ HostCallsReachGuest /\ GuestHearsOnlyItsReply /\ NothingOutlives
  OBVIOUS
<1>1. Settled => Alive BY DEF ChannelInv, Protocol, Phases, Settled, Alive
<1>2. KnownIsBound BY <1>1 DEF ChannelInv, Protocol, Bindings, Settled, KnownIsBound
<1>3. HostCallsReachGuest
  BY <1>1 DEF ChannelInv, Protocol, Exposed, Settled, HostCallsReachGuest
<1>4. GuestHearsOnlyItsReply
  <2>1. SUFFICES ASSUME guest = "waiting", stdin # <<>> PROVE Head(stdin).kind = "host_result"
    BY DEF GuestHearsOnlyItsReply
  <2>2. Head(stdin) \in Lines(stdin) BY <2>1, LinesTail DEF ChannelInv, TypeOK
  <2>3. QED BY <2>1, <2>2 DEF ChannelInv, Protocol, Polite, Idle, Requests, IsRequest
<1>5. NothingOutlives BY DEF ChannelInv, Protocol, Phases, NothingOutlives
<1>6. QED BY <1>2, <1>3, <1>4, <1>5

\* Steps of the pipes, and steps that only lose lines.
LEMMA LinesMove ==
    ASSUME ChannelInv, InFlight' \subseteq InFlight \cup {Eof(gen)},
           UNCHANGED <<hostVars, portVars, gen, guestVars, stdin>>
    PROVE  Protocol'
<1>1. Requests' = Requests /\ AtMostOne'
  BY RequestsKept DEF ChannelInv, Protocol, Polite
<1>2. \A m \in InFlight' : m \in InFlight \/ (m.kind = "eof" /\ m.id = 0) BY DEF Eof
<1>3. request \in Nat BY DEF ChannelInv, TypeOK
<1>4. Phases' /\ Fresh' BY DEF ChannelInv, Protocol, Phases, Fresh, Alive, hostVars, portVars, guestVars
<1>5. Ids' /\ Polite'
  BY <1>1, <1>2, <1>3
  DEF ChannelInv, Protocol, Ids, Polite, Idle, Alive, hostVars, guestVars
<1>6. Answered' /\ Controlled'
  BY <1>1, <1>2
  DEF ChannelInv, Protocol, Answered, Controlled, Idle, Alive, hostVars, portVars, guestVars
<1>7. Bindings' /\ Exposed'
  BY <1>1
  DEF ChannelInv, Protocol, Bindings, Exposed, Idle, Alive, hostVars, portVars, guestVars
<1>8. QED BY <1>4, <1>5, <1>6, <1>7 DEF Protocol


LEMMA LinesKept == ASSUME UNCHANGED <<inbox, stdout, hand>> PROVE InFlight' = InFlight
  BY DEF InFlight, Lines

LEMMA InboxEmptied ==
    ASSUME inbox' = <<>>, UNCHANGED <<stdout, hand>> PROVE InFlight' \subseteq InFlight
  BY DEF InFlight, Lines

\* The host asks only a guest that is asked nothing.
LEMMA Asks ==
    ASSUME TypeOK, AtMostOne, Requests = {}, NEW kind, NEW a, request' = request + 1,
           kind \in {"exec", "set_var", "get_var", "register"}, a \in Var \cup Name \cup {"none"},
           Send(kind, a)
    PROVE  /\ AtMostOne' /\ stdin' \in Seq(Request)
           /\ Requests' = {[kind |-> kind, id |-> request + 1, arg |-> a]}
<1> DEFINE r == [kind |-> kind, id |-> request + 1, arg |-> a]
<1>1. r \in Request /\ IsRequest(r) BY DEF TypeOK, Request, IsRequest
<1>2. stdin' = Append(stdin, r) BY DEF Send
<1>3. QED BY <1>1, <1>2, RequestSent


\* One control round trip of the caller begins, and port and host agree on the names.
LEMMA RoundTripBegins ==
    ASSUME ChannelInv, pc = "idle", NEW call, NEW kind, NEW a, RoundTrip(call, kind, a),
           \/ call = "set" /\ kind = "set_var" /\ a \in Var
           \/ call = "get" /\ kind = "get_var" /\ a \in Var
           \/ call = "register" /\ kind = "register" /\ a \in Name,
           asked' \subseteq Name, bound' \subseteq Name,
           asked' \cap bound' = registered \cup {n \in {a} : call = "register"},
           UNCHANGED <<closed, known, registered, todo, gen, guestVars, stdout, hand, ended, inbox>>
    PROVE  ChannelInv'
<1>0. TypeOK /\ AtMostOne /\ request \in Nat /\ op = "none" /\ registered \subseteq asked' \cap bound'
  BY DEF ChannelInv, Protocol, Phases, Polite, TypeOK
<1>1. InFlight' = InFlight BY LinesKept
<1>2. request' = request + 1 /\ arg' = a BY DEF RoundTrip
<1>3. CASE Alive /\ Send(kind, a) /\ pc' = "control" /\ op' = call
  <2>1. Requests = {} BY <1>3 DEF ChannelInv, Protocol, Polite, Idle
  <2>2. /\ AtMostOne' /\ stdin' \in Seq(Request)
        /\ Requests' = {[kind |-> kind, id |-> request + 1, arg |-> a]}
    BY <1>0, <1>2, <1>3, <2>1, Asks
  <2>3. TypeOK' BY <1>0, <1>2, <1>3, <2>2 DEF TypeOK, guestVars
  <2>4. Phases' /\ Fresh'
    BY <1>3 DEF ChannelInv, Protocol, Phases, Fresh, Alive, guestVars
  <2>5. Ids' /\ Polite'
    BY <1>0, <1>1, <1>2, <1>3, <2>2 DEF ChannelInv, Protocol, Ids, Polite, guestVars
  <2>6. Answered' /\ Controlled'
    BY <1>0, <1>1, <1>2, <1>3, <2>2
    DEF ChannelInv, Protocol, Ids, Polite, Answered, Controlled, guestVars
  <2>7. Bindings' /\ Exposed'
    BY <1>2, <1>3, <2>2 DEF ChannelInv, Protocol, Bindings, Exposed, Idle, guestVars
  <2>8. QED BY <2>3, <2>4, <2>5, <2>6, <2>7 DEF ChannelInv, Protocol
<1>4. CASE ~Alive /\ pc' = "raised" /\ op' = "none" /\ UNCHANGED stdin
  <2>1. Requests' = Requests /\ AtMostOne' BY <1>0, <1>4, RequestsKept
  <2>2. TypeOK' BY <1>0, <1>2, <1>4 DEF TypeOK, guestVars
  <2>3. Phases' /\ Fresh'
    BY <1>4 DEF ChannelInv, Protocol, Phases, Fresh, guestVars
  <2>4. Ids' /\ Polite'
    BY <1>0, <1>1, <1>2, <1>4, <2>1 DEF ChannelInv, Protocol, Ids, Polite, Idle, guestVars
  <2>5. Answered' /\ Controlled' /\ Bindings' /\ Exposed'
    BY <1>4 DEF Answered, Controlled, Bindings, Exposed
  <2>6. QED BY <2>2, <2>3, <2>4, <2>5 DEF ChannelInv, Protocol
<1>5. QED BY <1>3, <1>4 DEF RoundTrip

\* A name is registered when both halves are there, and not before.
LEMMA NamesSettle ==
    ASSUME ChannelInv, NEW n \in Name, RegisterHostCall(n) \/ BindHostCall(n)
    PROVE  ChannelInv'
<1>0. TypeOK /\ AtMostOne BY DEF ChannelInv, Protocol, Polite
<1>1. /\ pc = "idle" /\ asked' \subseteq Name /\ bound' \subseteq Name
      /\ asked' \cup bound' = asked \cup bound \cup {n}
      /\ asked \subseteq asked' /\ bound \subseteq bound'
      /\ asked' \cap bound' \subseteq (asked \cap bound) \cup {n}
      /\ SettleRegistration(n)
  BY <1>0 DEF RegisterHostCall, BindHostCall, Free, TypeOK
<1>2. asked \cap bound = registered BY <1>1 DEF ChannelInv, Protocol, Exposed
<1>3. UNCHANGED <<closed, known, registered, todo, gen, guestVars, stdout, hand, ended, inbox>>
  BY <1>1 DEF SettleRegistration
<1>4. CASE Settles(n) /\ RoundTrip("register", "register", n)
  <2>1. asked' \cap bound' = registered \cup {m \in {n} : "register" = "register"}
    BY <1>1, <1>2, <1>4 DEF Settles
  <2>2. QED BY <1>1, <1>3, <1>4, <2>1, RoundTripBegins
<1>5. CASE ~Settles(n) /\ UNCHANGED <<request, arg, pc, op, stdin>>
  <2>1. asked' \cap bound' = registered BY <1>1, <1>2, <1>5 DEF Settles
  <2>2. InFlight' = InFlight /\ Requests' = Requests /\ AtMostOne'
    BY <1>0, <1>3, <1>5, LinesKept, RequestsKept
  <2>3. TypeOK' BY <1>0, <1>1, <1>3, <1>5, <2>1 DEF TypeOK, guestVars
  <2>4. Phases' /\ Fresh'
    BY <1>1, <1>3, <1>5 DEF ChannelInv, Protocol, Phases, Fresh, Alive, guestVars
  <2>5. Ids' /\ Polite'
    BY <1>3, <1>5, <2>2 DEF ChannelInv, Protocol, Ids, Polite, Idle, Alive, guestVars
  <2>6. Answered' /\ Controlled' /\ Bindings' /\ Exposed'
    BY <1>1, <1>3, <1>5, <2>1
    DEF ChannelInv, Protocol, Answered, Controlled, Bindings, Exposed, Alive, guestVars
  <2>7. QED BY <2>3, <2>4, <2>5, <2>6 DEF ChannelInv, Protocol
<1>6. QED BY <1>1, <1>4, <1>5 DEF SettleRegistration

LEMMA CallerAsks ==
    ASSUME ChannelInv, NEW x \in Var, SetVariable(x) \/ GetVariable(x)
    PROVE  ChannelInv'
<1>1. /\ pc = "idle" /\ (RoundTrip("set", "set_var", x) \/ RoundTrip("get", "get_var", x))
      /\ UNCHANGED <<closed, known, asked, bound, registered, todo, gen, guestVars, stdout, hand,
                     ended, inbox>>
  BY DEF SetVariable, GetVariable, Free, Executing, portVars, ChannelInv, Protocol, Phases
<1>2. asked \subseteq Name /\ bound \subseteq Name /\ asked \cap bound = registered
  BY <1>1 DEF ChannelInv, Protocol, Exposed, TypeOK
<1>3. registered = registered \cup {m \in {x} : "set" = "register"}
      /\ registered = registered \cup {m \in {x} : "get" = "register"}
  OBVIOUS
<1>4. QED BY <1>1, <1>2, <1>3, RoundTripBegins


\* What the guest says carries the names that are bound when it says it.
LEMMA Says ==
    ASSUME TypeOK, gen \in Child, NEW kind, NEW id \in Nat, Say(kind, id), env' \subseteq Var,
           kind \in {"ready", "host_call", "result", "ack", "value", "fatal"},
           UNCHANGED <<inbox, hand>>
    PROVE  /\ InFlight' = InFlight \cup {[kind |-> kind, id |-> id, names |-> env', from |-> gen]}
           /\ stdout' \in Seq(Line)
<1> DEFINE m == [kind |-> kind, id |-> id, names |-> env', from |-> gen]
<1>1. m \in Line BY DEF Line
<1>2. stdout' = Append(stdout, m) BY DEF Say
<1>3. QED BY <1>1, <1>2, LineSaid

LEMMA HostStep == ASSUME ChannelInv, Host PROVE ChannelInv'
<1>0. TypeOK /\ AtMostOne /\ request \in Nat BY DEF ChannelInv, Protocol, Polite, TypeOK
<1>1. ASSUME Start PROVE ChannelInv'
  <2>1. InFlight' \subseteq InFlight
    BY <1>1, <1>0, InboxEmptied DEF Start, hostVars, portVars, guestVars, pipeVars
  <2>2. AtMostOne' /\ Requests' = Requests
    BY <1>1, <1>0, RequestsKept DEF Start, hostVars, portVars, guestVars, pipeVars
  <2>3. TypeOK'
    <3>1. gen \in Nat /\ (gen < ChildBound => gen + 1 \in Child)
      BY <1>0, ChannelAssumption DEF TypeOK, Child
    <3>2. inbox' \in Seq(Line) BY <1>1 DEF Start
    <3>3. CASE gen' = gen + 1 /\ gen < ChildBound
      BY <1>1, <1>0, <3>1, <3>2, <3>3 DEF Start, TypeOK, portVars, guestVars, Executing
    <3>4. CASE UNCHANGED gen
      BY <1>1, <1>0, <3>1, <3>2, <3>4 DEF Start, TypeOK, portVars, guestVars, Executing
    <3>5. QED BY <1>1, <3>3, <3>4 DEF Start
  <2>4. Phases' /\ Fresh'
    <3>1. gen \in Nat BY <1>0, ChannelAssumption DEF TypeOK, Child
    <3>2. gen + 1 # 0 BY <3>1
    <3>3. ~Alive BY <1>1 DEF Start, ChannelInv, Protocol, Phases
    <3>4. QED
      BY <1>1, <3>2, <3>3
      DEF Start, ChannelInv, Protocol, Phases, Fresh, Alive, portVars, guestVars
  <2>5. Ids' /\ Polite'
    <3>1. stdin = <<>> BY <1>1 DEF Start, ChannelInv, Protocol, Phases, Fresh
    <3>2. Requests = {} BY <3>1 DEF Requests, Lines
    <3>3. QED
      BY <1>1, <2>1, <2>2, <3>2
      DEF ChannelInv, Protocol, Ids, Polite, Idle, Start, guestVars
  <2>6. Answered' /\ Controlled'
    BY <1>1 DEF ChannelInv, Protocol, Answered, Controlled, Start
  <2>7. Bindings' /\ Exposed'
    BY <1>1
    DEF ChannelInv, Protocol, Phases, Fresh, Bindings, Exposed, Start, Alive, portVars
  <2>8. QED BY <2>3, <2>4, <2>5, <2>6, <2>7 DEF ChannelInv, Protocol
<1>2. ASSUME Handshake PROVE ChannelInv'
  <2>1. /\ InFlight' \subseteq InFlight /\ inbox' \in Seq(Line)
        /\ Head(inbox) \in InFlight /\ Head(inbox) \in Line
    BY <1>2, <1>0, LineTaken DEF Handshake, hostVars, portVars, guestVars, pipeVars
  <2>2. AtMostOne' /\ Requests' = Requests
    BY <1>2, <1>0, RequestsKept DEF Handshake, hostVars, portVars, guestVars, pipeVars
  <2>3. TypeOK'
    BY <1>2, <1>0 DEF Handshake, ToRegister, TypeOK, guestVars
  <2>4. Phases' /\ Fresh'
    BY <1>2 DEF ChannelInv, Protocol, Phases, Fresh, Handshake, Alive, guestVars, Executing
  <2>5. Ids' /\ Polite'
    BY <1>2, <2>1, <2>2
    DEF ChannelInv, Protocol, Ids, Polite, Idle, Handshake, Alive, guestVars
  <2>6. Answered' /\ Controlled'
    BY <1>2 DEF ChannelInv, Protocol, Answered, Controlled, Handshake
  <2>7. Bindings' /\ Exposed'
    BY <1>2
    DEF ChannelInv, Protocol, Phases, Bindings, Exposed, Handshake, ToRegister, Alive,
        guestVars, Executing
  <2>8. QED BY <2>3, <2>4, <2>5, <2>6, <2>7 DEF ChannelInv, Protocol
<1>3. ASSUME HandshakeFails PROVE ChannelInv'
  <2>1. /\ InFlight' \subseteq InFlight \cup {Eof(gen)} /\ hand' \in [Child -> Seq(Line)]
        /\ stdout' = <<>> /\ ended' = TRUE
    BY <1>3, <1>0, StreamDropped DEF HandshakeFails, Kill
  <2>2. AtMostOne' /\ Requests' = {}
    BY <1>3, RequestsDropped DEF HandshakeFails, Kill, DropStream
  <2>3. TypeOK'
    BY <1>3, <1>0, <2>1
    DEF HandshakeFails, Kill, Gone, DropStream, TypeOK, portVars, Executing
  <2>4. Phases' /\ Fresh'
    BY <1>3
    DEF ChannelInv, Protocol, Phases, Fresh, HandshakeFails, Kill, Gone, DropStream, Alive
  <2>5. Ids' /\ Polite'
    BY <1>3, <1>0, <2>1, <2>2
    DEF ChannelInv, Protocol, Ids, Polite, HandshakeFails, Kill, Gone, Eof
  <2>6. Answered' /\ Controlled'
    BY <1>3 DEF ChannelInv, Protocol, Answered, Controlled, HandshakeFails
  <2>7. Bindings' /\ Exposed'
    BY <1>3 DEF ChannelInv, Protocol, Bindings, Exposed, HandshakeFails
  <2>8. QED BY <2>3, <2>4, <2>5, <2>6, <2>7 DEF ChannelInv, Protocol
<1>4. ASSUME Restart PROVE ChannelInv'
  <2>1. /\ InFlight' \subseteq InFlight \cup {Eof(gen)} /\ hand' \in [Child -> Seq(Line)]
        /\ stdout' = <<>> /\ ended' = TRUE
    BY <1>4, <1>0, StreamDropped DEF Restart, Kill
  <2>2. AtMostOne' /\ Requests' = {}
    BY <1>4, RequestsDropped DEF Restart, Kill, DropStream
  <2>3. TypeOK'
    BY <1>4, <1>0, <2>1 DEF Restart, Kill, Gone, DropStream, TypeOK, portVars
  <2>4. Phases' /\ Fresh'
    BY <1>4 DEF ChannelInv, Protocol, Phases, Fresh, Restart, Kill, Gone, DropStream, Alive
  <2>5. Ids' /\ Polite'
    BY <1>4, <1>0, <2>1, <2>2
    DEF ChannelInv, Protocol, Ids, Polite, Restart, Kill, Gone, Eof
  <2>6. Answered' /\ Controlled'
    BY <1>4 DEF ChannelInv, Protocol, Answered, Controlled, Restart
  <2>7. Bindings' /\ Exposed'
    BY <1>4 DEF ChannelInv, Protocol, Bindings, Exposed, Restart, portVars
  <2>8. QED BY <2>3, <2>4, <2>5, <2>6, <2>7 DEF ChannelInv, Protocol
<1>5. ASSUME RegisterAgain PROVE ChannelInv'
  <2>1. InFlight' = InFlight BY <1>5, LinesKept DEF RegisterAgain
  <2>2. PICK n \in todo :
           /\ todo' = todo \ {n} /\ request' = request + 1 /\ arg' = n
           /\ \/ Alive /\ Send("register", n) /\ pc' = "control" /\ op' = op
              \/ ~Alive /\ pc' = "raised" /\ op' = "none" /\ UNCHANGED stdin
    BY <1>5 DEF RegisterAgain
  <2>3. /\ pc = "register" /\ op = "exec" /\ n \in Name /\ n \in registered
        /\ UNCHANGED <<closed, known, asked, bound, registered, gen, guestVars, stdout, hand,
                       ended, inbox>>
    BY <1>0, <1>5 DEF RegisterAgain, ChannelInv, Protocol, Phases, TypeOK
  <2>4. CASE Alive /\ Send("register", n) /\ pc' = "control" /\ op' = op
    <3>1. Requests = {} BY <2>3, <2>4 DEF ChannelInv, Protocol, Polite, Idle
    <3>2. /\ AtMostOne' /\ stdin' \in Seq(Request)
          /\ Requests' = {[kind |-> "register", id |-> request + 1, arg |-> n]}
      BY <1>0, <2>2, <2>3, <2>4, <3>1, Asks
    <3>3. TypeOK' BY <1>0, <2>2, <2>3, <2>4, <3>2 DEF TypeOK, guestVars
    <3>4. Phases' /\ Fresh'
      BY <2>3, <2>4 DEF ChannelInv, Protocol, Phases, Fresh, Alive, guestVars
    <3>5. Ids' /\ Polite'
      BY <1>0, <2>1, <2>2, <2>3, <2>4, <3>2 DEF ChannelInv, Protocol, Ids, Polite, guestVars
    <3>6. Answered' /\ Controlled' /\ Bindings'
      BY <1>0, <2>1, <2>2, <2>3, <2>4, <3>2
      DEF ChannelInv, Protocol, Ids, Polite, Answered, Controlled, Bindings, guestVars
    <3>7. Exposed'
      BY <2>2, <2>3, <2>4, <3>2 DEF ChannelInv, Protocol, Exposed, Idle, guestVars
    <3>8. QED BY <3>3, <3>4, <3>5, <3>6, <3>7 DEF ChannelInv, Protocol
  <2>5. CASE ~Alive /\ pc' = "raised" /\ op' = "none" /\ UNCHANGED stdin
    <3>1. Requests' = Requests /\ AtMostOne' BY <1>0, <2>5, RequestsKept
    <3>2. TypeOK' BY <1>0, <2>2, <2>3, <2>5 DEF TypeOK, guestVars
    <3>3. Phases' /\ Fresh'
      BY <2>3, <2>5 DEF ChannelInv, Protocol, Phases, Fresh, guestVars
    <3>4. Ids' /\ Polite'
      BY <1>0, <2>1, <2>2, <2>3, <2>5, <3>1
      DEF ChannelInv, Protocol, Ids, Polite, Idle, guestVars
    <3>5. Answered' /\ Controlled' /\ Bindings' /\ Exposed'
      BY <2>5 DEF Answered, Controlled, Bindings, Exposed
    <3>6. QED BY <3>2, <3>3, <3>4, <3>5 DEF ChannelInv, Protocol
  <2>6. QED BY <2>2, <2>4, <2>5
<1>6. ASSUME ReportLoss PROVE ChannelInv'
  <2>1. InFlight' = InFlight
    BY <1>6, <1>0, LinesKept DEF ReportLoss, hostVars, portVars, guestVars, pipeVars
  <2>2. AtMostOne' /\ Requests' = Requests
    BY <1>6, <1>0, RequestsKept DEF ReportLoss, hostVars, portVars, guestVars, pipeVars
  <2>3. TypeOK'
    BY <1>6, <1>0 DEF ReportLoss, TypeOK, portVars, guestVars, pipeVars
  <2>4. Phases' /\ Fresh'
    BY <1>6 DEF ChannelInv, Protocol, Phases, Fresh, ReportLoss, Alive, guestVars, pipeVars
  <2>5. Ids' /\ Polite'
    BY <1>6, <2>1, <2>2
    DEF ChannelInv, Protocol, Ids, Polite, Idle, ReportLoss, Alive, guestVars
  <2>6. Answered' /\ Controlled'
    BY <1>6 DEF ChannelInv, Protocol, Answered, Controlled, ReportLoss
  <2>7. Bindings' /\ Exposed'
    BY <1>6
    DEF ChannelInv, Protocol, Bindings, Exposed, ReportLoss, Alive, portVars, guestVars
  <2>8. QED BY <2>3, <2>4, <2>5, <2>6, <2>7 DEF ChannelInv, Protocol
<1>7. ASSUME Serve PROVE ChannelInv'
  <2>1. /\ InFlight' \subseteq InFlight /\ inbox' \in Seq(Line)
        /\ Head(inbox) \in InFlight /\ Head(inbox) \in Line
    BY <1>7, <1>0, LineTaken DEF Serve, hostVars, portVars, guestVars, pipeVars
  <2>2. AtMostOne' /\ Requests' = Requests
    BY <1>7, <1>0, RequestsKept DEF Serve, hostVars, portVars, guestVars, pipeVars
  <2>3. TypeOK'
    BY <1>7, <1>0 DEF Serve, TypeOK, portVars, guestVars
  <2>4. Phases' /\ Fresh'
    BY <1>7 DEF ChannelInv, Protocol, Phases, Fresh, Serve, Alive, guestVars
  <2>5. Ids' /\ Polite'
    BY <1>7, <2>1, <2>2 DEF ChannelInv, Protocol, Ids, Polite, Idle, Serve, guestVars
  <2>6. Answered' /\ Controlled'
    BY <1>7, <2>1, <2>2
    DEF ChannelInv, Protocol, Answered, Controlled, Idle, Serve, Alive, guestVars
  <2>7. Bindings' /\ Exposed'
    BY <1>7 DEF ChannelInv, Protocol, Bindings, Exposed, Serve, Alive, portVars, guestVars
  <2>8. QED BY <2>3, <2>4, <2>5, <2>6, <2>7 DEF ChannelInv, Protocol
<1>8. ASSUME ServeReply PROVE ChannelInv'
  <2>1. InFlight' = InFlight BY <1>8, LinesKept DEF ServeReply
  <2>2. /\ pc = "serve" /\ request' = request
        /\ UNCHANGED <<op, arg, closed, known, portVars, gen, guestVars, stdout, hand, ended, inbox>>
    BY <1>8 DEF ServeReply
  <2>3. CASE Alive /\ Send("host_result", "none") /\ pc' = "exec"
    <3> DEFINE r == [kind |-> "host_result", id |-> request, arg |-> "none"]
    <3>1. r \in Request /\ ~IsRequest(r) /\ stdin' = Append(stdin, r)
      BY <1>0, <2>2, <2>3 DEF Send, Request, IsRequest
    <3>2. AtMostOne' /\ stdin' \in Seq(Request) /\ Requests' = Requests
      BY <1>0, <3>1, RequestSent
    <3>3. TypeOK' BY <1>0, <2>2, <2>3, <3>2 DEF TypeOK, portVars, guestVars
    <3>4. Phases' /\ Fresh'
      BY <2>2, <2>3 DEF ChannelInv, Protocol, Phases, Fresh, Alive, guestVars
    <3>5. Ids' /\ Polite'
      BY <2>1, <2>2, <2>3, <3>2 DEF ChannelInv, Protocol, Ids, Polite, Idle, guestVars
    <3>6. Answered' /\ Controlled' /\ Bindings' /\ Exposed'
      BY <2>1, <2>2, <2>3, <3>2
      DEF ChannelInv, Protocol, Answered, Controlled, Bindings, Exposed, Idle, portVars,
          guestVars
    <3>7. QED BY <3>3, <3>4, <3>5, <3>6 DEF ChannelInv, Protocol
  <2>4. CASE ~Alive /\ pc' = "restart" /\ UNCHANGED stdin
    <3>1. Requests' = Requests /\ AtMostOne' BY <1>0, <2>4, RequestsKept
    <3>2. TypeOK' BY <1>0, <2>2, <2>4 DEF TypeOK, portVars, guestVars
    <3>3. Phases' /\ Fresh'
      BY <2>2, <2>4 DEF ChannelInv, Protocol, Phases, Fresh, guestVars
    <3>4. Ids' /\ Polite'
      BY <2>1, <2>2, <2>4, <3>1 DEF ChannelInv, Protocol, Ids, Polite, Idle, guestVars
    <3>5. Answered' /\ Controlled' /\ Bindings' /\ Exposed'
      BY <2>2, <2>4
      DEF ChannelInv, Protocol, Answered, Controlled, Bindings, Exposed, portVars
    <3>6. QED BY <3>2, <3>3, <3>4, <3>5 DEF ChannelInv, Protocol
  <2>5. QED BY <1>8, <2>3, <2>4 DEF ServeReply
<1>9. ASSUME Return PROVE ChannelInv'
  <2>1. /\ InFlight' \subseteq InFlight /\ inbox' \in Seq(Line)
        /\ Head(inbox) \in InFlight /\ Head(inbox) \in Line
    BY <1>9, <1>0, LineTaken DEF Return, hostVars, portVars, guestVars, pipeVars
  <2>2. AtMostOne' /\ Requests' = Requests
    BY <1>9, <1>0, RequestsKept DEF Return, hostVars, portVars, guestVars, pipeVars
  <2>3. TypeOK'
    BY <1>9, <1>0, <2>1 DEF Return, Line, TypeOK, portVars, guestVars
  <2>4. Phases' /\ Fresh'
    BY <1>9 DEF ChannelInv, Protocol, Phases, Fresh, Return, Alive, guestVars
  <2>5. Ids' /\ Polite'
    BY <1>9, <2>1, <2>2
    DEF ChannelInv, Protocol, Ids, Polite, Idle, Return, Answers, Answered, Alive, guestVars
  <2>6. Answered' /\ Controlled'
    BY <1>9 DEF ChannelInv, Protocol, Answered, Controlled, Return
  <2>7. Bindings' /\ Exposed'
    BY <1>9, <2>1
    DEF ChannelInv, Protocol, Answered, Bindings, Exposed, Return, Answers, Alive, portVars,
        guestVars
  <2>8. QED BY <2>3, <2>4, <2>5, <2>6, <2>7 DEF ChannelInv, Protocol
<1>10. ASSUME Crash PROVE ChannelInv'
  <2>1. InFlight' = InFlight
    BY <1>10, <1>0, LinesKept DEF Crash, hostVars, portVars, guestVars, pipeVars
  <2>2. AtMostOne' /\ Requests' = Requests
    BY <1>10, <1>0, RequestsKept DEF Crash, hostVars, portVars, guestVars, pipeVars
  <2>3. TypeOK'
    BY <1>10, <1>0 DEF Crash, TypeOK, portVars, guestVars, pipeVars
  <2>4. Phases' /\ Fresh'
    BY <1>10 DEF ChannelInv, Protocol, Phases, Fresh, Crash, Alive, guestVars, pipeVars
  <2>5. Ids' /\ Polite'
    BY <1>10, <2>1, <2>2 DEF ChannelInv, Protocol, Ids, Polite, Idle, Crash, guestVars
  <2>6. Answered' /\ Controlled'
    BY <1>10 DEF ChannelInv, Protocol, Answered, Controlled, Crash
  <2>7. Bindings' /\ Exposed'
    BY <1>10 DEF ChannelInv, Protocol, Bindings, Exposed, Crash, portVars
  <2>8. QED BY <2>3, <2>4, <2>5, <2>6, <2>7 DEF ChannelInv, Protocol
<1>11. ASSUME Overrun PROVE ChannelInv'
  <2>1. InFlight' = InFlight
    BY <1>11, <1>0, LinesKept DEF Overrun, hostVars, portVars, guestVars, pipeVars
  <2>2. AtMostOne' /\ Requests' = Requests
    BY <1>11, <1>0, RequestsKept DEF Overrun, hostVars, portVars, guestVars, pipeVars
  <2>3. TypeOK'
    BY <1>11, <1>0 DEF Overrun, TypeOK, portVars, guestVars, pipeVars
  <2>4. Phases' /\ Fresh'
    BY <1>11 DEF ChannelInv, Protocol, Phases, Fresh, Overrun, Alive, guestVars, pipeVars
  <2>5. Ids' /\ Polite'
    BY <1>11, <2>1, <2>2 DEF ChannelInv, Protocol, Ids, Polite, Idle, Overrun, guestVars
  <2>6. Answered' /\ Controlled'
    BY <1>11 DEF ChannelInv, Protocol, Answered, Controlled, Overrun
  <2>7. Bindings' /\ Exposed'
    BY <1>11 DEF ChannelInv, Protocol, Bindings, Exposed, Overrun, portVars
  <2>8. QED BY <2>3, <2>4, <2>5, <2>6, <2>7 DEF ChannelInv, Protocol
<1>12. ASSUME ControlReply PROVE ChannelInv'
  <2>1. /\ InFlight' \subseteq InFlight /\ inbox' \in Seq(Line)
        /\ Head(inbox) \in InFlight /\ Head(inbox) \in Line
    BY <1>12, <1>0, LineTaken DEF ControlReply, hostVars, portVars, guestVars, pipeVars
  <2>2. AtMostOne' /\ Requests' = Requests
    BY <1>12, <1>0, RequestsKept DEF ControlReply, hostVars, portVars, guestVars, pipeVars
  <2>3. TypeOK'
    BY <1>12 DEF ControlReply, ChannelInv, Protocol, Controlled, Exposed, TypeOK, guestVars
  <2>4. Phases' /\ Fresh'
    BY <1>12
    DEF ChannelInv, Protocol, Phases, Fresh, ControlReply, Alive, guestVars, Executing
  <2>5. Ids' /\ Polite'
    BY <1>12, <2>1, <2>2
    DEF ChannelInv, Protocol, Ids, Polite, Idle, ControlReply, Acknowledges, Controlled,
        Alive, guestVars
  <2>6. Answered' /\ Controlled'
    BY <1>12 DEF ChannelInv, Protocol, Answered, Controlled, ControlReply
  <2>7. Bindings' /\ Exposed'
    <3>1. Alive => Idle /\ guest \in {"starting", "ready"}
      BY <1>12, <2>1 DEF ControlReply, Acknowledges, ChannelInv, Protocol, Controlled
    <3>2. (Alive' <=> Alive) /\ (Idle' <=> Idle)
      BY <1>12, <2>2 DEF ControlReply, Alive, guestVars, Idle
    <3>3. Bindings'
      BY <1>12, <3>1, <3>2
      DEF ControlReply, ChannelInv, Protocol, Bindings, Executing, guestVars
    <3>4. CASE op = "exec"
      BY <1>12, <3>1, <3>2, <3>3, <3>4
      DEF ControlReply, ChannelInv, Protocol, Exposed, Executing, guestVars
    <3>5. CASE op = "register"
      BY <1>12, <3>1, <3>2, <3>3, <3>5
      DEF ControlReply, ChannelInv, Protocol, Exposed, Executing, guestVars
    <3>6. CASE op \in {"set", "get"}
      BY <1>12, <3>1, <3>2, <3>3, <3>6
      DEF ControlReply, ChannelInv, Protocol, Exposed, Executing, guestVars
    <3>7. QED
      BY <1>12, <1>0, <3>3, <3>4, <3>5, <3>6
      DEF ControlReply, ChannelInv, Protocol, Phases, TypeOK
  <2>8. QED BY <2>3, <2>4, <2>5, <2>6, <2>7 DEF ChannelInv, Protocol
<1>13. ASSUME ControlRaises PROVE ChannelInv'
  <2>1. InFlight' = InFlight
    BY <1>13, <1>0, LinesKept DEF ControlRaises, hostVars, portVars, guestVars, pipeVars
  <2>2. AtMostOne' /\ Requests' = Requests
    BY <1>13, <1>0, RequestsKept DEF ControlRaises, hostVars, portVars, guestVars, pipeVars
  <2>3. TypeOK'
    BY <1>13, <1>0 DEF ControlRaises, TypeOK, portVars, guestVars, pipeVars
  <2>4. Phases' /\ Fresh'
    BY <1>13
    DEF ChannelInv, Protocol, Phases, Fresh, ControlRaises, Alive, guestVars, pipeVars
  <2>5. Ids' /\ Polite'
    BY <1>13, <2>1, <2>2
    DEF ChannelInv, Protocol, Ids, Polite, Idle, ControlRaises, guestVars
  <2>6. Answered' /\ Controlled'
    BY <1>13 DEF ChannelInv, Protocol, Answered, Controlled, ControlRaises
  <2>7. Bindings' /\ Exposed'
    BY <1>13 DEF ChannelInv, Protocol, Bindings, Exposed, ControlRaises
  <2>8. QED BY <2>3, <2>4, <2>5, <2>6, <2>7 DEF ChannelInv, Protocol
<1>14. ASSUME HandshakeGarbled PROVE ChannelInv'
  <2>1. InFlight' = InFlight
    BY <1>14, <1>0, LinesKept DEF HandshakeGarbled, hostVars, portVars, guestVars, pipeVars
  <2>2. AtMostOne' /\ Requests' = Requests
    BY <1>14, <1>0, RequestsKept DEF HandshakeGarbled, hostVars, portVars, guestVars, pipeVars
  <2>3. TypeOK'
    BY <1>14, <1>0 DEF HandshakeGarbled, TypeOK, portVars, guestVars, pipeVars
  <2>4. Phases' /\ Fresh'
    BY <1>14 DEF ChannelInv, Protocol, Phases, Fresh, HandshakeGarbled, Alive, guestVars,
                pipeVars
  <2>5. Ids' /\ Polite'
    BY <1>14, <2>1, <2>2
    DEF ChannelInv, Protocol, Ids, Polite, Idle, HandshakeGarbled, Alive, guestVars
  <2>6. Answered' /\ Controlled'
    BY <1>14 DEF ChannelInv, Protocol, Answered, Controlled, HandshakeGarbled
  <2>7. Bindings' /\ Exposed'
    BY <1>14
    DEF ChannelInv, Protocol, Bindings, Exposed, HandshakeGarbled, Alive, portVars, guestVars
  <2>8. QED BY <2>3, <2>4, <2>5, <2>6, <2>7 DEF ChannelInv, Protocol
<1>15. QED BY <1>1, <1>2, <1>3, <1>4, <1>5, <1>6, <1>7, <1>8, <1>9, <1>10, <1>11, <1>12, <1>13, <1>14 DEF Host

LEMMA GuestStep == ASSUME ChannelInv, Guest PROVE ChannelInv'
<1>0. TypeOK /\ AtMostOne /\ request \in Nat BY DEF ChannelInv, Protocol, Polite, TypeOK
<1>1. ASSUME Boot PROVE ChannelInv'
  <2>1. /\ guest = "starting" /\ guest' = "ready" /\ env' = env /\ gen \in Child
        /\ UNCHANGED <<hostVars, portVars, gen, running, shims, stdin, hand, ended, inbox>>
    BY <1>1, <1>0 DEF Boot, ChannelInv, Protocol, Phases, TypeOK
  <2>2. /\ InFlight' = InFlight \cup {[kind |-> "ready", id |-> 0, names |-> env', from |-> gen]}
        /\ stdout' \in Seq(Line)
    BY <1>1, <1>0, <2>1, Says DEF Boot, TypeOK
  <2>3. AtMostOne' /\ Requests' = Requests BY <1>0, <2>1, RequestsKept
  <2>4. TypeOK' BY <1>0, <2>1, <2>2 DEF TypeOK, hostVars, portVars
  <2>5. Phases' /\ Fresh'
    BY <2>1 DEF ChannelInv, Protocol, Phases, Fresh, Alive, hostVars, portVars
  <2>6. Ids' /\ Polite'
    BY <1>0, <2>1, <2>2, <2>3 DEF ChannelInv, Protocol, Ids, Polite, Idle, Alive, hostVars
  <2>7. Answered' /\ Controlled'
    BY <2>1, <2>2, <2>3
    DEF ChannelInv, Protocol, Answered, Controlled, Idle, Alive, hostVars, portVars
  <2>8. Bindings' /\ Exposed'
    BY <2>1, <2>3
    DEF ChannelInv, Protocol, Bindings, Exposed, Idle, Alive, hostVars, portVars
  <2>9. QED BY <2>4, <2>5, <2>6, <2>7, <2>8 DEF ChannelInv, Protocol
<1>2. ASSUME TakeExec PROVE ChannelInv'
  <2>1. InFlight' = InFlight
    BY <1>2, <1>0, LinesKept DEF TakeExec, hostVars, portVars, guestVars, pipeVars
  <2>2. /\ AtMostOne' /\ stdin' \in Seq(Request) /\ Head(stdin) \in Request
        /\ IF IsRequest(Head(stdin)) THEN Head(stdin) \in Requests /\ Requests' = {}
           ELSE Requests' = Requests
    BY <1>2, <1>0, RequestTaken DEF TakeExec, hostVars, portVars, guestVars, pipeVars
  <2>3. TypeOK'
    BY <1>2, <1>0, <2>2 DEF TakeExec, Request, TypeOK, hostVars, portVars
  <2>4. Phases' /\ Fresh'
    BY <1>2 DEF ChannelInv, Protocol, Phases, Fresh, TakeExec, Alive, hostVars, portVars
  <2>5. Ids' /\ Polite'
    BY <1>2, <2>1, <2>2
    DEF ChannelInv, Protocol, Fresh, Ids, Polite, Idle, TakeExec, hostVars, IsRequest
  <2>6. Answered' /\ Controlled'
    BY <1>2, <2>1, <2>2
    DEF ChannelInv, Protocol, Answered, Controlled, Idle, TakeExec, Alive, hostVars,
        IsRequest
  <2>7. Bindings' /\ Exposed'
    BY <1>2, <2>2
    DEF ChannelInv, Protocol, Fresh, Controlled, Bindings, Exposed, Idle, TakeExec,
        hostVars, portVars
  <2>8. QED BY <2>3, <2>4, <2>5, <2>6, <2>7 DEF ChannelInv, Protocol
<1>3. ASSUME RunCode PROVE ChannelInv'
  <2>1. InFlight' = InFlight
    BY <1>3, <1>0, LinesKept DEF RunCode, hostVars, portVars, guestVars, pipeVars
  <2>2. AtMostOne' /\ Requests' = Requests
    BY <1>3, <1>0, RequestsKept DEF RunCode, hostVars, portVars, guestVars, pipeVars
  <2>3. TypeOK'
    BY <1>3, <1>0 DEF RunCode, TypeOK, hostVars, portVars, pipeVars
  <2>4. Phases' /\ Fresh'
    BY <1>3 DEF ChannelInv, Protocol, Phases, Fresh, RunCode, Alive, hostVars, portVars
  <2>5. Ids' /\ Polite'
    BY <1>3, <2>1, <2>2
    DEF ChannelInv, Protocol, Ids, Polite, Idle, RunCode, Alive, hostVars
  <2>6. Answered' /\ Controlled'
    BY <1>3, <2>1, <2>2
    DEF ChannelInv, Protocol, Answered, Controlled, RunCode, Alive, hostVars
  <2>7. Bindings' /\ Exposed'
    BY <1>3
    DEF ChannelInv, Protocol, Polite, Controlled, Bindings, Exposed, RunCode, Alive,
        hostVars, portVars
  <2>8. QED BY <2>3, <2>4, <2>5, <2>6, <2>7 DEF ChannelInv, Protocol
<1>4. ASSUME CallHost PROVE ChannelInv'
  <2>1. /\ guest = "running" /\ guest' = "waiting" /\ env' = env /\ gen \in Child
        /\ UNCHANGED <<hostVars, portVars, gen, running, shims, stdin, hand, ended, inbox>>
    BY <1>4, <1>0 DEF CallHost, ChannelInv, Protocol, Phases, TypeOK
  <2>2. /\ InFlight' =
              InFlight \cup {[kind |-> "host_call", id |-> 0, names |-> env', from |-> gen]}
        /\ stdout' \in Seq(Line)
    BY <1>4, <1>0, <2>1, Says DEF CallHost, TypeOK
  <2>3. AtMostOne' /\ Requests' = Requests BY <1>0, <2>1, RequestsKept
  <2>4. TypeOK' BY <1>0, <2>1, <2>2 DEF TypeOK, hostVars, portVars
  <2>5. Phases' /\ Fresh'
    BY <2>1 DEF ChannelInv, Protocol, Phases, Fresh, Alive, hostVars, portVars
  <2>6. Ids' /\ Polite'
    BY <1>0, <2>1, <2>2, <2>3 DEF ChannelInv, Protocol, Ids, Polite, Idle, Alive, hostVars
  <2>7. Answered' /\ Controlled'
    BY <2>1, <2>2, <2>3 DEF ChannelInv, Protocol, Answered, Controlled, Alive, hostVars
  <2>8. Bindings' /\ Exposed'
    BY <2>1, <2>3
    DEF ChannelInv, Protocol, Bindings, Exposed, Idle, Alive, hostVars, portVars
  <2>9. QED BY <2>4, <2>5, <2>6, <2>7, <2>8 DEF ChannelInv, Protocol
<1>5. ASSUME HostReply PROVE ChannelInv'
  <2>1. InFlight' = InFlight
    BY <1>5, <1>0, LinesKept DEF HostReply, hostVars, portVars, guestVars, pipeVars
  <2>2. /\ AtMostOne' /\ stdin' \in Seq(Request) /\ Head(stdin) \in Request
        /\ IF IsRequest(Head(stdin)) THEN Head(stdin) \in Requests /\ Requests' = {}
           ELSE Requests' = Requests
    BY <1>5, <1>0, RequestTaken DEF HostReply, hostVars, portVars, guestVars, pipeVars
  <2>3. TypeOK'
    BY <1>5, <1>0 DEF HostReply, TypeOK, hostVars, portVars
  <2>4. Phases' /\ Fresh'
    BY <1>5 DEF ChannelInv, Protocol, Phases, Fresh, HostReply, Alive, hostVars, portVars
  <2>5. Ids' /\ Polite'
    BY <1>5, <2>1, <2>2
    DEF ChannelInv, Protocol, Fresh, Ids, Polite, Idle, HostReply, hostVars
  <2>6. Answered' /\ Controlled'
    BY <1>5, <2>1, <2>2
    DEF ChannelInv, Protocol, Answered, Controlled, HostReply, Alive, hostVars
  <2>7. Bindings' /\ Exposed'
    BY <1>5
    DEF ChannelInv, Protocol, Fresh, Controlled, Bindings, Exposed, HostReply, hostVars,
        portVars
  <2>8. QED BY <2>3, <2>4, <2>5, <2>6, <2>7 DEF ChannelInv, Protocol
<1>6. ASSUME Finish PROVE ChannelInv'
  <2>1. /\ guest = "running" /\ guest' = "ready" /\ running' = 0 /\ env' = env /\ gen \in Child
        /\ UNCHANGED <<hostVars, portVars, gen, shims, stdin, hand, ended, inbox>>
    BY <1>6, <1>0 DEF Finish, ChannelInv, Protocol, Phases, TypeOK
  <2>2. /\ InFlight' =
              InFlight \cup {[kind |-> "result", id |-> running, names |-> env', from |-> gen]}
        /\ stdout' \in Seq(Line)
    BY <1>6, <1>0, <2>1, Says DEF Finish, TypeOK
  <2>3. AtMostOne' /\ Requests' = Requests BY <1>0, <2>1, RequestsKept
  <2>4. TypeOK' BY <1>0, <2>1, <2>2 DEF TypeOK, hostVars, portVars
  <2>5. Phases' /\ Fresh'
    BY <2>1 DEF ChannelInv, Protocol, Phases, Fresh, Alive, hostVars, portVars
  <2>6. Ids' /\ Polite'
    BY <1>0, <2>1, <2>2, <2>3 DEF ChannelInv, Protocol, Ids, Polite, Idle, hostVars
  <2>7. Idle' BY <2>1, <2>3 DEF ChannelInv, Protocol, Polite, Idle
  <2>8. pc \notin {"control", "idle", "handshake", "register"}
    BY <2>1 DEF ChannelInv, Protocol, Controlled, Polite, Alive
  <2>9. Answered' /\ Controlled'
    BY <2>1, <2>2, <2>3, <2>7, <2>8
    DEF ChannelInv, Protocol, Answered, Controlled, Alive, hostVars
  <2>10. Bindings' /\ Exposed'
    BY <2>1, <2>8 DEF ChannelInv, Protocol, Bindings, Exposed, Alive, hostVars, portVars
  <2>11. QED BY <2>4, <2>5, <2>6, <2>9, <2>10 DEF ChannelInv, Protocol
<1>7. ASSUME TakeControl PROVE ChannelInv'
  <2> DEFINE m == Head(stdin)
             kind == IF m.kind = "get_var" THEN "value" ELSE "ack"
  <2>1. /\ guest = "ready" /\ stdin # <<>> /\ stdin' = Tail(stdin) /\ gen \in Child
        /\ m.kind \in {"set_var", "get_var", "register"}
        /\ env' = IF m.kind = "set_var" THEN env \cup {m.arg} ELSE env
        /\ shims' = IF m.kind = "register" THEN shims \cup {m.arg} ELSE shims
        /\ Say(kind, m.id)
        /\ UNCHANGED <<hostVars, portVars, gen, guest, running, hand, ended, inbox>>
    BY <1>7, <1>0 DEF TakeControl, ChannelInv, Protocol, Phases, TypeOK
  <2>2. AtMostOne' /\ stdin' \in Seq(Request) /\ m \in Request /\ m \in Requests /\ Requests' = {}
    BY <1>0, <2>1, RequestTaken DEF IsRequest
  <2>3. /\ m.id \in 0..request /\ m.id \in Nat
        /\ m.kind = "set_var" => m.arg \in Var
        /\ m.kind = "register" => m.arg \in Name
    BY <1>0, <2>2 DEF ChannelInv, Protocol, Ids, Polite, Request
  <2>4. kind \in {"value", "ack"} OBVIOUS
  <2>5. env' \subseteq Var /\ shims' \subseteq Name BY <1>0, <2>1, <2>3 DEF TypeOK
  <2> HIDE DEF m, kind
  <2>6. /\ InFlight' = InFlight \cup {[kind |-> kind, id |-> m.id, names |-> env', from |-> gen]}
        /\ stdout' \in Seq(Line)
    BY <1>0, <2>1, <2>3, <2>4, <2>5, Says
  <2>7. TypeOK' BY <1>0, <2>1, <2>2, <2>5, <2>6 DEF TypeOK, hostVars, portVars
  <2>8. Phases' /\ Fresh'
    BY <2>1 DEF ChannelInv, Protocol, Phases, Fresh, Alive, hostVars, portVars
  <2>9. Ids' /\ Polite'
    BY <2>1, <2>2, <2>6 DEF ChannelInv, Protocol, Ids, Polite, Idle, hostVars
  <2>10. pc \notin {"exec", "serve", "handshake", "register", "idle"}
    BY <2>1, <2>2 DEF ChannelInv, Protocol, Polite, Answered, Idle, Alive
  <2>11. Answered' /\ Controlled'
    BY <2>1, <2>2, <2>10
    DEF ChannelInv, Protocol, Answered, Controlled, Idle, hostVars, portVars
  <2>12. pc = "control" => m.arg = arg /\ m.kind = CASE op = "set" -> "set_var"
                              [] op = "get" -> "get_var" [] OTHER -> "register"
    BY <2>1, <2>2 DEF ChannelInv, Protocol, Controlled, Alive
  <2>13. pc = "control" => op \in {"set", "get", "register", "exec"}
    BY <1>0 DEF ChannelInv, Protocol, Phases, TypeOK
  <2>14. Idle' /\ ~Idle BY <2>2 DEF Idle
  <2>15. Alive /\ Alive' BY <2>1 DEF Alive
  <2>16. Bindings'
    BY <2>1, <2>10, <2>12, <2>13, <2>14, <2>15
    DEF ChannelInv, Protocol, Bindings, hostVars, portVars
  <2>17. ASSUME pc # "control" PROVE Exposed'
    BY <2>1, <2>10, <2>17 DEF ChannelInv, Protocol, Exposed, hostVars, portVars
  <2>18. ASSUME pc = "control" /\ op \in {"set", "get", "register"} PROVE Exposed'
    BY <2>1, <2>12, <2>14, <2>15, <2>18
    DEF ChannelInv, Protocol, Exposed, hostVars, portVars
  <2>19. ASSUME pc = "control" /\ op = "exec" PROVE Exposed'
    <3>1. shims = registered \ (todo \cup {arg}) /\ arg \in registered \ todo
      BY <2>14, <2>15, <2>19 DEF ChannelInv, Protocol, Exposed, Controlled
    <3>2. shims' = registered \ todo BY <2>1, <2>12, <2>19, <3>1
    <3>3. UNCHANGED <<pc, op, arg, asked, bound, registered, todo>>
      BY <2>1 DEF hostVars, portVars
    <3>4. asked' \cap bound' = registered'
      BY <2>19, <3>3 DEF ChannelInv, Protocol, Exposed
    <3>5. QED BY <2>14, <2>15, <2>19, <3>2, <3>3, <3>4 DEF Exposed
  <2>20. Exposed' BY <2>13, <2>17, <2>18, <2>19
  <2>21. QED BY <2>7, <2>8, <2>9, <2>11, <2>16, <2>20 DEF ChannelInv, Protocol
<1>8. ASSUME Fatal PROVE ChannelInv'
  <2>1. /\ gen \in Child /\ guest' = "dead" /\ running' = 0 /\ env' = {} /\ shims' = {}
        /\ stdin' = <<>> /\ UNCHANGED <<hostVars, portVars, gen, hand, ended, inbox>>
    BY <1>8 DEF Fatal, Gone, ChannelInv, Protocol, Phases, TypeOK
  <2>2. /\ InFlight' = InFlight \cup {[kind |-> "fatal", id |-> 0, names |-> env', from |-> gen]}
        /\ stdout' \in Seq(Line)
    BY <1>8, <1>0, <2>1, Says DEF Fatal, TypeOK
  <2>3. AtMostOne' /\ Requests' = {} BY <2>1, RequestsDropped
  <2>4. ~Alive' BY <2>1 DEF Alive
  <2>5. guest # "none" BY <1>8 DEF Fatal
  <2>6. TypeOK' BY <1>0, <2>1, <2>2 DEF TypeOK, hostVars, portVars
  <2>7. Phases' /\ Fresh'
    BY <2>1, <2>4, <2>5 DEF ChannelInv, Protocol, Phases, Fresh, hostVars, portVars
  <2>8. Ids' /\ Polite'
    BY <1>0, <2>1, <2>2, <2>3, <2>4 DEF ChannelInv, Protocol, Ids, Polite, hostVars
  <2>9. Answered' /\ Controlled' /\ Bindings' /\ Exposed'
    BY <2>1, <2>4
    DEF ChannelInv, Protocol, Answered, Controlled, Bindings, Exposed, hostVars, portVars
  <2>10. QED BY <2>6, <2>7, <2>8, <2>9 DEF ChannelInv, Protocol
<1>9. ASSUME Die PROVE ChannelInv'
  <2>1. InFlight' = InFlight
    BY <1>9, <1>0, LinesKept DEF Die, hostVars, portVars, guestVars, pipeVars
  <2>2. AtMostOne' /\ Requests' = {}
    BY <1>9, <1>0, RequestsDropped DEF Die, hostVars, portVars, guestVars, pipeVars
  <2>3. TypeOK'
    BY <1>9, <1>0 DEF Die, Gone, TypeOK, hostVars, portVars
  <2>4. Phases' /\ Fresh'
    BY <1>9 DEF ChannelInv, Protocol, Phases, Fresh, Die, Gone, Alive, hostVars, portVars
  <2>5. Ids' /\ Polite'
    BY <1>9, <1>0, <2>1, <2>2
    DEF ChannelInv, Protocol, Ids, Polite, Die, Gone, Alive, hostVars
  <2>6. Answered' /\ Controlled'
    BY <1>9
    DEF ChannelInv, Protocol, Answered, Controlled, Die, Gone, Alive, hostVars, portVars
  <2>7. Bindings' /\ Exposed'
    BY <1>9
    DEF ChannelInv, Protocol, Bindings, Exposed, Die, Gone, Alive, hostVars, portVars
  <2>8. QED BY <2>3, <2>4, <2>5, <2>6, <2>7 DEF ChannelInv, Protocol
<1>10. QED BY <1>1, <1>2, <1>3, <1>4, <1>5, <1>6, <1>7, <1>8, <1>9 DEF Guest

LEMMA CallerStep == ASSUME ChannelInv, Caller PROVE ChannelInv'
<1>0. TypeOK /\ AtMostOne /\ request \in Nat BY DEF ChannelInv, Protocol, Polite, TypeOK
<1>1. ASSUME Execute PROVE ChannelInv'
  <2>1. InFlight' = InFlight BY <1>1, LinesKept DEF Execute
  <2>2. pc = "idle" /\ op = "none" /\ ~closed /\ op' = "exec" /\ request' = request + 1
        /\ UNCHANGED <<arg, closed, known, portVars, gen, guestVars, stdout, hand, ended, inbox>>
    BY <1>1 DEF Execute, Free, ChannelInv, Protocol, Phases
  <2>3. CASE Alive /\ Send("exec", "none") /\ pc' = "exec"
    <3>1. Requests = {} BY <2>2, <2>3 DEF ChannelInv, Protocol, Polite, Idle
    <3>2. /\ AtMostOne' /\ stdin' \in Seq(Request)
          /\ Requests' = {[kind |-> "exec", id |-> request + 1, arg |-> "none"]}
      BY <1>0, <2>2, <2>3, <3>1, Asks
    <3>3. TypeOK' BY <1>0, <2>2, <2>3, <3>2 DEF TypeOK, portVars, guestVars
    <3>4. Phases' /\ Fresh'
      BY <2>2, <2>3 DEF ChannelInv, Protocol, Phases, Fresh, Alive, guestVars
    <3>5. Ids' /\ Polite'
      BY <1>0, <2>1, <2>2, <2>3, <3>2, LinesType
      DEF ChannelInv, Protocol, Ids, Polite, guestVars
    <3>6. Answered' /\ Controlled' /\ Bindings' /\ Exposed'
      BY <1>0, <2>1, <2>2, <2>3, <3>2
      DEF ChannelInv, Protocol, Ids, Answered, Controlled, Bindings, Exposed, portVars,
          guestVars
    <3>7. QED BY <3>3, <3>4, <3>5, <3>6 DEF ChannelInv, Protocol
  <2>4. CASE ~Alive /\ pc' = "restart" /\ UNCHANGED stdin
    <3>1. Requests' = Requests /\ AtMostOne' BY <1>0, <2>4, RequestsKept
    <3>3. TypeOK' BY <1>0, <2>2, <2>4 DEF TypeOK, portVars, guestVars
    <3>4. Phases' /\ Fresh'
      BY <2>2, <2>4 DEF ChannelInv, Protocol, Phases, Fresh, guestVars
    <3>5. Ids' /\ Polite'
      BY <1>0, <2>1, <2>2, <2>4, <3>1 DEF ChannelInv, Protocol, Ids, Polite, Idle, guestVars
    <3>6. Answered' /\ Controlled' /\ Bindings' /\ Exposed'
      BY <2>2, <2>4
      DEF ChannelInv, Protocol, Answered, Controlled, Bindings, Exposed, portVars
    <3>7. QED BY <3>3, <3>4, <3>5, <3>6 DEF ChannelInv, Protocol
  <2>5. QED BY <1>1, <2>3, <2>4 DEF Execute
<1>2. ASSUME Close PROVE ChannelInv'
  <2>1. /\ InFlight' \subseteq InFlight \cup {Eof(gen)} /\ hand' \in [Child -> Seq(Line)]
        /\ stdout' = <<>> /\ ended' = TRUE
    BY <1>2, <1>0, StreamDropped DEF Close, Kill
  <2>2. AtMostOne' /\ Requests' = {}
    BY <1>2, RequestsDropped DEF Close, Kill, DropStream
  <2>3. TypeOK'
    BY <1>2, <1>0, <2>1 DEF Close, Kill, Gone, DropStream, TypeOK, portVars
  <2>4. Phases' /\ Fresh'
    BY <1>2 DEF ChannelInv, Protocol, Phases, Fresh, Close, Kill, Gone, DropStream, Alive
  <2>5. Ids' /\ Polite'
    BY <1>2, <1>0, <2>1, <2>2 DEF ChannelInv, Protocol, Ids, Polite, Close, Kill, Gone, Eof
  <2>6. Answered' /\ Controlled'
    BY <1>2 DEF ChannelInv, Protocol, Answered, Controlled, Close
  <2>7. Bindings' /\ Exposed'
    BY <1>2 DEF ChannelInv, Protocol, Bindings, Exposed, Close
  <2>8. QED BY <2>3, <2>4, <2>5, <2>6, <2>7 DEF ChannelInv, Protocol
<1>3. QED BY <1>1, <1>2, CallerAsks, NamesSettle DEF Caller

LEMMA PumpStep == ASSUME ChannelInv, Pump PROVE ChannelInv'
<1>1. TypeOK /\ (gen = 0 => guest = "none") BY DEF ChannelInv, Protocol, Phases
<1>2. InFlight' \subseteq InFlight \cup {Eof(gen)} /\ TypeOK' BY <1>1, PumpMoves
<1>3. UNCHANGED <<hostVars, portVars, gen, guestVars, stdin>>
  BY DEF Pump, PumpRead, PumpEnd, PumpPut
<1>4. QED BY <1>2, <1>3, LinesMove DEF ChannelInv

-----------------------------------------------------------------------------
(* The specification.                                                        *)

LEMMA InvInit == Init => ChannelInv
<1> SUFFICES ASSUME Init PROVE ChannelInv
  OBVIOUS
<1>1. TypeOK
  <2>1. hand \in [Child -> Seq(Line)] BY DEF Init
  <2>2. inbox \in Seq(Line) /\ stdout \in Seq(Line) /\ stdin \in Seq(Request) BY DEF Init
  <2>3. QED BY <2>1, <2>2 DEF Init, TypeOK
<1>2. Requests = {} /\ InFlight = {} BY DEF Init, Requests, InFlight, Lines
<1>3. Phases /\ Fresh BY DEF Init, Phases, Fresh, Alive
<1>4. Ids /\ Polite
  BY <1>2 DEF Init, Ids, Polite, AtMostOne, Idle
<1>5. Answered /\ Controlled /\ Bindings /\ Exposed
  BY DEF Init, Answered, Controlled, Bindings, Exposed
<1>6. QED BY <1>1, <1>3, <1>4, <1>5 DEF ChannelInv, Protocol

LEMMA InvNext == ChannelInv /\ [Next]_vars => ChannelInv'
<1> SUFFICES ASSUME ChannelInv, [Next]_vars PROVE ChannelInv'
  OBVIOUS
<1>1. CASE Next BY <1>1, HostStep, CallerStep, GuestStep, PumpStep DEF Next
<1>2. CASE UNCHANGED vars
  <2>1. InFlight' = InFlight BY <1>2, LinesKept DEF vars, pipeVars
  <2>2. TypeOK'
    BY <1>2 DEF ChannelInv, TypeOK, vars, hostVars, portVars, guestVars, pipeVars
  <2>3. Protocol' BY <1>2, <2>1, LinesMove DEF vars, pipeVars
  <2>4. QED BY <2>2, <2>3 DEF ChannelInv
<1>3. QED BY <1>1, <1>2

LEMMA ChannelInvHolds == Spec => []ChannelInv
BY InvInit, InvNext, PTL DEF Spec

\* Type correctness, with no bound on the lines and requests that wait: what _recv
\* reads from _inbox and what the guest reads from its pipe are always messages of
\* the protocol, a late pump's included (_channel.py, _guest.py).
THEOREM TypeOKHolds == Spec => []TypeOK
<1>1. ChannelInv => TypeOK BY DEF ChannelInv
<1>2. QED BY <1>1, ChannelInvHolds, PTL

\* However many blocks overrun and children die, what the caller of execute and
\* set_variable was last told is bound is what is bound in the child that is there
\* now: no result left in the inbox by an earlier block or child is taken for the
\* answer that execute waits for.
THEOREM KnownIsBoundHolds == Spec => []KnownIsBound
BY ProtocolSuffices, ChannelInvHolds, PTL

\* Whichever of the port's register_host_call and bind_host_call came first, and
\* however often _restart_after replaced the child, each name that both halves
\* agree on is callable in the guest whenever the sandbox is idle, and no other.
THEOREM HostCallsReachGuestHolds == Spec => []HostCallsReachGuest
BY ProtocolSuffices, ChannelInvHolds, PTL

\* A guest blocked in a host call never finds a control request on its stdin: the
\* port's _executing keeps get_variable out of the middle of a block.
THEOREM GuestHearsOnlyItsReplyHolds == Spec => []GuestHearsOnlyItsReply
BY ProtocolSuffices, ChannelInvHolds, PTL

\* A sandbox whose _closed is set has no live child, also when it was a failed
\* restart that set it, after which close returns at once.
THEOREM NothingOutlivesHolds == Spec => []NothingOutlives
BY ProtocolSuffices, ChannelInvHolds, PTL

-----------------------------------------------------------------------------
(* The bridge.                                                               *)

Opened(r) == turn[r] \notin {"idle", "closed"}

Stack ==
    /\ Len(frames) \in 0..2
    /\ Opened(Root) <=> frames # <<>>
    /\ frames # <<>> => frames[1].sandbox = Root
    /\ Len(frames) = 2 =>
          turn[Root] = "batch" /\ frames[2].sandbox \in Siblings \ {Root}
             /\ Opened(frames[2].sandbox)
    /\ \A c \in Siblings \ {Root} :
          Opened(c) => Len(frames) = 2 /\ frames[2].sandbox = c
    /\ turn[Root] = "batch" => Root \notin Siblings

BridgeInv == Bridge!TypeOK /\ Stack /\ FinalVarIsOwn

\* The top of the stack is the frame of the REPL that runs.
LEMMA TopIsOwn ==
    ASSUME BridgeInv, NEW r \in Bridge!Repl, Opened(r), turn[r] # "batch"
    PROVE  Len(frames) \in 1..2 /\ frames[Len(frames)].sandbox = r
<1>1. CASE r = Root
  BY <1>1 DEF BridgeInv, Stack, Opened, Bridge!TypeOK, Bridge!Repl
<1>2. CASE r # Root
  BY <1>2 DEF BridgeInv, Stack, Opened, Bridge!TypeOK, Bridge!Repl
<1>3. QED BY <1>1, <1>2

LEMMA SameCardinality == \A S : Bridge!Cardinality(S) = Cardinality(S)
  BY DEF Bridge!Cardinality, Cardinality

\* A child starts only while no other child runs.
LEMMA OneAtATime ==
    ASSUME PoolWorkers = 1, IsFiniteSet(Siblings), Cardinality(Bridge!Busy) < PoolWorkers
    PROVE  \A c \in Siblings : ~Opened(c)
<1>1. Bridge!Busy \subseteq Siblings BY DEF Bridge!Busy
<1>2. IsFiniteSet(Bridge!Busy) BY <1>1, FS_Subset
<1>3. Cardinality(Bridge!Busy) = 0 BY <1>2, FS_CardinalityType
<1>4. Bridge!Busy = {} BY <1>2, <1>3, FS_EmptySet
<1>5. QED BY <1>4 DEF Bridge!Busy, Opened

LEMMA BridgePush ==
    ASSUME PoolWorkers = 1, IsFiniteSet(Siblings), BridgeInv,
           NEW r \in Bridge!Repl, Bridge!Push(r)
    PROVE  BridgeInv'
<1> DEFINE f == [sandbox |-> r, codeHasRun |-> FALSE]
<1>1. /\ turn[r] = "idle" /\ turn' = [turn EXCEPT ![r] = "opening"]
      /\ frames' = Append(frames, f) /\ source' = source
  BY DEF Bridge!Push, Bridge!Goto
<1>2. f \in Bridge!Frame BY DEF Bridge!Frame, Bridge!Repl
<1>3. Bridge!TypeOK'
  BY <1>1, <1>2 DEF BridgeInv, Bridge!TypeOK, Bridge!Frame
<1>4. Len(frames') = Len(frames) + 1 /\ frames'[Len(frames) + 1] = f
      /\ \A i \in 1..Len(frames) : frames'[i] = frames[i]
  BY <1>1 DEF BridgeInv, Bridge!TypeOK
<1>5. CASE r = Root
  <2>1. frames = <<>> BY <1>1, <1>5 DEF BridgeInv, Stack, Opened
  <2>2. \A c \in Siblings \ {Root} : ~Opened(c) /\ turn'[c] = turn[c]
    BY <1>1, <1>5, <2>1 DEF BridgeInv, Stack, Bridge!TypeOK, Bridge!Repl
  <2>3. Stack' BY <1>1, <1>3, <1>4, <1>5, <2>1, <2>2 DEF Stack, Opened, Bridge!TypeOK, BridgeInv
  <2>4. QED BY <1>1, <1>3, <2>3 DEF BridgeInv, FinalVarIsOwn, Bridge!FinalVarIsOwn
<1>6. CASE r # Root
  <2>0. turn[Root] = "batch" /\ Cardinality(Bridge!Busy) < PoolWorkers
    BY <1>6, SameCardinality DEF Bridge!Push, Bridge!MayStart
  <2>1. turn[Root] = "batch" /\ \A c \in Siblings : ~Opened(c)
    BY <2>0, OneAtATime
  <2>2. r \in Siblings \ {Root} BY <1>6 DEF Bridge!Repl
  <2>3. Len(frames) = 1 BY <2>1, <2>2 DEF BridgeInv, Stack, Opened, Bridge!TypeOK
  <2>4. \A c \in Bridge!Repl : c # r => turn'[c] = turn[c]
    BY <1>1 DEF BridgeInv, Bridge!TypeOK
  <2>5. turn'[r] = "opening" BY <1>1 DEF BridgeInv, Bridge!TypeOK
  <2>6. Root \in Bridge!Repl /\ Siblings \subseteq Bridge!Repl BY DEF Bridge!Repl
  <2>7. Stack'
    BY <1>3, <1>4, <1>6, <2>1, <2>2, <2>3, <2>4, <2>5, <2>6
    DEF Stack, Opened, Bridge!TypeOK, BridgeInv
  <2>8. QED BY <1>1, <1>3, <2>7 DEF BridgeInv, FinalVarIsOwn, Bridge!FinalVarIsOwn
<1>7. QED BY <1>5, <1>6

\* A move of one REPL that is open before and after and leaves the stack alone, or
\* only sets codeHasRun on its top.
LEMMA BridgeMove ==
    ASSUME BridgeInv, Bridge!TypeOK', FinalVarIsOwn',
           NEW r \in Bridge!Repl, NEW to, to \notin {"idle", "closed"},
           Opened(r), turn' = [turn EXCEPT ![r] = to],
           turn[r] = "batch" => r = Root /\ \A c \in Siblings : ~Opened(c),
           to = "batch" => r = Root /\ Root \notin Siblings,
           Len(frames') = Len(frames),
           \A i \in 1..Len(frames) : frames'[i].sandbox = frames[i].sandbox
    PROVE  BridgeInv'
<1>1. \A c \in Bridge!Repl : Opened(c)' <=> Opened(c)
  BY DEF BridgeInv, Bridge!TypeOK, Opened
<1>2. Root \in Bridge!Repl /\ Siblings \subseteq Bridge!Repl BY DEF Bridge!Repl
<1>3. turn'[r] = to /\ \A c \in Bridge!Repl : c # r => turn'[c] = turn[c]
  BY DEF BridgeInv, Bridge!TypeOK
<1>4. frames' # <<>> <=> frames # <<>>
  BY DEF BridgeInv, Bridge!TypeOK
<1>5. CASE Len(frames) # 2
  BY <1>1, <1>2, <1>3, <1>4, <1>5 DEF BridgeInv, Stack, Bridge!TypeOK
<1>6. CASE Len(frames) = 2
  <2>1. r # Root BY <1>6 DEF BridgeInv, Stack
  <2>2. QED BY <1>1, <1>2, <1>3, <1>4, <1>6, <2>1 DEF BridgeInv, Stack, Bridge!TypeOK
<1>7. QED BY <1>5, <1>6

LEMMA BridgePop ==
    ASSUME BridgeInv, NEW r \in Bridge!Repl, Bridge!Pop(r)
    PROVE  BridgeInv'
<1> DEFINE n == Len(frames)
           own == {i \in 1..n : frames[i].sandbox = r}
<1>1. /\ turn[r] = "close" /\ turn' = [turn EXCEPT ![r] = "closed"] /\ source' = source
      /\ frames' = IF own = {} THEN frames ELSE Bridge!RemoveAt(frames, Bridge!Max(own))
  BY DEF Bridge!Pop, Bridge!Goto, Bridge!Top
<1>2. n \in 1..2 /\ frames[n].sandbox = r /\ frames[1].sandbox = Root
      /\ frames \in Seq(Bridge!Frame)
  BY <1>1, TopIsOwn DEF Opened, BridgeInv, Stack, Bridge!TypeOK
<1>3. own = {n}
  BY <1>1, <1>2 DEF BridgeInv, Stack
<1>4. Bridge!Max(own) = n BY <1>2, <1>3 DEF Bridge!Max
<1>5. frames' = SubSeq(frames, 1, n - 1) \o SubSeq(frames, n + 1, n)
  BY <1>1, <1>3, <1>4 DEF Bridge!RemoveAt
<1>6. frames' \in Seq(Bridge!Frame) /\ Len(frames') = n - 1
      /\ \A i \in 1..(n - 1) : frames'[i] = frames[i]
  <2>1. SubSeq(frames, n + 1, n) = <<>> BY <1>2
  <2>2. SubSeq(frames, 1, n - 1) \in Seq(Bridge!Frame) /\ Len(SubSeq(frames, 1, n - 1)) = n - 1
        /\ \A i \in 1..(n - 1) : SubSeq(frames, 1, n - 1)[i] = frames[i]
    <3>1. n = Len(frames) OBVIOUS
    <3> HIDE DEF n
    <3>2. n - 1 \in 0..1 /\ n - 1 <= Len(frames) BY <1>2, <3>1
    <3>3. QED BY <1>2, <3>1, <3>2
  <2>3. QED BY <1>5, <2>1, <2>2
<1> HIDE DEF n, own
<1>7. Bridge!TypeOK'
  BY <1>1, <1>6 DEF BridgeInv, Bridge!TypeOK
<1>8. turn'[r] = "closed" /\ \A c \in Bridge!Repl : c # r => turn'[c] = turn[c]
  BY <1>1 DEF BridgeInv, Bridge!TypeOK
<1>9. Root \in Bridge!Repl /\ Siblings \subseteq Bridge!Repl BY DEF Bridge!Repl
<1>10. Stack'
  <2>1. CASE n = 1
    <3>1. r = Root BY <1>2, <2>1
    <3>2. \A c \in Siblings \ {Root} : ~Opened(c) BY <2>1 DEF n, BridgeInv, Stack
    <3>3. frames' = <<>> BY <1>6, <2>1
    <3>4. QED BY <1>8, <1>9, <3>1, <3>2, <3>3 DEF Stack, Opened, BridgeInv
  <2>2. CASE n = 2
    <3>1. r \in Siblings \ {Root} /\ turn[Root] = "batch"
      BY <1>2, <2>2 DEF n, BridgeInv, Stack
    <3>2. \A c \in Siblings \ {Root} : c # r => ~Opened(c)
      BY <1>2, <2>2 DEF n, BridgeInv, Stack
    <3>3. Len(frames') = 1 /\ frames' # <<>> /\ frames'[1] = frames[1] BY <1>6, <2>2
    <3>4. QED BY <1>2, <1>8, <1>9, <3>1, <3>2, <3>3 DEF Stack, Opened, BridgeInv
  <2>3. QED BY <1>2, <2>1, <2>2
<1>11. QED BY <1>1, <1>7, <1>10 DEF BridgeInv, FinalVarIsOwn, Bridge!FinalVarIsOwn

LEMMA BridgeStep ==
    ASSUME PoolWorkers = 1, IsFiniteSet(Siblings), BridgeInv, [Bridge!Next]_bridgeVars
    PROVE  BridgeInv'
<1>1. Root \in Bridge!Repl BY DEF Bridge!Repl
<1>2. CASE Bridge!Batch
  <2>1. /\ turn[Root] = "turn" /\ turn' = [turn EXCEPT ![Root] = "batch"]
        /\ frames' = frames /\ source' = source /\ \A c \in Siblings : turn[c] = "idle"
    BY <1>2 DEF Bridge!Batch, Bridge!Goto
  <2>2. Bridge!TypeOK' /\ FinalVarIsOwn'
    BY <1>1, <2>1 DEF BridgeInv, Bridge!TypeOK, FinalVarIsOwn, Bridge!FinalVarIsOwn
  <2>3. QED BY <1>1, <2>1, <2>2, BridgeMove DEF Opened
<1>3. CASE Bridge!Join
  <2>1. /\ turn[Root] = "batch" /\ turn' = [turn EXCEPT ![Root] = "observe"]
        /\ frames' = frames /\ source' = source /\ \A c \in Siblings : turn[c] = "closed"
    BY <1>3 DEF Bridge!Join, Bridge!Goto
  <2>2. Bridge!TypeOK' /\ FinalVarIsOwn'
    BY <1>1, <2>1 DEF BridgeInv, Bridge!TypeOK, FinalVarIsOwn, Bridge!FinalVarIsOwn
  <2>3. QED BY <1>1, <2>1, <2>2, BridgeMove DEF Opened
<1>4. ASSUME NEW r \in Bridge!Repl, Bridge!RunsCode(r) \/ Bridge!GivesUp(r)
      PROVE  BridgeInv'
  <2>1. PICK to \in {"observe", "close"} :
           /\ turn[r] = "turn" /\ turn' = [turn EXCEPT ![r] = to]
           /\ frames' = frames /\ source' = source
    BY <1>4 DEF Bridge!RunsCode, Bridge!GivesUp, Bridge!Goto
  <2>2. Bridge!TypeOK' /\ FinalVarIsOwn'
    BY <2>1 DEF BridgeInv, Bridge!TypeOK, FinalVarIsOwn, Bridge!FinalVarIsOwn
  <2>3. QED BY <2>1, <2>2, BridgeMove DEF Opened
<1>5. ASSUME NEW r \in Bridge!Repl, Bridge!Opening(r) \/ Bridge!Format(r)
      PROVE  BridgeInv'
  <2>1. PICK b \in BOOLEAN :
           /\ turn[r] \in {"opening", "observe"} /\ turn' = [turn EXCEPT ![r] = "turn"]
           /\ frames' = [frames EXCEPT ![Len(frames)].codeHasRun = b] /\ source' = source
    BY <1>5 DEF Bridge!Opening, Bridge!Format, Bridge!Goto, Bridge!Top
  <2>2. Len(frames) \in 1..2 /\ frames \in Seq(Bridge!Frame)
    BY <2>1, TopIsOwn DEF Opened, BridgeInv, Bridge!TypeOK
  <2>3. frames' \in Seq(Bridge!Frame) /\ Len(frames') = Len(frames)
        /\ \A i \in 1..Len(frames) : frames'[i].sandbox = frames[i].sandbox
    <3> DEFINE n == Len(frames)
               f == [frames[n] EXCEPT !.codeHasRun = b]
    <3>0. n \in 1..Len(frames) /\ frames[n] \in Bridge!Frame BY <2>2
    <3>1. f \in Bridge!Frame /\ f.sandbox = frames[n].sandbox
      BY <3>0 DEF Bridge!Frame
    <3>2. frames' = [frames EXCEPT ![n] = f] BY <2>1
    <3> HIDE DEF f
    <3>3. QED BY <2>2, <3>1, <3>2
  <2>4. Bridge!TypeOK' /\ FinalVarIsOwn'
    BY <2>1, <2>3 DEF BridgeInv, Bridge!TypeOK, FinalVarIsOwn, Bridge!FinalVarIsOwn
  <2>5. QED BY <2>1, <2>3, <2>4, BridgeMove DEF Opened
<1>6. ASSUME NEW r \in Bridge!Repl, Bridge!FinalVar(r)
      PROVE  BridgeInv'
  <2>1. /\ turn[r] = "turn" /\ turn' = [turn EXCEPT ![r] = "close"] /\ frames' = frames
        /\ source' = [source EXCEPT ![r] = frames[Len(frames)].sandbox]
    BY <1>6 DEF Bridge!FinalVar, Bridge!Goto, Bridge!Top
  <2>2. frames[Len(frames)].sandbox = r BY <2>1, TopIsOwn DEF Opened
  <2>3. Bridge!TypeOK' /\ FinalVarIsOwn'
    BY <2>1, <2>2 DEF BridgeInv, Bridge!TypeOK, FinalVarIsOwn, Bridge!FinalVarIsOwn
  <2>4. QED BY <2>1, <2>3, BridgeMove DEF Opened
<1>7. CASE UNCHANGED bridgeVars
  BY <1>7 DEF bridgeVars, BridgeInv, Bridge!TypeOK, Stack, Opened, FinalVarIsOwn,
              Bridge!FinalVarIsOwn
<1>8. QED
  BY <1>2, <1>3, <1>4, <1>5, <1>6, <1>7, BridgePush, BridgePop DEF Bridge!Next

\* On a pool of one worker, the same as running the children one by one, the answer of
\* FINAL_VAR is read from the sandbox of the REPL that gave it, though _read_variable
\* asks only for the frame on top of the stack that all REPLs share.
THEOREM FinalVarIsOwnHolds ==
    ASSUME PoolWorkers = 1, IsFiniteSet(Siblings)
    PROVE  MCSpec => []FinalVarIsOwn
<1>1. MCInit => BridgeInv
  BY DEF MCInit, Bridge!Init, BridgeInv, Bridge!TypeOK, Stack, Opened, FinalVarIsOwn,
         Bridge!FinalVarIsOwn, Bridge!Repl
<1>2. BridgeInv /\ [MCNext]_mcVars => BridgeInv'
  <2>1. [MCNext]_mcVars => [Bridge!Next]_bridgeVars
    BY DEF MCNext, InChannel, InExit, InBackend, InBridge, mcVars, bridgeVars
  <2>2. QED BY <2>1, BridgeStep
<1>3. BridgeInv => FinalVarIsOwn BY DEF BridgeInv
<1>4. MCSpec => MCInit /\ [][MCNext]_mcVars BY PTL DEF MCSpec
<1>5. QED BY <1>1, <1>2, <1>3, <1>4, PTL

\* On any pool: a REPL that is open has one frame, and no other REPL has any.
OneFrameEach ==
    /\ \A r \in Bridge!Repl :
          Opened(r) <=> \E i \in 1..Len(frames) : frames[i].sandbox = r
    /\ \A i, j \in 1..Len(frames) : frames[i].sandbox = frames[j].sandbox => i = j

FramesInv == Bridge!TypeOK /\ OneFrameEach

LEMMA FramePushed ==
    ASSUME FramesInv, NEW r \in Bridge!Repl, Bridge!Push(r)
    PROVE  FramesInv'
<1> DEFINE f == [sandbox |-> r, codeHasRun |-> FALSE]
           n == Len(frames)
<1>1. /\ turn[r] = "idle" /\ turn' = [turn EXCEPT ![r] = "opening"]
      /\ frames' = Append(frames, f) /\ source' = source
  BY DEF Bridge!Push, Bridge!Goto
<1>2. frames \in Seq(Bridge!Frame) /\ n \in Nat BY DEF FramesInv, Bridge!TypeOK
<1>3. f \in Bridge!Frame BY DEF Bridge!Frame
<1>4. Bridge!TypeOK' BY <1>1, <1>2, <1>3 DEF FramesInv, Bridge!TypeOK
<1>5. /\ Len(frames') = n + 1 /\ frames'[n + 1].sandbox = r
      /\ \A i \in 1..n : frames'[i] = frames[i]
  BY <1>1, <1>2
<1>6. ~Opened(r) /\ Opened(r)' /\ \A c \in Bridge!Repl \ {r} : Opened(c)' <=> Opened(c)
  BY <1>1 DEF FramesInv, Bridge!TypeOK, Opened
<1>7. \A i \in 1..n : frames[i].sandbox # r BY <1>6 DEF FramesInv, OneFrameEach
<1> HIDE DEF f, n
<1>8. n + 1 \in 1..(n + 1) /\ \A i \in 1..(n + 1) : i = n + 1 \/ i \in 1..n BY <1>2
<1>9. OneFrameEach'
  <2>1. ASSUME NEW c \in Bridge!Repl
        PROVE  Opened(c)' <=> \E i \in 1..(n + 1) : frames'[i].sandbox = c
    BY <1>2, <1>5, <1>6, <1>7, <1>8 DEF FramesInv, OneFrameEach, n
  <2>2. \A i, j \in 1..(n + 1) : frames'[i].sandbox = frames'[j].sandbox => i = j
    BY <1>2, <1>5, <1>7, <1>8 DEF FramesInv, OneFrameEach, n
  <2>3. QED BY <1>5, <2>1, <2>2 DEF OneFrameEach, Opened
<1>10. QED BY <1>4, <1>9 DEF FramesInv

LEMMA FramePopped ==
    ASSUME FramesInv, NEW r \in Bridge!Repl, Bridge!Pop(r)
    PROVE  FramesInv'
<1> DEFINE n == Len(frames)
           own == {i \in 1..n : frames[i].sandbox = r}
<1>1. /\ turn[r] = "close" /\ turn' = [turn EXCEPT ![r] = "closed"] /\ source' = source
      /\ frames' = IF own = {} THEN frames ELSE Bridge!RemoveAt(frames, Bridge!Max(own))
  BY DEF Bridge!Pop, Bridge!Goto, Bridge!Top
<1>2. frames \in Seq(Bridge!Frame) /\ n \in Nat BY DEF FramesInv, Bridge!TypeOK
<1>3. Opened(r) /\ ~Opened(r)' /\ \A c \in Bridge!Repl \ {r} : Opened(c)' <=> Opened(c)
  BY <1>1 DEF FramesInv, Bridge!TypeOK, Opened
<1>4. PICK m \in 1..n : frames[m].sandbox = r
  BY <1>3 DEF FramesInv, OneFrameEach
<1>5. own = {m} BY <1>4 DEF FramesInv, OneFrameEach
<1>6. Bridge!Max(own) = m BY <1>5 DEF Bridge!Max
<1>7. frames' = SubSeq(frames, 1, m - 1) \o SubSeq(frames, m + 1, n)
  BY <1>1, <1>5, <1>6 DEF Bridge!RemoveAt
<1> HIDE DEF own
<1>8. /\ frames' \in Seq(Bridge!Frame) /\ Len(frames') = n - 1
      /\ \A i \in 1..(n - 1) : frames'[i] = IF i < m THEN frames[i] ELSE frames[i + 1]
  <2> DEFINE a == SubSeq(frames, 1, m - 1)
             b == SubSeq(frames, m + 1, n)
  <2>1. m - 1 \in Nat /\ n - m \in Nat /\ m \in Nat /\ m >= 1 /\ n >= m BY <1>2, <1>4
  <2>2. /\ a \in Seq(Bridge!Frame) /\ Len(a) = m - 1
        /\ \A i \in 1..(m - 1) : a[i] = frames[i]
    BY <1>2, <2>1
  <2>3. /\ b \in Seq(Bridge!Frame) /\ Len(b) = n - m
        /\ \A i \in 1..(n - m) : b[i] = frames[i + m]
    BY <1>2, <2>1
  <2> HIDE DEF a, b, n
  <2>4. frames' = a \o b BY <1>7 DEF a, b
  <2>5. frames' \in Seq(Bridge!Frame) /\ Len(frames') = n - 1
    <3>1. a \o b \in Seq(Bridge!Frame) /\ Len(a \o b) = Len(a) + Len(b)
      <4>1. a \in Seq(Bridge!Frame) /\ b \in Seq(Bridge!Frame) BY <2>2, <2>3
      <4>2. a \o b \in Seq(Bridge!Frame) BY <4>1
      <4>3. Len(a \o b) = Len(a) + Len(b) BY <4>1
      <4>4. QED BY <4>2, <4>3
    <3>2. (m - 1) + (n - m) = n - 1 BY <1>2, <2>1
    <3>3. QED BY <2>2, <2>3, <2>4, <3>1, <3>2
  <2>6. ASSUME NEW i \in 1..(n - 1)
        PROVE  frames'[i] = IF i < m THEN frames[i] ELSE frames[i + 1]
    <3>1. i \in 1..(Len(a) + Len(b)) BY <1>2, <2>1, <2>2, <2>3
    <3>2. frames'[i] = IF i <= Len(a) THEN a[i] ELSE b[i - Len(a)]
      BY <2>2, <2>3, <2>4, <3>1
    <3>3. CASE i < m BY <1>2, <2>1, <2>2, <3>2, <3>3
    <3>4. CASE ~(i < m)
      <4>1. i - (m - 1) \in 1..(n - m) /\ i - (m - 1) + m = i + 1 BY <1>2, <2>1, <3>4
      <4>2. QED BY <2>1, <2>2, <2>3, <3>2, <3>4, <4>1
    <3>5. QED BY <3>3, <3>4
  <2>7. QED BY <2>5, <2>6
<1> HIDE DEF n
<1>9. Bridge!TypeOK' BY <1>1, <1>8 DEF FramesInv, Bridge!TypeOK
<1>10. ASSUME NEW i \in 1..(n - 1)
       PROVE  \E j \in 1..n : j # m /\ frames'[i] = frames[j]
                 /\ j = IF i < m THEN i ELSE i + 1
  <2>1. CASE i < m BY <1>2, <1>4, <1>8, <2>1
  <2>2. CASE ~(i < m)
    <3>1. i + 1 \in 1..n /\ i + 1 # m BY <1>2, <1>4, <2>2
    <3>2. QED BY <1>8, <2>2, <3>1
  <2>3. QED BY <2>1, <2>2
<1>11. ASSUME NEW j \in 1..n, j # m
       PROVE  \E i \in 1..(n - 1) : frames'[i] = frames[j]
  <2>1. CASE j < m BY <1>2, <1>4, <1>8, <2>1
  <2>2. CASE ~(j < m)
    <3>1. j - 1 \in 1..(n - 1) /\ ~(j - 1 < m) /\ (j - 1) + 1 = j BY <1>2, <1>4, <1>11, <2>2
    <3>2. QED BY <1>8, <3>1
  <2>3. QED BY <2>1, <2>2
<1>12. OneFrameEach'
  <2>1. ASSUME NEW c \in Bridge!Repl
        PROVE  Opened(c)' <=> \E i \in 1..(n - 1) : frames'[i].sandbox = c
    <3>1. CASE c = r
      BY <1>3, <1>4, <1>10, <3>1 DEF FramesInv, OneFrameEach, n
    <3>2. CASE c # r
      <4>1. Opened(c) <=> \E j \in 1..n : frames[j].sandbox = c
        BY DEF FramesInv, OneFrameEach, n
      <4>2. \A j \in 1..n : frames[j].sandbox = c => j # m BY <1>4, <3>2
      <4>3. (\E j \in 1..n : frames[j].sandbox = c)
              => \E i \in 1..(n - 1) : frames'[i].sandbox = c
        BY <1>11, <4>2
      <4>4. (\E i \in 1..(n - 1) : frames'[i].sandbox = c)
              => \E j \in 1..n : frames[j].sandbox = c
        BY <1>10
      <4>5. QED BY <1>3, <3>2, <4>1, <4>3, <4>4
    <3>3. QED BY <3>1, <3>2
  <2>2. ASSUME NEW i \in 1..(n - 1), NEW j \in 1..(n - 1), frames'[i].sandbox = frames'[j].sandbox
        PROVE  i = j
    <3>1. PICK k \in 1..n : frames'[i] = frames[k] /\ k = IF i < m THEN i ELSE i + 1 BY <1>10
    <3>2. PICK l \in 1..n : frames'[j] = frames[l] /\ l = IF j < m THEN j ELSE j + 1 BY <1>10
    <3>3. k = l BY <2>2, <3>1, <3>2 DEF FramesInv, OneFrameEach, n
    <3>4. QED BY <1>2, <1>4, <3>1, <3>2, <3>3
  <2>3. QED BY <1>8, <2>1, <2>2 DEF OneFrameEach, Opened
<1>13. QED BY <1>9, <1>12 DEF FramesInv

LEMMA FramesStep ==
    ASSUME FramesInv, [Bridge!Next]_bridgeVars PROVE FramesInv'
<1>1. Root \in Bridge!Repl BY DEF Bridge!Repl
<1>2. CASE Bridge!Batch
  BY <1>1, <1>2 DEF Bridge!Batch, Bridge!Goto, FramesInv, Bridge!TypeOK, OneFrameEach, Opened
<1>3. CASE Bridge!Join
  BY <1>1, <1>3 DEF Bridge!Join, Bridge!Goto, FramesInv, Bridge!TypeOK, OneFrameEach, Opened
<1>4. ASSUME NEW r \in Bridge!Repl, Bridge!RunsCode(r) \/ Bridge!GivesUp(r)
      PROVE  FramesInv'
  BY <1>4
  DEF Bridge!RunsCode, Bridge!GivesUp, Bridge!Goto, FramesInv, Bridge!TypeOK, OneFrameEach, Opened
<1>5. ASSUME NEW r \in Bridge!Repl, Bridge!Opening(r) \/ Bridge!Format(r)
      PROVE  FramesInv'
  <2> DEFINE n == Len(frames)
  <2>1. PICK b \in BOOLEAN :
           /\ turn[r] \in {"opening", "observe"} /\ turn' = [turn EXCEPT ![r] = "turn"]
           /\ frames' = [frames EXCEPT ![n].codeHasRun = b] /\ source' = source
    BY <1>5 DEF Bridge!Opening, Bridge!Format, Bridge!Goto, Bridge!Top
  <2>2. n \in 1..n /\ frames \in Seq(Bridge!Frame) /\ frames[n] \in Bridge!Frame
    BY <2>1 DEF FramesInv, Bridge!TypeOK, OneFrameEach, Opened
  <2>3. frames' \in Seq(Bridge!Frame) /\ Len(frames') = n
        /\ \A i \in 1..n : frames'[i].sandbox = frames[i].sandbox
    <3> DEFINE f == [frames[n] EXCEPT !.codeHasRun = b]
    <3>1. f \in Bridge!Frame /\ f.sandbox = frames[n].sandbox BY <2>2 DEF Bridge!Frame
    <3>2. frames' = [frames EXCEPT ![n] = f] BY <2>1
    <3> HIDE DEF f
    <3>3. QED BY <2>2, <3>1, <3>2
  <2>4. \A c \in Bridge!Repl : Opened(c)' <=> Opened(c)
    BY <2>1 DEF FramesInv, Bridge!TypeOK, Opened
  <2>5. Bridge!TypeOK' BY <2>1, <2>3 DEF FramesInv, Bridge!TypeOK
  <2>6. QED BY <2>3, <2>4, <2>5 DEF FramesInv, OneFrameEach, Opened
<1>6. ASSUME NEW r \in Bridge!Repl, Bridge!FinalVar(r) PROVE FramesInv'
  <2>1. /\ turn[r] = "turn" /\ turn' = [turn EXCEPT ![r] = "close"] /\ frames' = frames
        /\ source' = [source EXCEPT ![r] = frames[Len(frames)].sandbox]
    BY <1>6 DEF Bridge!FinalVar, Bridge!Goto, Bridge!Top
  <2>2. frames[Len(frames)].sandbox \in Bridge!Repl
    <3>1. Len(frames) \in 1..Len(frames) /\ frames \in Seq(Bridge!Frame)
      BY <2>1 DEF FramesInv, Bridge!TypeOK, OneFrameEach, Opened
    <3>2. frames[Len(frames)] \in Bridge!Frame BY <3>1
    <3>3. QED BY <3>2 DEF Bridge!Frame
  <2>3. QED BY <2>1, <2>2 DEF FramesInv, Bridge!TypeOK, OneFrameEach, Opened
<1>7. CASE UNCHANGED bridgeVars
  BY <1>7 DEF bridgeVars, FramesInv, Bridge!TypeOK, OneFrameEach, Opened
<1>8. QED
  BY <1>2, <1>3, <1>4, <1>5, <1>6, <1>7, FramePushed, FramePopped DEF Bridge!Next

-----------------------------------------------------------------------------
(* The way out of the process.                                               *)

\* From the mark on, a close is under way; up to the wait, its kill is to come.
Marked == {"unregister", "discard", "reap", "wait", "clear"}
KillToCome == {"unregister", "discard", "reap", "wait"}

\* The main thread has been unwound out of what it was doing.
Unwound(t) == t = Main /\ signal # "none" /\ frame = "none"

\* Who is inside a block, as far as its owner knows or is about to find out.
InBlock(t) ==
    child[t] \in busy =>
        \/ at[t] \in {"exec", "restart"}
        \/ Unwound(t) /\ at[t] \in {"raised", "mark"} \cup KillToCome

\* A closed sandbox whose child is inside a block is about to be killed.
KilledSoon(t) ==
    child[t] \in busy /\ shut[t] =>
        \/ t = target /\ frame \in KillToCome
        \/ Unwound(t) /\ at[t] \in KillToCome

\* A child that the exit path caught is closed, or the exit path is yet to do it.
ClosedSoon(t) ==
    child[t] \in caught /\ ~shut[t] =>
        \/ t \in toClose /\ frame \notin {"none", "copy", "copying"}
        \/ t = target /\ frame \in {"test", "mark"}

MarkedIsShut(t) == at[t] \in Marked => shut[t]

UsableIsTracked(t) == at[t] \in {"added", "open", "exec"} => t \in live \/ shut[t]

OfThread(t) ==
    InBlock(t) /\ KilledSoon(t) /\ ClosedSoon(t) /\ MarkedIsShut(t) /\ UsableIsTracked(t)

OneOwner ==
    /\ \A t, u \in Exit!Thread : child[t] = child[u] /\ child[t] # 0 => t = u
    /\ \A c \in busy : \E t \in Exit!Thread : child[t] = c
    /\ \A t \in Exit!Thread : child[t] <= born
    /\ caught \subseteq 1..born

OfFrame ==
    /\ frame \in Marked => shut[target]
    /\ frame = "discard" => lock = "frame"
    /\ frame = "none" <=> why = "none"
    /\ why = "signal" => signal # "none"
    /\ why = "exit" => \A t \in Exit!Thread : at[t] = "done"
    /\ signal = "none" /\ frame = "none" /\ ~over => caught = {}
    /\ installed = "no" => caught = {} /\ frame = "none" /\ live = {}

ExitInv ==
    /\ Exit!TypeOK /\ OneOwner /\ OfFrame /\ Exit!CaughtIsKilled
    /\ \A t \in Exit!Thread : OfThread(t)

LEMMA ExitInvSuffices == ExitInv => ExitPathMissesNone
  BY DEF ExitInv, OfThread, UsableIsTracked, ExitPathMissesNone, Exit!ExitPathMissesNone,
         Exit!ExecutingIsTracked

\* A step of a thread that disturbs no other thread's sandbox leaves the invariant to
\* be shown for that thread only.
LEMMA OwnerStep ==
    ASSUME ExitInv, Exit!TypeOK', NEW t \in Exit!Thread, OfThread(t)',
           Exit!Runs(t), at[t] # "done",
           \A u \in Exit!Thread \ {t} :
              /\ at'[u] = at[u] /\ child'[u] = child[u] /\ shut'[u] = shut[u]
              /\ u \in live' <=> u \in live,
           \/ child'[t] \in {0, child[t]} /\ born' = born
           \/ child'[t] = born + 1 /\ born' = born + 1,
           \A c \in busy' : c = child'[t] \/ c \in busy \ {child[t]},
           shut[t] => shut'[t],
           lock = "frame" => lock' = "frame",
           installed' = "no" => installed = "no" /\ live' \subseteq live,
           UNCHANGED <<signal, frame, why, counted, toClose, target, caught, over>>
    PROVE  ExitInv'
<1>1. /\ \A u \in Exit!Thread : child[u] \in Nat /\ child'[u] \in Nat
      /\ born \in Nat /\ born' \in Nat /\ 0 \notin busy'
  BY DEF ExitInv, Exit!TypeOK, Exit!Child, Exit!Sandbox
<1>2. \A u \in Exit!Thread \ {t} : child[u] # 0 => child[u] # child[t] /\ child[u] # child'[t]
  BY <1>1 DEF ExitInv, OneOwner
<1>3. OneOwner'
  <2>1. \A u, v \in Exit!Thread : child'[u] = child'[v] /\ child'[u] # 0 => u = v
    BY <1>1, <1>2 DEF ExitInv, OneOwner
  <2>2. \A c \in busy' : \E u \in Exit!Thread : child'[u] = c
    <3>1. SUFFICES ASSUME NEW c \in busy', c # child'[t]
                   PROVE  \E u \in Exit!Thread : child'[u] = c
      OBVIOUS
    <3>2. c \in busy /\ c # child[t] BY <3>1
    <3>3. PICK u \in Exit!Thread : child[u] = c BY <3>2 DEF ExitInv, OneOwner
    <3>4. QED BY <3>2, <3>3
  <2>3. \A u \in Exit!Thread : child'[u] <= born' BY <1>1 DEF ExitInv, OneOwner
  <2>4. caught' \subseteq 1..born' BY <1>1 DEF ExitInv, OneOwner
  <2>5. QED BY <2>1, <2>2, <2>3, <2>4 DEF OneOwner
<1>4. OfFrame' /\ Exit!CaughtIsKilled'
  BY DEF ExitInv, OfFrame, Exit!CaughtIsKilled, Exit!Runs, Exit!TypeOK, Exit!Thread, Exit!Sandbox
<1>5. ASSUME NEW u \in Exit!Thread \ {t} PROVE OfThread(u)'
  <2>1. child'[u] \in busy' => child[u] \in busy BY <1>1, <1>2
  <2>2. OfThread(u) BY DEF ExitInv
  <2>3. QED
    BY <2>1, <2>2 DEF OfThread, InBlock, KilledSoon, ClosedSoon, MarkedIsShut,
                      UsableIsTracked, Unwound
<1>6. QED BY <1>3, <1>4, <1>5 DEF ExitInv

USE DEF Exit!threadVars, Exit!sandboxVars, Exit!registryVars, Exit!frameVars

Point == {"start", "handshake", "register", "open", "exec", "restart", "raised", "done"}
             \cup Exit!Closing \cup Exit!Locked

LEMMA NotThreads == "frame" \notin Exit!Thread /\ "free" \notin Exit!Thread
  BY SandboxAssumption DEF Exit!Thread

LEMMA Goes ==
    ASSUME Exit!TypeOK, NEW t \in Exit!Thread, NEW from, NEW to \in Point, Exit!Goto(t, from, to)
    PROVE  /\ Exit!Runs(t) /\ at[t] = from /\ at'[t] = to
           /\ \A u \in Exit!Thread \ {t} : at'[u] = at[u]
           /\ at' \in [Exit!Thread -> Point]
  BY DEF Exit!Goto, Exit!TypeOK, Point

LEMMA OwnerActs == ASSUME ExitInv, NEW t \in Exit!Thread, Exit!Owner(t) PROVE ExitInv'
<1>0. Exit!TypeOK BY DEF ExitInv
<1>1. ASSUME Exit!Spawn(t) PROVE ExitInv'
  <2>1. /\ at' \in [Exit!Thread -> Point]
        /\ \A u \in Exit!Thread : lock' = u <=> at'[u] \in Exit!Locked
        /\ lock = "frame" => lock' = "frame"
        /\ Exit!Runs(t) /\ at[t] # "done" /\ \A u \in Exit!Thread \ {t} : at'[u] = at[u]
    BY <1>1, <1>0, Goes, NotThreads
    DEF Exit!Spawn, Exit!TypeOK, Exit!Locked, Exit!Closing, Point
  <2>2. Exit!TypeOK'
    BY <1>1, <1>0, <2>1, SandboxAssumption
    DEF Exit!Spawn, Exit!TypeOK, Exit!Sandbox, Exit!Child, Point
  <2>3. OfThread(t)'
    BY <1>1, <1>0, Goes
    DEF Exit!Spawn, Exit!Runs, ExitInv, OneOwner, OfThread, InBlock, KilledSoon,
        ClosedSoon, MarkedIsShut, UsableIsTracked, Unwound, Marked, KillToCome,
        Exit!TypeOK, Exit!Locked, Exit!Closing, Point
  <2>4. child[t] \notin busy
    BY <2>1, <1>1, <1>0, Goes
    DEF ExitInv, OfThread, InBlock, KillToCome, Exit!Spawn, Point, Exit!Closing, Exit!Goto
  <2>5. child'[t] = born + 1
    BY <1>1, <1>0 DEF Exit!Spawn, Exit!TypeOK, Exit!Sandbox
  <2>6. QED
    BY <1>1, <1>0, <2>1, <2>2, <2>3, <2>4, <2>5, OwnerStep
    DEF Exit!Spawn, Exit!TypeOK, Exit!Sandbox
<1>2. ASSUME Exit!SpawnFails(t) PROVE ExitInv'
  <2>1. /\ at' \in [Exit!Thread -> Point]
        /\ \A u \in Exit!Thread : lock' = u <=> at'[u] \in Exit!Locked
        /\ lock = "frame" => lock' = "frame"
        /\ Exit!Runs(t) /\ at[t] # "done" /\ \A u \in Exit!Thread \ {t} : at'[u] = at[u]
    BY <1>2, <1>0, Goes, NotThreads
    DEF Exit!SpawnFails, Exit!TypeOK, Exit!Locked, Exit!Closing, Point
  <2>2. Exit!TypeOK'
    BY <1>2, <1>0, <2>1, SandboxAssumption
    DEF Exit!SpawnFails, Exit!TypeOK, Exit!Sandbox, Exit!Child, Point
  <2>3. OfThread(t)'
    BY <1>2, <1>0, Goes
    DEF Exit!SpawnFails, Exit!Runs, ExitInv, OneOwner, OfThread, InBlock, KilledSoon,
        ClosedSoon, MarkedIsShut, UsableIsTracked, Unwound, Marked, KillToCome,
        Exit!TypeOK, Exit!Locked, Exit!Closing, Point
  <2>4. QED
    BY <1>2, <1>0, <2>1, <2>2, <2>3, OwnerStep DEF Exit!SpawnFails, Exit!TypeOK, Exit!Sandbox
<1>3. ASSUME Exit!Greets(t) PROVE ExitInv'
  <2>1. /\ at' \in [Exit!Thread -> Point]
        /\ \A u \in Exit!Thread : lock' = u <=> at'[u] \in Exit!Locked
        /\ lock = "frame" => lock' = "frame"
        /\ Exit!Runs(t) /\ at[t] # "done" /\ \A u \in Exit!Thread \ {t} : at'[u] = at[u]
    BY <1>3, <1>0, Goes, NotThreads
    DEF Exit!Greets, Exit!TypeOK, Exit!Locked, Exit!Closing, Point
  <2>2. Exit!TypeOK'
    BY <1>3, <1>0, <2>1, SandboxAssumption
    DEF Exit!Greets, Exit!TypeOK, Exit!Sandbox, Exit!Child, Point
  <2>3. OfThread(t)'
    BY <1>3, <1>0, Goes
    DEF Exit!Greets, Exit!Runs, ExitInv, OneOwner, OfThread, InBlock, KilledSoon,
        ClosedSoon, MarkedIsShut, UsableIsTracked, Unwound, Marked, KillToCome,
        Exit!TypeOK, Exit!Locked, Exit!Closing, Point
  <2>4. QED
    BY <1>3, <1>0, <2>1, <2>2, <2>3, OwnerStep DEF Exit!Greets, Exit!TypeOK, Exit!Sandbox
<1>4. ASSUME Exit!GreetingFails(t) PROVE ExitInv'
  <2>1. /\ at' \in [Exit!Thread -> Point]
        /\ \A u \in Exit!Thread : lock' = u <=> at'[u] \in Exit!Locked
        /\ lock = "frame" => lock' = "frame"
        /\ Exit!Runs(t) /\ at[t] # "done" /\ \A u \in Exit!Thread \ {t} : at'[u] = at[u]
    BY <1>4, <1>0, Goes, NotThreads
    DEF Exit!GreetingFails, Exit!TypeOK, Exit!KillChild, Exit!Locked, Exit!Closing, Point
  <2>2. Exit!TypeOK'
    BY <1>4, <1>0, <2>1, SandboxAssumption, ZenonT(60)
    DEF Exit!GreetingFails, Exit!TypeOK, Exit!KillChild, Exit!Sandbox, Exit!Child, Point
  <2>3. OfThread(t)'
    BY <1>4, <1>0, Goes
    DEF Exit!GreetingFails, Exit!KillChild, Exit!Runs, ExitInv, OneOwner, OfThread, InBlock,
        KilledSoon,
        ClosedSoon, MarkedIsShut, UsableIsTracked, Unwound, Marked, KillToCome,
        Exit!TypeOK, Exit!Locked, Exit!Closing, Point
  <2>4. QED
    BY <1>4, <1>0, <2>1, <2>2, <2>3, OwnerStep
    DEF Exit!GreetingFails, Exit!TypeOK, Exit!KillChild, Exit!Sandbox
<1>5. ASSUME Exit!RegisterLocks(t) PROVE ExitInv'
  <2>1. /\ at' \in [Exit!Thread -> Point]
        /\ \A u \in Exit!Thread : lock' = u <=> at'[u] \in Exit!Locked
        /\ lock = "frame" => lock' = "frame"
        /\ Exit!Runs(t) /\ at[t] # "done" /\ \A u \in Exit!Thread \ {t} : at'[u] = at[u]
    BY <1>5, <1>0, Goes, NotThreads
    DEF Exit!RegisterLocks, Exit!TypeOK, Exit!Locked, Exit!Closing, Point
  <2>2. Exit!TypeOK'
    BY <1>5, <1>0, <2>1, SandboxAssumption
    DEF Exit!RegisterLocks, Exit!TypeOK, Exit!Sandbox, Exit!Child, Point
  <2>3. OfThread(t)'
    BY <1>5, <1>0, Goes
    DEF Exit!RegisterLocks, Exit!Runs, ExitInv, OneOwner, OfThread, InBlock, KilledSoon,
        ClosedSoon, MarkedIsShut, UsableIsTracked, Unwound, Marked, KillToCome,
        Exit!TypeOK, Exit!Locked, Exit!Closing, Point
  <2>4. QED
    BY <1>5, <1>0, <2>1, <2>2, <2>3, OwnerStep DEF Exit!RegisterLocks, Exit!TypeOK, Exit!Sandbox
<1>6. ASSUME Exit!RegisterAdds(t) PROVE ExitInv'
  <2>1. /\ at' \in [Exit!Thread -> Point]
        /\ \A u \in Exit!Thread : lock' = u <=> at'[u] \in Exit!Locked
        /\ lock = "frame" => lock' = "frame"
        /\ Exit!Runs(t) /\ at[t] # "done" /\ \A u \in Exit!Thread \ {t} : at'[u] = at[u]
    BY <1>6, <1>0, Goes, NotThreads
    DEF Exit!RegisterAdds, Exit!TypeOK, Exit!Locked, Exit!Closing, Point
  <2>2. Exit!TypeOK'
    BY <1>6, <1>0, <2>1, SandboxAssumption
    DEF Exit!RegisterAdds, Exit!TypeOK, Exit!Sandbox, Exit!Child, Point
  <2>3. OfThread(t)'
    BY <1>6, <1>0, Goes
    DEF Exit!RegisterAdds, Exit!Runs, ExitInv, OneOwner, OfThread, InBlock, KilledSoon,
        ClosedSoon, MarkedIsShut, UsableIsTracked, Unwound, Marked, KillToCome,
        Exit!TypeOK, Exit!Locked, Exit!Closing, Point
  <2>4. QED
    BY <1>6, <1>0, <2>1, <2>2, <2>3, OwnerStep DEF Exit!RegisterAdds, Exit!TypeOK, Exit!Sandbox
<1>7. ASSUME Exit!RegisterUnlocks(t) PROVE ExitInv'
  <2>1. /\ at' \in [Exit!Thread -> Point]
        /\ \A u \in Exit!Thread : lock' = u <=> at'[u] \in Exit!Locked
        /\ lock = "frame" => lock' = "frame"
        /\ Exit!Runs(t) /\ at[t] # "done" /\ \A u \in Exit!Thread \ {t} : at'[u] = at[u]
    BY <1>7, <1>0, Goes, NotThreads
    DEF Exit!RegisterUnlocks, Exit!TypeOK, Exit!Locked, Exit!Closing, Point
  <2>2. Exit!TypeOK'
    BY <1>7, <1>0, <2>1, SandboxAssumption
    DEF Exit!RegisterUnlocks, Exit!TypeOK, Exit!Sandbox, Exit!Child, Point
  <2>3. OfThread(t)'
    BY <1>7, <1>0, Goes
    DEF Exit!RegisterUnlocks, Exit!Runs, ExitInv, OneOwner, OfThread, InBlock, KilledSoon,
        ClosedSoon, MarkedIsShut, UsableIsTracked, Unwound, Marked, KillToCome,
        Exit!TypeOK, Exit!Locked, Exit!Closing, Point
  <2>4. QED
    BY <1>7, <1>0, <2>1, <2>2, <2>3, OwnerStep DEF Exit!RegisterUnlocks, Exit!TypeOK, Exit!Sandbox
<1>8. ASSUME Exit!ExecuteBegins(t) PROVE ExitInv'
  <2>1. /\ at' \in [Exit!Thread -> Point]
        /\ \A u \in Exit!Thread : lock' = u <=> at'[u] \in Exit!Locked
        /\ lock = "frame" => lock' = "frame"
        /\ Exit!Runs(t) /\ at[t] # "done" /\ \A u \in Exit!Thread \ {t} : at'[u] = at[u]
    BY <1>8, <1>0, Goes, NotThreads
    DEF Exit!ExecuteBegins, Exit!TypeOK, Exit!Locked, Exit!Closing, Point
  <2>2. Exit!TypeOK'
    BY <1>8, <1>0, <2>1, SandboxAssumption, ZenonT(60)
    DEF Exit!ExecuteBegins, Exit!TypeOK, Exit!Sandbox, Exit!Child, Point
  <2>3. OfThread(t)'
    BY <1>8, <1>0, Goes
    DEF Exit!ExecuteBegins, Exit!Runs, ExitInv, OneOwner, OfThread, InBlock, KilledSoon,
        ClosedSoon, MarkedIsShut, UsableIsTracked, Unwound, Marked, KillToCome,
        Exit!TypeOK, Exit!Locked, Exit!Closing, Point
  <2>4. QED
    BY <1>8, <1>0, <2>1, <2>2, <2>3, OwnerStep DEF Exit!ExecuteBegins, Exit!TypeOK, Exit!Sandbox
<1>9. ASSUME Exit!ExecuteReturns(t) PROVE ExitInv'
  <2>1. /\ at' \in [Exit!Thread -> Point]
        /\ \A u \in Exit!Thread : lock' = u <=> at'[u] \in Exit!Locked
        /\ lock = "frame" => lock' = "frame"
        /\ Exit!Runs(t) /\ at[t] # "done" /\ \A u \in Exit!Thread \ {t} : at'[u] = at[u]
    BY <1>9, <1>0, Goes, NotThreads
    DEF Exit!ExecuteReturns, Exit!TypeOK, Exit!Locked, Exit!Closing, Point
  <2>2. Exit!TypeOK'
    BY <1>9, <1>0, <2>1, SandboxAssumption, ZenonT(60)
    DEF Exit!ExecuteReturns, Exit!TypeOK, Exit!Sandbox, Exit!Child, Point
  <2>3. OfThread(t)'
    BY <1>9, <1>0, Goes
    DEF Exit!ExecuteReturns, Exit!Runs, ExitInv, OneOwner, OfThread, InBlock, KilledSoon,
        ClosedSoon, MarkedIsShut, UsableIsTracked, Unwound, Marked, KillToCome,
        Exit!TypeOK, Exit!Locked, Exit!Closing, Point
  <2>4. QED
    BY <1>9, <1>0, <2>1, <2>2, <2>3, OwnerStep DEF Exit!ExecuteReturns, Exit!TypeOK, Exit!Sandbox
<1>10. ASSUME Exit!ExecuteRefused(t) PROVE ExitInv'
  <2>1. /\ at' \in [Exit!Thread -> Point]
        /\ \A u \in Exit!Thread : lock' = u <=> at'[u] \in Exit!Locked
        /\ lock = "frame" => lock' = "frame"
        /\ Exit!Runs(t) /\ at[t] # "done" /\ \A u \in Exit!Thread \ {t} : at'[u] = at[u]
    BY <1>10, <1>0, Goes, NotThreads
    DEF Exit!ExecuteRefused, Exit!TypeOK, Exit!Locked, Exit!Closing, Point
  <2>2. Exit!TypeOK'
    BY <1>10, <1>0, <2>1, SandboxAssumption
    DEF Exit!ExecuteRefused, Exit!TypeOK, Exit!Sandbox, Exit!Child, Point
  <2>3. OfThread(t)'
    BY <1>10, <1>0, Goes
    DEF Exit!ExecuteRefused, Exit!Runs, ExitInv, OneOwner, OfThread, InBlock, KilledSoon,
        ClosedSoon, MarkedIsShut, UsableIsTracked, Unwound, Marked, KillToCome,
        Exit!TypeOK, Exit!Locked, Exit!Closing, Point
  <2>4. QED
    BY <1>10, <1>0, <2>1, <2>2, <2>3, OwnerStep DEF Exit!ExecuteRefused, Exit!TypeOK, Exit!Sandbox
<1>11. ASSUME Exit!ExecuteLoses(t) PROVE ExitInv'
  <2>1. /\ at' \in [Exit!Thread -> Point]
        /\ \A u \in Exit!Thread : lock' = u <=> at'[u] \in Exit!Locked
        /\ lock = "frame" => lock' = "frame"
        /\ Exit!Runs(t) /\ at[t] # "done" /\ \A u \in Exit!Thread \ {t} : at'[u] = at[u]
    BY <1>11, <1>0, Goes, NotThreads
    DEF Exit!ExecuteLoses, Exit!TypeOK, Exit!Locked, Exit!Closing, Point
  <2>2. Exit!TypeOK'
    BY <1>11, <1>0, <2>1, SandboxAssumption
    DEF Exit!ExecuteLoses, Exit!TypeOK, Exit!Sandbox, Exit!Child, Point
  <2>3. OfThread(t)'
    BY <1>11, <1>0, Goes
    DEF Exit!ExecuteLoses, Exit!Runs, ExitInv, OneOwner, OfThread, InBlock, KilledSoon,
        ClosedSoon, MarkedIsShut, UsableIsTracked, Unwound, Marked, KillToCome,
        Exit!TypeOK, Exit!Locked, Exit!Closing, Point
  <2>4. QED
    BY <1>11, <1>0, <2>1, <2>2, <2>3, OwnerStep DEF Exit!ExecuteLoses, Exit!TypeOK, Exit!Sandbox
<1>12. ASSUME Exit!RestartKills(t) PROVE ExitInv'
  <2>1. /\ at' \in [Exit!Thread -> Point]
        /\ \A u \in Exit!Thread : lock' = u <=> at'[u] \in Exit!Locked
        /\ lock = "frame" => lock' = "frame"
        /\ Exit!Runs(t) /\ at[t] # "done" /\ \A u \in Exit!Thread \ {t} : at'[u] = at[u]
    BY <1>12, <1>0, Goes, NotThreads
    DEF Exit!RestartKills, Exit!TypeOK, Exit!KillChild, Exit!Locked, Exit!Closing, Point
  <2>2. Exit!TypeOK'
    BY <1>12, <1>0, <2>1, SandboxAssumption, ZenonT(60)
    DEF Exit!RestartKills, Exit!TypeOK, Exit!KillChild, Exit!Sandbox, Exit!Child, Point
  <2>3. OfThread(t)'
    BY <1>12, <1>0, Goes
    DEF Exit!RestartKills, Exit!KillChild, Exit!Runs, ExitInv, OneOwner, OfThread, InBlock,
        KilledSoon,
        ClosedSoon, MarkedIsShut, UsableIsTracked, Unwound, Marked, KillToCome,
        Exit!TypeOK, Exit!Locked, Exit!Closing, Point
  <2>4. QED
    BY <1>12, <1>0, <2>1, <2>2, <2>3, OwnerStep
    DEF Exit!RestartKills, Exit!TypeOK, Exit!KillChild, Exit!Sandbox
<1>13. ASSUME Exit!OwnerTest(t) PROVE ExitInv'
  <2>1. /\ at' \in [Exit!Thread -> Point]
        /\ \A u \in Exit!Thread : lock' = u <=> at'[u] \in Exit!Locked
        /\ lock = "frame" => lock' = "frame"
        /\ Exit!Runs(t) /\ at[t] # "done" /\ \A u \in Exit!Thread \ {t} : at'[u] = at[u]
    BY <1>13, <1>0, Goes, NotThreads
    DEF Exit!OwnerTest, Exit!TypeOK, Exit!Locked, Exit!Closing, Point
  <2>2. Exit!TypeOK'
    BY <1>13, <1>0, <2>1, SandboxAssumption
    DEF Exit!OwnerTest, Exit!TypeOK, Exit!Sandbox, Exit!Child, Point
  <2>3. OfThread(t)'
    BY <1>13, <1>0, Goes
    DEF Exit!OwnerTest, Exit!Runs, ExitInv, OneOwner, OfThread, InBlock, KilledSoon,
        ClosedSoon, MarkedIsShut, UsableIsTracked, Unwound, Marked, KillToCome,
        Exit!TypeOK, Exit!Locked, Exit!Closing, Point
  <2>4. QED
    BY <1>13, <1>0, <2>1, <2>2, <2>3, OwnerStep DEF Exit!OwnerTest, Exit!TypeOK, Exit!Sandbox
<1>14. ASSUME Exit!OwnerMarks(t) PROVE ExitInv'
  <2>1. /\ at' \in [Exit!Thread -> Point]
        /\ \A u \in Exit!Thread : lock' = u <=> at'[u] \in Exit!Locked
        /\ lock = "frame" => lock' = "frame"
        /\ Exit!Runs(t) /\ at[t] # "done" /\ \A u \in Exit!Thread \ {t} : at'[u] = at[u]
    BY <1>14, <1>0, Goes, NotThreads
    DEF Exit!OwnerMarks, Exit!TypeOK, Exit!MarkClosed, Exit!Locked, Exit!Closing, Point
  <2>2. Exit!TypeOK'
    BY <1>14, <1>0, <2>1, SandboxAssumption
    DEF Exit!OwnerMarks, Exit!TypeOK, Exit!MarkClosed, Exit!Sandbox, Exit!Child, Point
  <2>3. OfThread(t)'
    <3>1. /\ at[t] = "mark" /\ at'[t] = "unregister" /\ shut'[t] /\ (t = Main => frame = "none")
          /\ UNCHANGED <<child, busy, live, signal, frame, caught>>
      BY <1>14, <1>0, Goes
      DEF Exit!OwnerMarks, Exit!MarkClosed, Exit!TypeOK, Exit!Sandbox, Exit!Runs, Point,
          Exit!Closing
    <3>2. InBlock(t) BY DEF ExitInv, OfThread
    <3>3. QED
      BY <3>1, <3>2
      DEF OfThread, InBlock, KilledSoon, ClosedSoon, MarkedIsShut, UsableIsTracked, Unwound,
          KillToCome
  <2>4. QED
    BY <1>14, <1>0, <2>1, <2>2, <2>3, OwnerStep
    DEF Exit!OwnerMarks, Exit!TypeOK, Exit!MarkClosed, Exit!Sandbox
<1>15. ASSUME Exit!OwnerLocks(t) PROVE ExitInv'
  <2>1. /\ at' \in [Exit!Thread -> Point]
        /\ \A u \in Exit!Thread : lock' = u <=> at'[u] \in Exit!Locked
        /\ lock = "frame" => lock' = "frame"
        /\ Exit!Runs(t) /\ at[t] # "done" /\ \A u \in Exit!Thread \ {t} : at'[u] = at[u]
    BY <1>15, <1>0, Goes, NotThreads
    DEF Exit!OwnerLocks, Exit!TypeOK, Exit!LockFor, Exit!Locked, Exit!Closing, Point
  <2>2. Exit!TypeOK'
    BY <1>15, <1>0, <2>1, SandboxAssumption
    DEF Exit!OwnerLocks, Exit!TypeOK, Exit!LockFor, Exit!Sandbox, Exit!Child, Point
  <2>3. OfThread(t)'
    BY <1>15, <1>0, Goes
    DEF Exit!OwnerLocks, Exit!LockFor, Exit!Runs, ExitInv, OneOwner, OfThread, InBlock,
        KilledSoon,
        ClosedSoon, MarkedIsShut, UsableIsTracked, Unwound, Marked, KillToCome,
        Exit!TypeOK, Exit!Locked, Exit!Closing, Point
  <2>4. QED
    BY <1>15, <1>0, <2>1, <2>2, <2>3, OwnerStep
    DEF Exit!OwnerLocks, Exit!TypeOK, Exit!LockFor, Exit!Sandbox
<1>16. ASSUME Exit!OwnerDiscards(t) PROVE ExitInv'
  <2>1. /\ at' \in [Exit!Thread -> Point]
        /\ \A u \in Exit!Thread : lock' = u <=> at'[u] \in Exit!Locked
        /\ lock = "frame" => lock' = "frame"
        /\ Exit!Runs(t) /\ at[t] # "done" /\ \A u \in Exit!Thread \ {t} : at'[u] = at[u]
    BY <1>16, <1>0, Goes, NotThreads
    DEF Exit!OwnerDiscards, Exit!TypeOK, Exit!Discard, Exit!Locked, Exit!Closing, Point
  <2>2. Exit!TypeOK'
    BY <1>16, <1>0, <2>1, SandboxAssumption
    DEF Exit!OwnerDiscards, Exit!TypeOK, Exit!Discard, Exit!Sandbox, Exit!Child, Point
  <2>3. OfThread(t)'
    BY <1>16, <1>0, Goes
    DEF Exit!OwnerDiscards, Exit!Discard, Exit!Runs, ExitInv, OneOwner, OfThread, InBlock,
        KilledSoon,
        ClosedSoon, MarkedIsShut, UsableIsTracked, Unwound, Marked, KillToCome,
        Exit!TypeOK, Exit!Locked, Exit!Closing, Point
  <2>4. QED
    BY <1>16, <1>0, <2>1, <2>2, <2>3, OwnerStep
    DEF Exit!OwnerDiscards, Exit!TypeOK, Exit!Discard, Exit!Sandbox
<1>17. ASSUME Exit!OwnerReaps(t) PROVE ExitInv'
  <2>1. /\ at' \in [Exit!Thread -> Point]
        /\ \A u \in Exit!Thread : lock' = u <=> at'[u] \in Exit!Locked
        /\ lock = "frame" => lock' = "frame"
        /\ Exit!Runs(t) /\ at[t] # "done" /\ \A u \in Exit!Thread \ {t} : at'[u] = at[u]
    BY <1>17, <1>0, Goes, NotThreads
    DEF Exit!OwnerReaps, Exit!TypeOK, Exit!Locked, Exit!Closing, Point
  <2>2. Exit!TypeOK'
    BY <1>17, <1>0, <2>1, SandboxAssumption
    DEF Exit!OwnerReaps, Exit!TypeOK, Exit!Sandbox, Exit!Child, Point
  <2>3. OfThread(t)'
    BY <1>17, <1>0, Goes
    DEF Exit!OwnerReaps, Exit!Runs, ExitInv, OneOwner, OfThread, InBlock, KilledSoon,
        ClosedSoon, MarkedIsShut, UsableIsTracked, Unwound, Marked, KillToCome,
        Exit!TypeOK, Exit!Locked, Exit!Closing, Point
  <2>4. QED
    BY <1>17, <1>0, <2>1, <2>2, <2>3, OwnerStep DEF Exit!OwnerReaps, Exit!TypeOK, Exit!Sandbox
<1>18. ASSUME Exit!OwnerKills(t) PROVE ExitInv'
  <2>1. /\ at' \in [Exit!Thread -> Point]
        /\ \A u \in Exit!Thread : lock' = u <=> at'[u] \in Exit!Locked
        /\ lock = "frame" => lock' = "frame"
        /\ Exit!Runs(t) /\ at[t] # "done" /\ \A u \in Exit!Thread \ {t} : at'[u] = at[u]
    BY <1>18, <1>0, Goes, NotThreads
    DEF Exit!OwnerKills, Exit!TypeOK, Exit!KillChild, Exit!Locked, Exit!Closing, Point
  <2>2. Exit!TypeOK'
    BY <1>18, <1>0, <2>1, SandboxAssumption, ZenonT(60)
    DEF Exit!OwnerKills, Exit!TypeOK, Exit!KillChild, Exit!Sandbox, Exit!Child, Point
  <2>3. OfThread(t)'
    BY <1>18, <1>0, Goes
    DEF Exit!OwnerKills, Exit!KillChild, Exit!Runs, ExitInv, OneOwner, OfThread, InBlock,
        KilledSoon,
        ClosedSoon, MarkedIsShut, UsableIsTracked, Unwound, Marked, KillToCome,
        Exit!TypeOK, Exit!Locked, Exit!Closing, Point
  <2>4. QED
    BY <1>18, <1>0, <2>1, <2>2, <2>3, OwnerStep
    DEF Exit!OwnerKills, Exit!TypeOK, Exit!KillChild, Exit!Sandbox
<1>19. ASSUME Exit!OwnerClears(t) PROVE ExitInv'
  <2>1. /\ at' \in [Exit!Thread -> Point]
        /\ \A u \in Exit!Thread : lock' = u <=> at'[u] \in Exit!Locked
        /\ lock = "frame" => lock' = "frame"
        /\ Exit!Runs(t) /\ at[t] # "done" /\ \A u \in Exit!Thread \ {t} : at'[u] = at[u]
    BY <1>19, <1>0, Goes, NotThreads
    DEF Exit!OwnerClears, Exit!TypeOK, Exit!Locked, Exit!Closing, Point
  <2>2. Exit!TypeOK'
    BY <1>19, <1>0, <2>1, SandboxAssumption
    DEF Exit!OwnerClears, Exit!TypeOK, Exit!Sandbox, Exit!Child, Point
  <2>3. OfThread(t)'
    BY <1>19, <1>0, Goes
    DEF Exit!OwnerClears, Exit!Runs, ExitInv, OneOwner, OfThread, InBlock, KilledSoon,
        ClosedSoon, MarkedIsShut, UsableIsTracked, Unwound, Marked, KillToCome,
        Exit!TypeOK, Exit!Locked, Exit!Closing, Point
  <2>4. child[t] \notin busy
    BY <2>1, <1>19, <1>0, Goes
    DEF ExitInv, OfThread, InBlock, KillToCome, Exit!OwnerClears, Point, Exit!Closing, Exit!Goto
  <2>5. child'[t] = 0
    BY <1>19, <1>0 DEF Exit!OwnerClears, Exit!TypeOK, Exit!Sandbox
  <2>6. QED
    BY <1>19, <1>0, <2>1, <2>2, <2>3, <2>4, <2>5, OwnerStep
    DEF Exit!OwnerClears, Exit!TypeOK, Exit!Sandbox
<1>20. ASSUME Exit!GreetingGarbled(t) PROVE ExitInv'
  <2>0. Exit!Goto(t, "handshake", IF replacing[t] THEN "raised" ELSE "done")
    BY <1>20 DEF Exit!GreetingGarbled
  <2>1. /\ at' \in [Exit!Thread -> Point]
        /\ \A u \in Exit!Thread : lock' = u <=> at'[u] \in Exit!Locked
        /\ lock = "frame" => lock' = "frame"
        /\ Exit!Runs(t) /\ at[t] # "done" /\ \A u \in Exit!Thread \ {t} : at'[u] = at[u]
        /\ at[t] = "handshake" /\ at'[t] = IF replacing[t] THEN "raised" ELSE "done"
    BY <2>0, <1>20, <1>0, Goes, NotThreads
    DEF Exit!GreetingGarbled, Exit!TypeOK, Exit!Locked, Exit!Closing, Point
  <2>2. Exit!TypeOK'
    BY <1>20, <1>0, <2>1, SandboxAssumption
    DEF Exit!GreetingGarbled, Exit!TypeOK, Exit!Sandbox, Exit!Child, Point
  <2>3. OfThread(t)'
    BY <1>20, <1>0, <2>1
    DEF Exit!GreetingGarbled, Exit!Runs, ExitInv, OneOwner, OfThread, InBlock, KilledSoon,
        ClosedSoon, MarkedIsShut, UsableIsTracked, Unwound, Marked, KillToCome,
        Exit!TypeOK, Exit!Locked, Exit!Closing, Point
  <2>4. QED
    BY <1>20, <1>0, <2>1, <2>2, <2>3, OwnerStep
    DEF Exit!GreetingGarbled, Exit!TypeOK, Exit!Sandbox
<1>21. QED
  BY <1>1, <1>2, <1>3, <1>4, <1>5, <1>6, <1>7, <1>8, <1>9, <1>10,
     <1>11, <1>12, <1>13, <1>14, <1>15, <1>16, <1>17, <1>18, <1>19, <1>20
  DEF Exit!Owner

LEMMA Unwinds ==
    ASSUME Exit!TypeOK, Exit!Unwind
    PROVE  /\ at' \in [Exit!Thread -> Point] /\ lock' \in Exit!Thread \cup {"frame", "free"}
           /\ at'[Main] \in {"raised", "done"}
           /\ at[Main] \in {"exec", "restart"} => at'[Main] = "raised"
           /\ \A u \in Exit!Thread \ {Main} : at'[u] = at[u]
           /\ \A u \in Exit!Thread : lock' = u <=> at'[u] \in Exit!Locked
<1>1. Main \in Exit!Thread BY DEF Exit!Thread
<1>2. at' \in [Exit!Thread -> Point] /\ lock' \in Exit!Thread \cup {"frame", "free"}
  BY <1>1 DEF Exit!TypeOK, Exit!Unwind, Point
<1>3. at'[Main] = IF at[Main] \in Exit!Closing \cup {"done"} THEN "done" ELSE "raised"
  BY <1>1 DEF Exit!TypeOK, Exit!Unwind
<1>4. \A u \in Exit!Thread \ {Main} : at'[u] = at[u]
  BY <1>1 DEF Exit!TypeOK, Exit!Unwind
<1>5. \A u \in Exit!Thread : lock' = u <=> at'[u] \in Exit!Locked
  BY <1>1, <1>3, <1>4, NotThreads DEF Exit!TypeOK, Exit!Unwind, Exit!Locked
<1>6. QED BY <1>1, <1>2, <1>3, <1>4, <1>5 DEF Exit!Closing

LEMMA FrameActs == ASSUME ExitInv, Exit!Frame \/ Exit!ExitBegins PROVE ExitInv'
<1>0. Exit!TypeOK /\ Main \in Exit!Thread BY DEF ExitInv, Exit!Thread
<1>1. ASSUME Exit!CopyBegins PROVE ExitInv'
  <2>1. Exit!TypeOK'
    BY <1>1, <1>0, NotThreads, Unwinds
    DEF Exit!CopyBegins, Exit!FrameGoto, Exit!TypeOK, Exit!Sandbox, Exit!Child, Point,
        Exit!Closing
  <2>2. OneOwner'
    BY <1>1, <1>0 DEF Exit!CopyBegins, Exit!TypeOK, Exit!Sandbox, Exit!Child, ExitInv, OneOwner
  <2>3. OfFrame'
    BY <1>1, <1>0
    DEF Exit!CopyBegins, Exit!FrameGoto, Exit!TypeOK, Exit!Sandbox, ExitInv, OfFrame, Marked
  <2>4. Exit!CaughtIsKilled'
    BY <1>1 DEF Exit!CopyBegins, Exit!FrameGoto, Exit!CaughtIsKilled
  <2>5. ASSUME NEW t \in Exit!Thread PROVE OfThread(t)'
    BY <1>1, <1>0, Unwinds
    DEF Exit!CopyBegins, Exit!FrameGoto, ExitInv, OneOwner, OfFrame, OfThread, InBlock,
        KilledSoon,
        ClosedSoon, MarkedIsShut, UsableIsTracked, Unwound, Marked, KillToCome,
        Exit!TypeOK, Exit!Sandbox
  <2>6. QED BY <2>1, <2>2, <2>3, <2>4, <2>5 DEF ExitInv
<1>2. ASSUME Exit!CopyEnds PROVE ExitInv'
  <2>1. Exit!TypeOK'
    <3>1. caught' \subseteq 1..ExitChildren
      BY <1>2, <1>0, ZenonT(60) DEF Exit!CopyEnds, Exit!TypeOK, Exit!Sandbox, Exit!Child
    <3>2. QED
      BY <1>2, <1>0, <3>1
      DEF Exit!CopyEnds, Exit!FrameGoto, Exit!TypeOK, Exit!Sandbox, Exit!Child
  <2>2. OneOwner'
    <3>1. /\ \A s \in Exit!Thread : child[s] \in Nat
          /\ caught' = caught \cup ({child[s] : s \in live} \ {0}) /\ live \subseteq Exit!Thread
          /\ UNCHANGED <<child, busy, born>> /\ born \in Nat
      BY <1>2, <1>0 DEF Exit!CopyEnds, Exit!TypeOK, Exit!Sandbox, Exit!Child
    <3>2. \A s \in Exit!Thread : child[s] <= born BY DEF ExitInv, OneOwner
    <3>3. ASSUME NEW c \in caught' PROVE c \in 1..born
      <4>1. CASE c \in caught BY <4>1 DEF ExitInv, OneOwner
      <4>2. CASE c \notin caught
        <5>1. PICK s \in live : c = child[s] /\ c # 0 BY <3>1, <4>2
        <5>2. QED BY <3>1, <3>2, <5>1
      <4>3. QED BY <4>1, <4>2
    <3>4. QED BY <3>1, <3>3 DEF ExitInv, OneOwner
  <2>3. OfFrame'
    BY <1>2, <1>0
    DEF Exit!CopyEnds, Exit!FrameGoto, Exit!TypeOK, Exit!Sandbox, ExitInv, OfFrame, Marked
  <2>4. Exit!CaughtIsKilled'
    BY <1>2 DEF Exit!CopyEnds, Exit!FrameGoto, Exit!CaughtIsKilled
  <2>5. ASSUME NEW t \in Exit!Thread PROVE OfThread(t)'
    BY <1>2, <1>0, Unwinds
    DEF Exit!CopyEnds, Exit!FrameGoto, ExitInv, OneOwner, OfFrame, OfThread, InBlock, KilledSoon,
        ClosedSoon, MarkedIsShut, UsableIsTracked, Unwound, Marked, KillToCome,
        Exit!TypeOK, Exit!Sandbox
  <2>6. QED BY <2>1, <2>2, <2>3, <2>4, <2>5 DEF ExitInv
<1>3. ASSUME Exit!CopyFails PROVE ExitInv'
  <2>1. Exit!TypeOK'
    BY <1>3, <1>0, NotThreads, Unwinds
    DEF Exit!CopyFails, Exit!ProcessEnds, Exit!FrameGoto, Exit!TypeOK, Exit!Sandbox,
        Exit!Child, Point, Exit!Closing
  <2>2. OneOwner'
    BY <1>3, <1>0
    DEF Exit!CopyFails, Exit!ProcessEnds, Exit!TypeOK, Exit!Sandbox, Exit!Child, ExitInv,
        OneOwner
  <2>3. OfFrame'
    BY <1>3, <1>0
    DEF Exit!CopyFails, Exit!ProcessEnds, Exit!FrameGoto, Exit!TypeOK, Exit!Sandbox, ExitInv,
        OfFrame, Marked
  <2>4. Exit!CaughtIsKilled'
    <3>1. CASE why = "signal"
      BY <1>3, <3>1 DEF Exit!CopyFails, Exit!FrameGoto, Exit!CaughtIsKilled
    <3>2. CASE why = "exit"
      <4>1. busy = {}
        BY <3>2 DEF ExitInv, OneOwner, OfFrame, OfThread, InBlock, KillToCome
      <4>2. QED BY <1>3, <3>2, <4>1 DEF Exit!CopyFails, Exit!ProcessEnds, Exit!CaughtIsKilled
    <3>3. QED BY <1>3, <3>1, <3>2 DEF Exit!CopyFails
  <2>5. ASSUME NEW t \in Exit!Thread PROVE OfThread(t)'
    BY <1>3, <1>0, Unwinds
    DEF Exit!CopyFails, Exit!ProcessEnds, Exit!FrameGoto, ExitInv, OneOwner, OfFrame,
        OfThread, InBlock, KilledSoon,
        ClosedSoon, MarkedIsShut, UsableIsTracked, Unwound, Marked, KillToCome,
        Exit!TypeOK, Exit!Sandbox
  <2>6. QED BY <2>1, <2>2, <2>3, <2>4, <2>5 DEF ExitInv
<1>4. ASSUME Exit!FramePicks PROVE ExitInv'
  <2>1. Exit!TypeOK'
    BY <1>4, <1>0, NotThreads, Unwinds
    DEF Exit!FramePicks, Exit!FrameGoto, Exit!TypeOK, Exit!Sandbox, Exit!Child, Point,
        Exit!Closing
  <2>2. OneOwner'
    BY <1>4, <1>0 DEF Exit!FramePicks, Exit!TypeOK, Exit!Sandbox, Exit!Child, ExitInv, OneOwner
  <2>3. OfFrame'
    BY <1>4, <1>0
    DEF Exit!FramePicks, Exit!FrameGoto, Exit!TypeOK, Exit!Sandbox, ExitInv, OfFrame, Marked
  <2>4. Exit!CaughtIsKilled'
    BY <1>4 DEF Exit!FramePicks, Exit!FrameGoto, Exit!CaughtIsKilled
  <2>5. ASSUME NEW t \in Exit!Thread PROVE OfThread(t)'
    BY <1>4, <1>0, Unwinds
    DEF Exit!FramePicks, Exit!FrameGoto, ExitInv, OneOwner, OfFrame, OfThread, InBlock,
        KilledSoon,
        ClosedSoon, MarkedIsShut, UsableIsTracked, Unwound, Marked, KillToCome,
        Exit!TypeOK, Exit!Sandbox
  <2>6. QED BY <2>1, <2>2, <2>3, <2>4, <2>5 DEF ExitInv
<1>5. ASSUME Exit!FrameTests PROVE ExitInv'
  <2>1. Exit!TypeOK'
    BY <1>5, <1>0, NotThreads, Unwinds
    DEF Exit!FrameTests, Exit!FrameGoto, Exit!TypeOK, Exit!Sandbox, Exit!Child, Point,
        Exit!Closing
  <2>2. OneOwner'
    BY <1>5, <1>0 DEF Exit!FrameTests, Exit!TypeOK, Exit!Sandbox, Exit!Child, ExitInv, OneOwner
  <2>3. OfFrame'
    BY <1>5, <1>0
    DEF Exit!FrameTests, Exit!FrameGoto, Exit!TypeOK, Exit!Sandbox, ExitInv, OfFrame, Marked
  <2>4. Exit!CaughtIsKilled'
    BY <1>5 DEF Exit!FrameTests, Exit!FrameGoto, Exit!CaughtIsKilled
  <2>5. ASSUME NEW t \in Exit!Thread PROVE OfThread(t)'
    BY <1>5, <1>0, Unwinds
    DEF Exit!FrameTests, Exit!FrameGoto, ExitInv, OneOwner, OfFrame, OfThread, InBlock,
        KilledSoon,
        ClosedSoon, MarkedIsShut, UsableIsTracked, Unwound, Marked, KillToCome,
        Exit!TypeOK, Exit!Sandbox
  <2>6. QED BY <2>1, <2>2, <2>3, <2>4, <2>5 DEF ExitInv
<1>6. ASSUME Exit!FrameMarks PROVE ExitInv'
  <2>1. Exit!TypeOK'
    BY <1>6, <1>0, NotThreads, Unwinds
    DEF Exit!FrameMarks, Exit!MarkClosed, Exit!FrameGoto, Exit!TypeOK, Exit!Sandbox,
        Exit!Child, Point, Exit!Closing
  <2>2. OneOwner'
    BY <1>6, <1>0
    DEF Exit!FrameMarks, Exit!MarkClosed, Exit!TypeOK, Exit!Sandbox, Exit!Child, ExitInv,
        OneOwner
  <2>3. OfFrame'
    BY <1>6, <1>0
    DEF Exit!FrameMarks, Exit!MarkClosed, Exit!FrameGoto, Exit!TypeOK, Exit!Sandbox, ExitInv,
        OfFrame, Marked
  <2>4. Exit!CaughtIsKilled'
    BY <1>6 DEF Exit!FrameMarks, Exit!MarkClosed, Exit!FrameGoto, Exit!CaughtIsKilled
  <2>5. ASSUME NEW t \in Exit!Thread PROVE OfThread(t)'
    BY <1>6, <1>0, Unwinds
    DEF Exit!FrameMarks, Exit!MarkClosed, Exit!FrameGoto, ExitInv, OneOwner, OfFrame,
        OfThread, InBlock, KilledSoon,
        ClosedSoon, MarkedIsShut, UsableIsTracked, Unwound, Marked, KillToCome,
        Exit!TypeOK, Exit!Sandbox
  <2>6. QED BY <2>1, <2>2, <2>3, <2>4, <2>5 DEF ExitInv
<1>7. ASSUME Exit!FrameLocks PROVE ExitInv'
  <2>1. Exit!TypeOK'
    BY <1>7, <1>0, NotThreads, Unwinds
    DEF Exit!FrameLocks, Exit!LockFor, Exit!FrameGoto, Exit!TypeOK, Exit!Sandbox, Exit!Child,
        Point, Exit!Closing
  <2>2. OneOwner'
    BY <1>7, <1>0
    DEF Exit!FrameLocks, Exit!LockFor, Exit!TypeOK, Exit!Sandbox, Exit!Child, ExitInv,
        OneOwner
  <2>3. OfFrame'
    BY <1>7, <1>0
    DEF Exit!FrameLocks, Exit!LockFor, Exit!FrameGoto, Exit!TypeOK, Exit!Sandbox, ExitInv,
        OfFrame, Marked
  <2>4. Exit!CaughtIsKilled'
    BY <1>7 DEF Exit!FrameLocks, Exit!LockFor, Exit!FrameGoto, Exit!CaughtIsKilled
  <2>5. ASSUME NEW t \in Exit!Thread PROVE OfThread(t)'
    BY <1>7, <1>0, Unwinds
    DEF Exit!FrameLocks, Exit!LockFor, Exit!FrameGoto, ExitInv, OneOwner, OfFrame, OfThread,
        InBlock, KilledSoon,
        ClosedSoon, MarkedIsShut, UsableIsTracked, Unwound, Marked, KillToCome,
        Exit!TypeOK, Exit!Sandbox
  <2>6. QED BY <2>1, <2>2, <2>3, <2>4, <2>5 DEF ExitInv
<1>8. ASSUME Exit!FrameDiscards PROVE ExitInv'
  <2>1. Exit!TypeOK'
    <3>1. \A u \in Exit!Thread : lock' = u <=> at'[u] \in Exit!Locked
      BY <1>8, <1>0, NotThreads
      DEF ExitInv, OfFrame, Exit!FrameDiscards, Exit!FrameGoto, Exit!Discard, Exit!TypeOK
    <3>2. QED
      BY <1>8, <1>0, <3>1
      DEF Exit!FrameDiscards, Exit!Discard, Exit!FrameGoto, Exit!TypeOK, Exit!Sandbox,
          Exit!Closing
  <2>2. OneOwner'
    BY <1>8, <1>0
    DEF Exit!FrameDiscards, Exit!Discard, Exit!TypeOK, Exit!Sandbox, Exit!Child, ExitInv,
        OneOwner
  <2>3. OfFrame'
    BY <1>8, <1>0
    DEF Exit!FrameDiscards, Exit!Discard, Exit!FrameGoto, Exit!TypeOK, Exit!Sandbox, ExitInv,
        OfFrame, Marked
  <2>4. Exit!CaughtIsKilled'
    BY <1>8 DEF Exit!FrameDiscards, Exit!Discard, Exit!FrameGoto, Exit!CaughtIsKilled
  <2>5. ASSUME NEW t \in Exit!Thread PROVE OfThread(t)'
    BY <1>8, <1>0, Unwinds
    DEF Exit!FrameDiscards, Exit!Discard, Exit!FrameGoto, ExitInv, OneOwner, OfFrame,
        OfThread, InBlock, KilledSoon,
        ClosedSoon, MarkedIsShut, UsableIsTracked, Unwound, Marked, KillToCome,
        Exit!TypeOK, Exit!Sandbox
  <2>6. QED BY <2>1, <2>2, <2>3, <2>4, <2>5 DEF ExitInv
<1>9. ASSUME Exit!FrameReaps PROVE ExitInv'
  <2>1. Exit!TypeOK'
    BY <1>9, <1>0, NotThreads, Unwinds
    DEF Exit!FrameReaps, Exit!FrameGoto, Exit!TypeOK, Exit!Sandbox, Exit!Child, Point,
        Exit!Closing
  <2>2. OneOwner'
    BY <1>9, <1>0 DEF Exit!FrameReaps, Exit!TypeOK, Exit!Sandbox, Exit!Child, ExitInv, OneOwner
  <2>3. OfFrame'
    BY <1>9, <1>0
    DEF Exit!FrameReaps, Exit!FrameGoto, Exit!TypeOK, Exit!Sandbox, ExitInv, OfFrame, Marked
  <2>4. Exit!CaughtIsKilled'
    BY <1>9 DEF Exit!FrameReaps, Exit!FrameGoto, Exit!CaughtIsKilled
  <2>5. ASSUME NEW t \in Exit!Thread PROVE OfThread(t)'
    BY <1>9, <1>0, Unwinds
    DEF Exit!FrameReaps, Exit!FrameGoto, ExitInv, OneOwner, OfFrame, OfThread, InBlock,
        KilledSoon,
        ClosedSoon, MarkedIsShut, UsableIsTracked, Unwound, Marked, KillToCome,
        Exit!TypeOK, Exit!Sandbox
  <2>6. QED BY <2>1, <2>2, <2>3, <2>4, <2>5 DEF ExitInv
<1>10. ASSUME Exit!FrameKills PROVE ExitInv'
  <2>1. Exit!TypeOK'
    BY <1>10, <1>0, NotThreads, Unwinds
    DEF Exit!FrameKills, Exit!KillChild, Exit!FrameGoto, Exit!TypeOK, Exit!Sandbox,
        Exit!Child, Point, Exit!Closing
  <2>2. OneOwner'
    BY <1>10, <1>0
    DEF Exit!FrameKills, Exit!KillChild, Exit!TypeOK, Exit!Sandbox, Exit!Child, ExitInv,
        OneOwner
  <2>3. OfFrame'
    BY <1>10, <1>0
    DEF Exit!FrameKills, Exit!KillChild, Exit!FrameGoto, Exit!TypeOK, Exit!Sandbox, ExitInv,
        OfFrame, Marked
  <2>4. Exit!CaughtIsKilled'
    BY <1>10 DEF Exit!FrameKills, Exit!KillChild, Exit!FrameGoto, Exit!CaughtIsKilled
  <2>5. ASSUME NEW t \in Exit!Thread PROVE OfThread(t)'
    BY <1>10, <1>0, Unwinds
    DEF Exit!FrameKills, Exit!KillChild, Exit!FrameGoto, ExitInv, OneOwner, OfFrame, OfThread,
        InBlock, KilledSoon,
        ClosedSoon, MarkedIsShut, UsableIsTracked, Unwound, Marked, KillToCome,
        Exit!TypeOK, Exit!Sandbox
  <2>6. QED BY <2>1, <2>2, <2>3, <2>4, <2>5 DEF ExitInv
<1>11. ASSUME Exit!FrameClears PROVE ExitInv'
  <2>1. Exit!TypeOK'
    BY <1>11, <1>0, NotThreads, Unwinds
    DEF Exit!FrameClears, Exit!FrameGoto, Exit!TypeOK, Exit!Sandbox, Exit!Child, Point,
        Exit!Closing
  <2>2. OneOwner'
    <3>1. /\ child' = [child EXCEPT ![target] = 0] /\ frame = "clear"
          /\ UNCHANGED <<busy, born, caught>> /\ 0 \notin busy
          /\ \A s \in Exit!Thread : child[s] \in Nat
      BY <1>11, <1>0
      DEF Exit!FrameClears, Exit!FrameGoto, Exit!TypeOK, Exit!Sandbox, Exit!Child
    <3>2. child[target] \notin busy
      BY <1>0, <3>1
      DEF ExitInv, OfThread, KilledSoon, OfFrame, Unwound, Marked, KillToCome, Exit!TypeOK,
          Exit!Sandbox
    <3>3. \A s \in Exit!Thread : child'[s] = IF s = target THEN 0 ELSE child[s]
      BY <1>0, <3>1 DEF Exit!TypeOK, Exit!Sandbox
    <3>4. QED BY <1>0, <3>1, <3>2, <3>3 DEF ExitInv, OneOwner, Exit!TypeOK
  <2>3. OfFrame'
    BY <1>11, <1>0
    DEF Exit!FrameClears, Exit!FrameGoto, Exit!TypeOK, Exit!Sandbox, ExitInv, OfFrame, Marked
  <2>4. Exit!CaughtIsKilled'
    BY <1>11 DEF Exit!FrameClears, Exit!FrameGoto, Exit!CaughtIsKilled
  <2>5. ASSUME NEW t \in Exit!Thread PROVE OfThread(t)'
    BY <1>11, <1>0, Unwinds
    DEF Exit!FrameClears, Exit!FrameGoto, ExitInv, OneOwner, OfFrame, OfThread, InBlock,
        KilledSoon,
        ClosedSoon, MarkedIsShut, UsableIsTracked, Unwound, Marked, KillToCome,
        Exit!TypeOK, Exit!Sandbox
  <2>6. QED BY <2>1, <2>2, <2>3, <2>4, <2>5 DEF ExitInv
<1>12. ASSUME Exit!FrameEnds PROVE ExitInv'
  <2>1. Exit!TypeOK'
    BY <1>12, <1>0, NotThreads, Unwinds
    DEF Exit!FrameEnds, Exit!ProcessEnds, Exit!FrameGoto, Exit!TypeOK, Exit!Sandbox,
        Exit!Child, Point, Exit!Closing
  <2>2. OneOwner'
    BY <1>12, <1>0
    DEF Exit!FrameEnds, Exit!ProcessEnds, Exit!TypeOK, Exit!Sandbox, Exit!Child, ExitInv,
        OneOwner
  <2>3. OfFrame'
    BY <1>12, <1>0
    DEF Exit!FrameEnds, Exit!ProcessEnds, Exit!FrameGoto, Exit!TypeOK, Exit!Sandbox, ExitInv,
        OfFrame, Marked
  <2>4. Exit!CaughtIsKilled'
    <3>1. \A t \in Exit!Thread : child[t] \in caught => child[t] \notin busy
      BY <1>12
      DEF ExitInv, OfThread, KilledSoon, ClosedSoon, Unwound, KillToCome, Exit!FrameEnds,
          Exit!FrameGoto
    <3>2. caught \cap busy = {} BY <3>1 DEF ExitInv, OneOwner
    <3>3. QED
      BY <1>12, <3>2 DEF Exit!FrameEnds, Exit!FrameGoto, Exit!ProcessEnds, Exit!CaughtIsKilled
  <2>5. ASSUME NEW t \in Exit!Thread PROVE OfThread(t)'
    BY <1>12, <1>0, Unwinds
    DEF Exit!FrameEnds, Exit!ProcessEnds, Exit!FrameGoto, ExitInv, OneOwner, OfFrame,
        OfThread, InBlock, KilledSoon,
        ClosedSoon, MarkedIsShut, UsableIsTracked, Unwound, Marked, KillToCome,
        Exit!TypeOK, Exit!Sandbox
  <2>6. QED BY <2>1, <2>2, <2>3, <2>4, <2>5 DEF ExitInv
<1>13. ASSUME Exit!ExitBegins PROVE ExitInv'
  <2>1. Exit!TypeOK'
    BY <1>13, <1>0, NotThreads, Unwinds
    DEF Exit!ExitBegins, Exit!ProcessEnds, Exit!FrameGoto, Exit!TypeOK, Exit!Sandbox,
        Exit!Child, Point, Exit!Closing
  <2>2. OneOwner'
    BY <1>13, <1>0
    DEF Exit!ExitBegins, Exit!ProcessEnds, Exit!TypeOK, Exit!Sandbox, Exit!Child, ExitInv,
        OneOwner
  <2>3. OfFrame'
    BY <1>13, <1>0
    DEF Exit!ExitBegins, Exit!ProcessEnds, Exit!FrameGoto, Exit!TypeOK, Exit!Sandbox, ExitInv,
        OfFrame, Marked
  <2>4. Exit!CaughtIsKilled'
    BY <1>13 DEF ExitInv, OfFrame, Exit!ExitBegins, Exit!ProcessEnds, Exit!CaughtIsKilled
  <2>5. ASSUME NEW t \in Exit!Thread PROVE OfThread(t)'
    BY <1>13, <1>0, Unwinds
    DEF Exit!ExitBegins, Exit!ProcessEnds, Exit!FrameGoto, ExitInv, OneOwner, OfFrame,
        OfThread, InBlock, KilledSoon,
        ClosedSoon, MarkedIsShut, UsableIsTracked, Unwound, Marked, KillToCome,
        Exit!TypeOK, Exit!Sandbox
  <2>6. QED BY <2>1, <2>2, <2>3, <2>4, <2>5 DEF ExitInv
<1>14. QED
  BY <1>1, <1>2, <1>3, <1>4, <1>5, <1>6, <1>7, <1>8, <1>9, <1>10,
     <1>11, <1>12, <1>13
  DEF Exit!Frame

LEMMA SignalArrives ==
    ASSUME ExitInv, NEW sig \in {"INT", "TERM"}, Exit!SignalArrives(sig)
    PROVE  ExitInv'
<1>0. Exit!TypeOK /\ Main \in Exit!Thread BY DEF ExitInv, Exit!Thread
<1>1. /\ signal = "none" /\ frame = "none" /\ why = "none" /\ ~over /\ signal' = sig
      /\ UNCHANGED <<replacing, shut, child, born, busy, live, installed, counted, toClose,
                     target, caught>>
  BY DEF Exit!SignalArrives, ExitInv, OfFrame
<1>2. caught = {} BY <1>1 DEF ExitInv, OfFrame
<1>3. \A t \in Exit!Thread : child[t] \in busy => at[t] \in {"exec", "restart"} /\ ~shut[t]
  BY <1>1 DEF ExitInv, OfThread, InBlock, KilledSoon, Unwound, KillToCome
<1>4. CASE installed = "handlers" /\ frame' = "copy" /\ why' = "signal"
           /\ UNCHANGED <<at, lock, alive, over>>
  <2>1. Exit!TypeOK' BY <1>0, <1>1, <1>4 DEF Exit!TypeOK
  <2>2. OneOwner' BY <1>1 DEF ExitInv, OneOwner
  <2>3. OfFrame' BY <1>1, <1>4 DEF ExitInv, OfFrame, Marked
  <2>4. Exit!CaughtIsKilled' BY <1>1, <1>4 DEF Exit!CaughtIsKilled
  <2>5. ASSUME NEW t \in Exit!Thread PROVE OfThread(t)'
    BY <1>1, <1>2, <1>3, <1>4
    DEF ExitInv, OfThread, InBlock, KilledSoon, ClosedSoon, MarkedIsShut, UsableIsTracked
  <2>6. QED BY <2>1, <2>2, <2>3, <2>4, <2>5 DEF ExitInv
<1>5. CASE Exit!ProcessEnds /\ UNCHANGED <<at, lock, frame, why>>
  <2>1. Exit!TypeOK' BY <1>0, <1>1, <1>5 DEF Exit!TypeOK, Exit!ProcessEnds
  <2>2. OneOwner' BY <1>1 DEF ExitInv, OneOwner
  <2>3. OfFrame' BY <1>1, <1>5 DEF ExitInv, OfFrame, Exit!ProcessEnds
  <2>4. Exit!CaughtIsKilled' BY <1>1, <1>2 DEF Exit!CaughtIsKilled
  <2>5. ASSUME NEW t \in Exit!Thread PROVE OfThread(t)'
    BY <1>1, <1>2, <1>3, <1>5
    DEF ExitInv, OfThread, InBlock, KilledSoon, ClosedSoon, MarkedIsShut, UsableIsTracked
  <2>6. QED BY <2>1, <2>2, <2>3, <2>4, <2>5 DEF ExitInv
<1>6. CASE Exit!Unwind /\ UNCHANGED <<alive, frame, why, over>>
  <2>1. Exit!TypeOK' BY <1>0, <1>1, <1>6, Unwinds DEF Exit!TypeOK, Point
  <2>2. OneOwner' BY <1>1 DEF ExitInv, OneOwner
  <2>3. OfFrame' BY <1>1, <1>6 DEF ExitInv, OfFrame, Marked
  <2>4. Exit!CaughtIsKilled' BY <1>1, <1>2 DEF Exit!CaughtIsKilled
  <2>5. ASSUME NEW t \in Exit!Thread PROVE OfThread(t)'
    BY <1>0, <1>1, <1>2, <1>3, <1>6, Unwinds
    DEF ExitInv, OfThread, InBlock, KilledSoon, ClosedSoon, MarkedIsShut, UsableIsTracked,
        Unwound, Marked
  <2>6. QED BY <2>1, <2>2, <2>3, <2>4, <2>5 DEF ExitInv
<1>7. QED BY <1>4, <1>5, <1>6 DEF Exit!SignalArrives

LEMMA ExitStep == ASSUME ExitInv, [Exit!Next]_exitVars PROVE ExitInv'
<1>1. CASE Exit!Next BY <1>1, OwnerActs, FrameActs, SignalArrives DEF Exit!Next
<1>2. CASE UNCHANGED exitVars
  BY <1>2
  DEF exitVars, ExitInv, Exit!TypeOK, OneOwner, OfFrame, Exit!CaughtIsKilled, OfThread,
      InBlock, KilledSoon, ClosedSoon, MarkedIsShut, UsableIsTracked, Unwound
<1>3. QED BY <1>1, <1>2

LEMMA ExitInvHolds == MCSpec => []ExitInv
<1>1. MCInit => ExitInv
  <2>1. SUFFICES ASSUME Exit!Init PROVE ExitInv BY DEF MCInit
  <2>2. Main \in Exit!Thread /\ 0 \notin busy /\ busy = {} /\ alive = {}
    BY <2>1 DEF Exit!Init, Exit!Thread
  <2>3. Exit!TypeOK
    BY <2>1, <2>2, NotThreads DEF Exit!Init, Exit!TypeOK, Exit!Sandbox, Exit!Locked
  <2>4. OneOwner /\ OfFrame /\ Exit!CaughtIsKilled
    BY <2>1 DEF Exit!Init, OneOwner, OfFrame, Exit!CaughtIsKilled, Exit!Sandbox, Marked
  <2>5. \A t \in Exit!Thread : OfThread(t)
    BY <2>1
    DEF Exit!Init, OfThread, InBlock, KilledSoon, ClosedSoon, MarkedIsShut, UsableIsTracked,
        Marked
  <2>6. QED BY <2>3, <2>4, <2>5 DEF ExitInv
<1>2. ExitInv /\ [MCNext]_mcVars => ExitInv'
  <2>1. [MCNext]_mcVars => [Exit!Next]_exitVars
    BY DEF MCNext, InChannel, InExit, InBackend, InBridge, mcVars, exitVars
  <2>2. QED BY <2>1, ExitStep
<1>3. MCSpec => MCInit /\ [][MCNext]_mcVars BY PTL DEF MCSpec
<1>4. QED BY <1>1, <1>2, <1>3, PTL

\* Whichever threads run, start, lose or close children when the signal or the exit
\* arrives, no child that a sandbox had when _reap_all copied the registry outlives the
\* process, and a sandbox inside a block is in the registry unless the exit path closed
\* it, through every restart.
THEOREM ExitPathMissesNoneHolds == MCSpec => []ExitPathMissesNone
BY ExitInvHolds, ExitInvSuffices, PTL

-----------------------------------------------------------------------------
(* The back ends.                                                            *)

USE DEF Backend!options, Backend!os, Backend!evidence, Backend!outcome

\* Where a sandbox is marked closed: nothing of it is to be started again, and if its
\* child is alive, the thread that marked it is about to kill it.
SealedIsOver ==
    /\ sealed => where \in {"wait", "terminate", "kill", "raised", "closed"}
    /\ sealed /\ where \in {"terminate", "kill"} => after # "spawn"
    /\ where = "raised" => error = "unavailable" \/ (error = "other" /\ ~sealed)

\* Wherever there is no child, what the last one left is gone; and the result of the
\* kernel probe is the kernel of the child that is there, or not ok.
BackendInv ==
    /\ Backend!TypeOK
    /\ where \in {"wait", "terminate", "kill"} => after # "none"
    /\ where = "wait" => after # "spawn"
    /\ where \in {"runtimes", "probe", "image", "python", "spawn", "closed"} => Backend!Gone
    /\ where = "raised" /\ error = "unavailable" => Backend!Gone
    /\ where = "kill" /\ ~refused => Backend!Gone
    /\ SealedIsOver
    /\ Backend!Docker /\ proc = "alive" /\ kernel # "none" => rest = "alive"
    /\ where = "register" => phase = "use"
    /\ where = "ask" => phase = "verify" /\ ~ok
    /\ ok => phase = "use" \/ where = "judge"
    /\ where = "judge" /\ ok => reported = kernel /\ kernel # "none"
    /\ backend = "microvm" /\ phase = "use" /\ restarts = 0 =>
          /\ where \in {"open", "wait", "terminate", "kill", "raised", "closed"}
          /\ where \in {"terminate", "kill"} => after # "spawn"
    /\ Backend!HandedOutIsIsolated

LEMMA BackendInvSuffices == BackendInv => ConstructorsKeepTheirWord
  BY DEF BackendInv, SealedIsOver, Backend!Gone, ConstructorsKeepTheirWord,
         Backend!ConstructorsKeepTheirWord, Backend!UnavailableLeavesNothing,
         Backend!CloseStillCloses

LEMMA BackendStep == ASSUME BackendInv, [Backend!Next]_backendVars PROVE BackendInv'
<1> USE DEF BackendInv, Backend!TypeOK, Backend!Gone, SealedIsOver, Backend!Docker,
            Backend!HandedOutIsIsolated, Backend!Goto, Backend!Check, Backend!Refuse,
            Backend!RaiseUnavailable, Backend!RaiseOther, Backend!Restarting
<1>1. CASE Backend!AskRuntimes
  <2>1. CASE Backend!Check("runtimes", "probe") BY <2>1, SandboxAssumption
  <2>2. CASE Backend!Refuse("runtimes") BY <2>2, SandboxAssumption
  <2>3. QED BY <1>1, <2>1, <2>2 DEF Backend!AskRuntimes
<1>2. CASE Backend!Probe
  <2>1. CASE Backend!Check("probe", "image") BY <2>1, SandboxAssumption
  <2>2. CASE Backend!Refuse("probe") BY <2>2, SandboxAssumption
  <2>3. QED BY <1>2, <2>1, <2>2 DEF Backend!Probe
<1>3. CASE Backend!EnsureImage
  <2>1. CASE Backend!Check("image", "spawn") BY <2>1, SandboxAssumption
  <2>2. CASE Backend!Refuse("image") BY <2>2, SandboxAssumption
  <2>3. QED BY <1>3, <2>1, <2>2 DEF Backend!EnsureImage
<1>4. CASE Backend!FindPython
  <2>1. CASE Backend!Check("python", "spawn") BY <2>1, SandboxAssumption
  <2>2. CASE Backend!Refuse("python") BY <2>2, SandboxAssumption
  <2>3. QED BY <1>4, <2>1, <2>2 DEF Backend!FindPython
<1>5. CASE Backend!Spawn BY <1>5, SandboxAssumption DEF Backend!Spawn
<1>6. CASE Backend!SpawnFails BY <1>6, SandboxAssumption DEF Backend!SpawnFails
<1>7. CASE Backend!ContainerStarts BY <1>7, SandboxAssumption DEF Backend!ContainerStarts
<1>8. CASE Backend!Handshake BY <1>8, SandboxAssumption DEF Backend!Handshake, Backend!Speaks
<1>9. CASE Backend!HandshakeFails BY <1>9, SandboxAssumption DEF Backend!HandshakeFails
<1>10. CASE Backend!HandshakeGarbled BY <1>10, SandboxAssumption DEF Backend!HandshakeGarbled
<1>11. CASE Backend!RegisterAgain
  BY <1>11, SandboxAssumption DEF Backend!RegisterAgain, Backend!Speaks
<1>12. CASE Backend!RegisterAgainFails
  BY <1>12, SandboxAssumption DEF Backend!RegisterAgainFails
<1>13. CASE Backend!AskKernel BY <1>13, SandboxAssumption DEF Backend!AskKernel, Backend!Speaks
<1>14. CASE Backend!AskKernelFails BY <1>14, SandboxAssumption DEF Backend!AskKernelFails
<1>15. CASE Backend!Judge BY <1>15, SandboxAssumption DEF Backend!Judge, Backend!Accepts
<1>16. CASE Backend!BlockForks BY <1>16, SandboxAssumption DEF Backend!BlockForks
<1>17. CASE Backend!ChildDies BY <1>17, SandboxAssumption DEF Backend!ChildDies, Backend!ChildGoes
<1>18. CASE Backend!Lose BY <1>18, SandboxAssumption DEF Backend!Lose
<1>19. CASE Backend!Close BY <1>19, SandboxAssumption DEF Backend!Close
<1>20. CASE Backend!ShutdownSent
  BY <1>20, SandboxAssumption DEF Backend!ShutdownSent, Backend!ChildGoes
<1>21. CASE Backend!RemoveContainer
  <2>1. CASE Backend!ChildGoes /\ UNCHANGED refused
    BY <1>21, <2>1 DEF Backend!RemoveContainer, Backend!ChildGoes
  <2>2. CASE refused' = TRUE /\ UNCHANGED <<proc, rest>>
    BY <1>21, <2>2 DEF Backend!RemoveContainer
  <2>3. QED BY <1>21, <2>1, <2>2 DEF Backend!RemoveContainer
<1>22. CASE Backend!KillClient
  <2>1. CASE after # "raised" /\ where' = after /\ UNCHANGED <<sealed, error>>
    BY <1>22, <2>1 DEF Backend!KillClient, Backend!Killed
  <2>2. CASE after = "raised" /\ Backend!RaiseUnavailable(where)
    BY <1>22, <2>2 DEF Backend!KillClient, Backend!Killed, Backend!Restarting
  <2>3. QED BY <1>22, <2>1, <2>2 DEF Backend!KillClient, Backend!Killed
<1>23. CASE Backend!KillGroup
  <2>1. proc' = "dead" /\ ~Backend!Docker /\ where = "terminate"
        /\ rest' \in {"none", rest} /\ refused' \in BOOLEAN
        /\ UNCHANGED <<backend, require, linux, inDaemon, phase, after, left, kernel,
                       reported, ok, restarts>>
    BY <1>23 DEF Backend!KillGroup, Backend!Killed
  <2>2. CASE after # "raised" /\ where' = after /\ UNCHANGED <<sealed, error>>
    BY <2>1, <2>2
  <2>3. CASE after = "raised" /\ Backend!RaiseUnavailable(where)
    BY <2>1, <2>3 DEF Backend!Restarting
  <2>4. QED BY <1>23, <2>2, <2>3 DEF Backend!KillGroup, Backend!Killed
<1>24. CASE UNCHANGED backendVars BY <1>24 DEF backendVars
<1>25. QED
  BY <1>1, <1>2, <1>3, <1>4, <1>5, <1>6, <1>7, <1>8, <1>9, <1>10, <1>11, <1>12, <1>13,
     <1>14, <1>15, <1>16, <1>17, <1>18, <1>19, <1>20, <1>21, <1>22, <1>23, <1>24
  DEF Backend!Next

LEMMA BackendInvHolds == MCSpec => []BackendInv
<1>1. MCInit => BackendInv
  <2>1. SUFFICES ASSUME Backend!Init PROVE BackendInv BY DEF MCInit
  <2>2. where \in {"python", "probe", "runtimes"} BY <2>1 DEF Backend!Init
  <2>3. Backend!TypeOK
    <3>1. 0 \in 0..RestartBound BY SandboxAssumption
    <3>2. /\ backend \in {"subprocess", "docker", "microvm"}
          /\ require \in BOOLEAN /\ linux \in BOOLEAN /\ inDaemon \in BOOLEAN
          /\ phase = "build" /\ after = "none"
          /\ proc = "none" /\ rest = "none" /\ left = FALSE /\ kernel = "none"
          /\ reported = "none" /\ ok = FALSE /\ restarts = 0 /\ refused = FALSE
          /\ sealed = FALSE /\ error = "none"
      BY <2>1 DEF Backend!Init
    <3>3. QED BY <2>2, <3>1, <3>2 DEF Backend!TypeOK
  <2>4. QED
    BY <2>1, <2>2, <2>3
    DEF Backend!Init, BackendInv, Backend!Gone, SealedIsOver, Backend!HandedOutIsIsolated
<1>2. BackendInv /\ [MCNext]_mcVars => BackendInv'
  <2>1. [MCNext]_mcVars => [Backend!Next]_backendVars
    BY DEF MCNext, InChannel, InExit, InBackend, InBridge, mcVars, backendVars
  <2>2. QED BY <2>1, BackendStep
<1>3. MCSpec => MCInit /\ [][MCNext]_mcVars BY PTL DEF MCSpec
<1>4. QED BY <1>1, <1>2, <1>3, PTL

\* However often children are lost: a microVM sandbox that its constructor hands out on
\* Linux has a kernel of its own; a constructor or restart that says no sandbox could be
\* built leaves no process behind and no container that the daemon was able to remove;
\* and a sandbox whose child outlives any other error, an unreadable greeting or a name
\* that is not registered again, is not marked closed, so that close still kills it.
THEOREM ConstructorsKeepTheirWordHolds == MCSpec => []ConstructorsKeepTheirWord
BY BackendInvHolds, BackendInvSuffices, PTL

-----------------------------------------------------------------------------
(* The types of all four.                                                    *)

\* The channel, the exit path, the back ends and the frames hold what their types say,
\* on any pool: in particular the frame that opening, format_observation and
\* read_variable take from the top of the stack is there.
THEOREM MCTypeOKHolds == MCSpec => []MCTypeOK
<1>1. MCInit => FramesInv
  BY DEF MCInit, Bridge!Init, FramesInv, Bridge!TypeOK, OneFrameEach, Opened
<1>2. FramesInv /\ [MCNext]_mcVars => FramesInv'
  <2>1. [MCNext]_mcVars => [Bridge!Next]_bridgeVars
    BY DEF MCNext, InChannel, InExit, InBackend, InBridge, mcVars, bridgeVars
  <2>2. QED BY <2>1, FramesStep
<1>3. MCInit => ChannelInv BY InvInit DEF MCInit
<1>4. ChannelInv /\ [MCNext]_mcVars => ChannelInv'
  <2>1. [MCNext]_mcVars => [Next]_vars
    BY DEF MCNext, InChannel, InExit, InBackend, InBridge, mcVars
  <2>2. QED BY <2>1, InvNext
<1>5. ChannelInv /\ ExitInv /\ BackendInv /\ FramesInv => MCTypeOK
  BY DEF ChannelInv, ExitInv, BackendInv, FramesInv, MCTypeOK
<1>6. MCSpec => MCInit /\ [][MCNext]_mcVars BY PTL DEF MCSpec
<1>7. QED BY <1>1, <1>2, <1>3, <1>4, <1>5, <1>6, ExitInvHolds, BackendInvHolds, PTL

=============================================================================
