----------------------------- MODULE PhoneClient -----------------------------
(***************************************************************************)
(* The phone's Client (ios/Sources/Models/Client.swift) against the        *)
(* sessions of the server (Server.handle of server/server.go).             *)
(*                                                                         *)
(* Two threads of the phone matter: the main queue, where the user taps    *)
(* and where `state` is set, and the serial queue q, where everything is   *)
(* sent, timers fire and the network calls back.  A network callback or a  *)
(* timer that takes its turn on q is one step here, at any moment at which *)
(* it could; what the user's calls put on q is kept as a queue.            *)
(*                                                                         *)
(* The connections (NWConnection) report in their own time whether or not  *)
(* they are still the client's.  The server's side of a connection is its  *)
(* goroutine, reading one line per step.                                   *)
(***************************************************************************)
EXTENDS Integers, Sequences, FiniteSets

CONSTANTS
  Conn,         (* the connections that can be opened, each once            *)
  None,         (* conn is nil                                              *)
  MaxCalls,     (* bound on the moves, positions and other events           *)
  MaxFaults,    (* bound on failing connections, server ends and changes of *)
                (* the server's password                                    *)
  Patient       (* whether the user opens one connection at a time          *)

ASSUME ConstantsOK ==
  /\ IsFiniteSet(Conn) /\ None \notin Conn
  /\ MaxCalls \in Nat /\ MaxFaults \in Nat /\ Patient \in BOOLEAN

VARIABLES
  state,        (* Client.state, what the views show                        *)
  mainq,        (* the states on their way to the main queue                *)
  conn,         (* Client.conn                                              *)
  password,     (* Client.password                                          *)
  q,            (* the calls waiting on Client.q                            *)
  move,         (* pendingMoveDX, moveFlushScheduled, flush timers running  *)
  abs,          (* pendingAbsX, absPending, absFlushScheduled, timers       *)
  receives,     (* per connection, the pending calls of receive             *)
  net,          (* per connection, its NWConnection.State                   *)
  wire,         (* per connection, lines on their way to the server         *)
  back,         (* per connection, lines on their way to the phone          *)
  secret,       (* Server.password                                          *)
  srv,          (* per connection, how far its goroutine of the server is   *)
  got,          (* per connection, what the server has injected             *)
  calls, faults,(* what is used of the bounds                               *)
  called,       (* history: what the user has asked for, in the session     *)
  given,        (* history, per connection: the password it was opened with *)
  valid         (* history, per connection: the server's passwords from     *)
                (* then on, until it is let in or refused                   *)

ui      == <<state, mainq>>
motion  == <<move, abs>>
client  == <<conn, password, receives>>
network == <<net, wire, back>>
sessions == <<srv, got>>
server  == <<secret, sessions>>
bounds  == <<calls, faults>>
opened  == <<given, valid>>
history == <<called, opened>>
vars    == <<ui, motion, client, q, network, server, bounds, history>>

Password == {"one", "other"}
ClientState == {"idle", "connecting", "authenticating", "connected", "failed"}

(* Input: how far in all, the last absolute position, 0 for none, and how   *)
(* many other events.                                                       *)
Still == [rel |-> 0, abs |-> 0, acts |-> 0]
Motion == [rel : Int, abs : Nat, acts : Nat]

Line ==
  [t : {"hello"}] \cup [t : {"auth"}, nonce : Conn, pass : Password]
  \cup [t : {"move"}, dx : Int] \cup [t : {"abs"}, x : Nat]
  \cup [t : {"act", "bye"}, at : Motion]   (* at: history, called at the call *)

Call ==
  [do : {"send"}, line : Line] \cup [do : {"move"}, dx : Int]
  \cup [do : {"abs"}, x : Nat] \cup [do : {"disconnect"}, at : Motion]

TypeOK ==
  /\ state \in ClientState /\ mainq \in Seq(ClientState)
  /\ conn \in Conn \cup {None} /\ password \in Password
  /\ q \in Seq(Call)
  /\ move \in [dx : Int, sched : BOOLEAN, timers : Nat]
  /\ abs \in [x : Nat, pending : BOOLEAN, sched : BOOLEAN, timers : Nat]
  /\ receives \in [Conn -> 0..Cardinality(Conn)]
  /\ net \in [Conn -> {"unused", "preparing", "ready", "failed", "cancelling", "cancelled"}]
  /\ wire \in [Conn -> Seq(Line)]
  /\ back \in [Conn -> Seq({"challenge", "auth_ok", "error"})]
  /\ srv \in [Conn -> {"none", "hello", "auth", "serving", "refused", "closed"}]
  /\ got \in [Conn -> Motion]
  /\ calls \in 0..MaxCalls /\ faults \in 0..MaxFaults
  /\ secret \in Password
  /\ called \in Motion /\ given \in [Conn -> Password] /\ valid \in [Conn -> SUBSET Password]

-----------------------------------------------------------------------------
(* The user, on the main queue.                                             *)

(* A tap takes longer than what is queued takes to run: what was called     *)
(* before has run, and the flush timers of 8 ms have fired.                 *)
CaughtUp == q = <<>> /\ mainq = <<>> /\ move.timers = 0 /\ abs.timers = 0

(* A connection is being opened: it is not up yet, or its handshake is not  *)
(* over at both ends.                                                       *)
Opening(d) ==
  \/ net[d] = "preparing"
  \/ net[d] = "ready" /\ (srv[d] \in {"hello", "auth"} \/ back[d] # <<>>)

(* Planted bug: the password of the first attempt is kept.                  *)
StartKeepsPassword(c, p) ==
  /\ conn' = c
  /\ UNCHANGED password
  /\ receives' = [receives EXCEPT ![c] = @ + 1]
  /\ net' = [net EXCEPT ![c] = "preparing"]
  /\ mainq' = Append(mainq, "connecting")

(* start: the old connection, if any, is neither cancelled nor told apart.  *)
Start(c, p) ==
  /\ conn' = c
  /\ password' = p
  /\ receives' = [receives EXCEPT ![c] = @ + 1]
  /\ net' = [net EXCEPT ![c] = "preparing"]
  /\ mainq' = Append(mainq, "connecting")

(* DiscoveryView offers servers in every state but connected, also while a  *)
(* connection is being opened.  A new connection is none of those before;   *)
(* which name it gets makes no difference, so one is chosen.                *)
Connect(c, p) ==
  /\ state # "connected" /\ CaughtUp
  /\ Patient => \A d \in Conn : ~Opening(d)
  /\ net[c] = "unused" /\ c = CHOOSE d \in Conn : net[d] = "unused"
  /\ Start(c, p)
  /\ given' = [given EXCEPT ![c] = p] /\ valid' = [valid EXCEPT ![c] = {secret}]
  /\ called' = Still
  /\ UNCHANGED <<state, motion, q, wire, back, server, bounds>>

(* ControlView is there while the state is connected.                       *)
UserCalls(call) ==
  /\ state = "connected" /\ calls < MaxCalls
  /\ q' = Append(q, call)
  /\ calls' = calls + 1
  /\ UNCHANGED <<ui, motion, client, network, server, faults, opened>>

Move ==
  \E dx \in {-1, 1} :
    /\ UserCalls([do |-> "move", dx |-> dx])
    /\ called' = [called EXCEPT !.rel = @ + dx]

MoveAbs ==
  \E x \in {1, 2} :
    /\ UserCalls([do |-> "abs", x |-> x])
    /\ called' = [called EXCEPT !.abs = x]

(* click, button, scroll, text, key, ping, getscreen.                       *)
Act ==
  /\ UserCalls([do |-> "send", line |-> [t |-> "act", at |-> called]])
  /\ called' = [called EXCEPT !.acts = @ + 1]

Disconnect ==
  /\ UserCalls([do |-> "disconnect", at |-> called])
  /\ UNCHANGED called

SetState ==
  /\ mainq # <<>>
  /\ state' = Head(mainq)
  /\ mainq' = Tail(mainq)
  /\ UNCHANGED <<motion, client, q, network, server, bounds, history>>

-----------------------------------------------------------------------------
(* The queue q.                                                             *)

(* Planted bug: the flag stays set after the flush.                         *)
FlushMoveStaysScheduled == [move EXCEPT !.dx = 0]

(* What flushMove leaves, and what it sends.                                *)
FlushMove == [move EXCEPT !.dx = 0, !.sched = FALSE]

FlushedMove == IF move.dx = 0 THEN <<>> ELSE <<[t |-> "move", dx |-> move.dx]>>

(* The same of flushAbs.                                                    *)
FlushAbs == [abs EXCEPT !.pending = FALSE, !.sched = FALSE]

FlushedAbs == IF abs.pending THEN <<[t |-> "abs", x |-> abs.x]>> ELSE <<>>

(* writeLine, for each of lines: to whatever connection is the client's.  A *)
(* connection that is over takes nothing.                                   *)
WriteLines(lines) ==
  wire' = [c \in Conn |->
             IF c = conn /\ net[c] \in {"preparing", "ready"} THEN wire[c] \o lines ELSE wire[c]]

(* Planted bug: an event does not flush the motion before it.               *)
SendUnflushed(line) == WriteLines(<<line>>) /\ UNCHANGED <<move, abs>>

(* The block of send.                                                       *)
Send(line) ==
  /\ move' = FlushMove /\ abs' = FlushAbs
  /\ WriteLines(FlushedMove \o FlushedAbs \o <<line>>)

RunMove(call) ==
  /\ move' = [dx |-> move.dx + call.dx, sched |-> TRUE,
              timers |-> IF move.sched THEN move.timers ELSE move.timers + 1]
  /\ UNCHANGED <<abs, client, network>>

RunAbs(call) ==
  /\ abs' = [x |-> call.x, pending |-> TRUE, sched |-> TRUE,
             timers |-> IF abs.sched THEN abs.timers ELSE abs.timers + 1]
  /\ UNCHANGED <<move, client, network>>

RunSend(call) ==
  /\ Send(call.line)
  /\ UNCHANGED <<client, net, back>>

RunDisconnect(call) ==
  /\ Send([t |-> "bye", at |-> call.at])
  /\ net' = [c \in Conn |->
               IF c = conn /\ net[c] \in {"preparing", "ready"} THEN "cancelling" ELSE net[c]]
  /\ conn' = None
  /\ UNCHANGED <<password, receives, back>>

RunCall ==
  /\ q # <<>>
  /\ q' = Tail(q)
  /\ \/ Head(q).do = "move" /\ RunMove(Head(q))
     \/ Head(q).do = "abs" /\ RunAbs(Head(q))
     \/ Head(q).do = "send" /\ RunSend(Head(q))
     \/ Head(q).do = "disconnect" /\ RunDisconnect(Head(q))
  /\ UNCHANGED <<ui, server, bounds, history>>

MoveTimer ==
  /\ move.timers > 0
  /\ move' = [FlushMove EXCEPT !.timers = @ - 1]
  /\ WriteLines(FlushedMove)
  /\ UNCHANGED <<ui, abs, client, q, net, back, server, bounds, history>>

AbsTimer ==
  /\ abs.timers > 0
  /\ abs' = [FlushAbs EXCEPT !.timers = @ - 1]
  /\ WriteLines(FlushedAbs)
  /\ UNCHANGED <<ui, move, client, q, net, back, server, bounds, history>>

-----------------------------------------------------------------------------
(* The connections' callbacks, on q.                                        *)

(* The hello goes to the client's connection, not to the one that is ready. *)
Ready(c) ==
  /\ net[c] = "preparing"
  /\ net' = [net EXCEPT ![c] = "ready"]
  /\ srv' = [srv EXCEPT ![c] = "hello"]
  /\ q' = Append(q, [do |-> "send", line |-> [t |-> "hello"]])
  /\ mainq' = Append(mainq, "authenticating")
  /\ UNCHANGED <<state, motion, client, wire, back, secret, got, bounds, history>>

Fails(c) ==
  /\ net[c] \in {"preparing", "ready"}
  /\ faults < MaxFaults
  /\ faults' = faults + 1
  /\ net' = [net EXCEPT ![c] = "failed"]
  /\ mainq' = Append(mainq, "failed")
  /\ UNCHANGED <<state, motion, client, q, wire, back, server, calls, history>>

Cancelled(c) ==
  /\ net[c] = "cancelling"
  /\ net' = [net EXCEPT ![c] = "cancelled"]
  /\ mainq' = Append(mainq, "idle")
  /\ UNCHANGED <<state, motion, client, q, wire, back, server, bounds, history>>

(* handle: a challenge is answered with the current password, the answer    *)
(* is queued like any other line.                                           *)
Handle(c, reply) ==
  /\ q' = IF reply = "challenge"
            THEN Append(q, [do |-> "send",
                            line |-> [t |-> "auth", nonce |-> c, pass |-> password]])
            ELSE q
  /\ \/ reply = "challenge" /\ mainq' = mainq
     \/ reply = "auth_ok" /\ mainq' = Append(mainq, "connected")
     \/ reply = "error" /\ mainq' = Append(mainq, "failed")

(* Planted bugs: receive is not called again, and is called without the     *)
(* previous call being over.                                                *)
ReceiveNoMore(c) == receives' = [receives EXCEPT ![c] = @ - 1]

ReceiveTwice(c) == receives' = [d \in Conn |-> IF d = conn THEN receives[d] + 1 ELSE receives[d]]

(* The callback calls receive again, on what is the client's connection now.*)
ReceiveAgain(c) ==
  LET left == [receives EXCEPT ![c] = @ - 1]
  IN receives' = [d \in Conn |-> IF d = conn THEN left[d] + 1 ELSE left[d]]

Deliver(c) ==
  /\ net[c] = "ready" /\ receives[c] > 0 /\ back[c] # <<>>
  /\ Handle(c, Head(back[c]))
  /\ back' = [back EXCEPT ![c] = Tail(@)]
  /\ ReceiveAgain(c)
  /\ UNCHANGED <<state, motion, conn, password, net, wire, server, bounds, history>>

-----------------------------------------------------------------------------
(* Server.handle.                                                           *)

(* The next line, which r.Scan has returned.                                *)
Reads(c) ==
  /\ wire[c] # <<>>
  /\ wire' = [wire EXCEPT ![c] = Tail(@)]
  /\ UNCHANGED <<ui, motion, client, q, net, secret, bounds, history>>

Reply(c, reply, then) ==
  /\ back' = [back EXCEPT ![c] = Append(@, reply)]
  /\ srv' = [srv EXCEPT ![c] = then]
  /\ UNCHANGED got

(* The first line must be a hello.                                          *)
ServerHello(c) ==
  /\ srv[c] = "hello"
  /\ Reads(c)
  /\ IF Head(wire[c]).t = "hello"
       THEN Reply(c, "challenge", "auth")
       ELSE Reply(c, "error", "refused")

(* The second must prove the password for this connection's challenge.      *)
ServerAuth(c) ==
  LET line == Head(wire[c])
  IN /\ srv[c] = "auth"
     /\ Reads(c)
     /\ IF line.t = "auth" /\ line.nonce = c /\ line.pass = secret
          THEN Reply(c, "auth_ok", "serving")
          ELSE Reply(c, "error", "refused")

(* applyEvent, which passes over what it does not know.                     *)
Inject(at, line) ==
  IF line.t = "move"
    THEN [at EXCEPT !.rel = @ + line.dx]
    ELSE IF line.t = "abs" THEN [at EXCEPT !.abs = line.x]
           ELSE IF line.t = "act" THEN [at EXCEPT !.acts = @ + 1] ELSE at

(* The rest are events.                                                     *)
ServerEvent(c) ==
  LET line == Head(wire[c])
  IN /\ srv[c] = "serving"
     /\ Reads(c)
     /\ got' = [got EXCEPT ![c] = Inject(@, line)]
     /\ srv' = IF line.t = "bye" THEN [srv EXCEPT ![c] = "closed"] ELSE srv
     /\ UNCHANGED back

(* The line the server waits for does not come any more.                    *)
ServerHangsUp(c) ==
  /\ srv[c] \in {"hello", "auth", "serving"}
  /\ net[c] \in {"failed", "cancelling", "cancelled"}
  /\ srv' = [srv EXCEPT ![c] = "closed"]
  /\ UNCHANGED <<ui, motion, client, q, network, secret, got, bounds, history>>

(* The connection's handshake is not decided yet.                           *)
Undecided(c) == net[c] # "unused" /\ srv[c] \in {"none", "hello", "auth"}

(* SetPassword, of an Apply.  When no handshake is under way, it would only *)
(* swap the names of the two passwords for the connections to come.         *)
SetPassword(p) ==
  /\ secret # p
  /\ \E c \in Conn : Undecided(c)
  /\ faults < MaxFaults
  /\ faults' = faults + 1
  /\ secret' = p
  /\ valid' = [c \in Conn |-> IF Undecided(c) THEN valid[c] \cup {p} ELSE valid[c]]
  /\ UNCHANGED <<ui, motion, client, q, network, sessions, calls, called, given>>

(* The server's process ends.                                               *)
ServerEnds(c) ==
  /\ srv[c] \in {"hello", "auth", "serving"}
  /\ faults < MaxFaults
  /\ faults' = faults + 1
  /\ srv' = [srv EXCEPT ![c] = "closed"]
  /\ UNCHANGED <<ui, motion, client, q, network, secret, got, calls, history>>

Serve(c) == ServerHello(c) \/ ServerAuth(c) \/ ServerEvent(c)

-----------------------------------------------------------------------------

Init ==
  /\ state = "idle" /\ mainq = <<>>
  /\ conn = None /\ password = "other" /\ q = <<>>
  /\ move = [dx |-> 0, sched |-> FALSE, timers |-> 0]
  /\ abs = [x |-> 0, pending |-> FALSE, sched |-> FALSE, timers |-> 0]
  /\ receives = [c \in Conn |-> 0]
  /\ net = [c \in Conn |-> "unused"]
  /\ wire = [c \in Conn |-> <<>>] /\ back = [c \in Conn |-> <<>>]
  /\ srv = [c \in Conn |-> "none"] /\ got = [c \in Conn |-> Still]
  /\ secret = "one"
  /\ calls = 0 /\ faults = 0
  /\ called = Still
  /\ given = [c \in Conn |-> "other"] /\ valid = [c \in Conn |-> {}]

User == Move \/ MoveAbs \/ Act \/ Disconnect

Timer == MoveTimer \/ AbsTimer

Callback(c) == Ready(c) \/ Fails(c) \/ Cancelled(c) \/ Deliver(c)

Next ==
  \/ \E c \in Conn, p \in Password : Connect(c, p)
  \/ \E p \in Password : SetPassword(p)
  \/ User \/ SetState \/ RunCall \/ Timer
  \/ \E c \in Conn : Callback(c) \/ Serve(c) \/ ServerHangsUp(c) \/ ServerEnds(c)

Spec == Init /\ [][Next]_vars

(* Both queues run, timers fire, a connection gets ready or fails, and what *)
(* is on its way arrives.  The user and the faults are free.                *)
Fairness ==
  /\ WF_vars(SetState) /\ WF_vars(RunCall)
  /\ WF_vars(MoveTimer) /\ WF_vars(AbsTimer)
  /\ \A c \in Conn : /\ WF_vars(Ready(c)) /\ WF_vars(Cancelled(c))
                     /\ WF_vars(Deliver(c)) /\ WF_vars(Serve(c))

FairSpec == Spec /\ Fairness

-----------------------------------------------------------------------------
(* Properties.                                                              *)

(* A server only refuses a connection that was opened with a password       *)
(* which was not the server's all the time, as its message says             *)
(* (server.go:94): the handshake of Client.swift keeps to the order of the  *)
(* protocol, whatever became of the connections before.                     *)
RefusedMeansPassword ==
  \A c \in Conn : srv[c] = "refused" => valid[c] # {given[c]}

(* Nobody is let in with a password that was not the server's at some time  *)
(* since the connection was opened: a change of the password (server.go:30) *)
(* takes effect on every handshake that begins after it.                    *)
PasswordDecides ==
  /\ RefusedMeansPassword
  /\ \A c \in Conn : srv[c] = "serving" => given[c] \in valid[c]

(* When the server comes to an event or to the end of the session, the     *)
(* pointer is where the user had moved it when the event was called, and   *)
(* all events called before have been injected, each once: a click never   *)
(* overtakes the motion before it, nor is it overtaken                     *)
(* (Client.swift:141-142), none is lost, and disconnect loses nothing.     *)
NothingOvertakes ==
  \A c \in Conn :
    srv[c] = "serving" /\ wire[c] # <<>> /\ Head(wire[c]).t \in {"act", "bye"}
      => got[c] = Head(wire[c]).at

(* The session of connection c goes on.                                    *)
InSession(c) == conn = c /\ srv[c] = "serving" /\ net[c] = "ready"

(* Coalescing ends in a trailing flush that preserves the final position   *)
(* (Client.swift:78-79): the server catches up with the user, in motion    *)
(* and in events.                                                          *)
TrailingFlush == \A c \in Conn : InSession(c) ~> (InSession(c) => got[c] = called)

(* The client's connection c is up or coming up, and the server has not    *)
(* gone away.                                                              *)
Shaking(c) == conn = c /\ net[c] \in {"preparing", "ready"} /\ srv[c] # "closed"

(* A connection that is being opened ends up connected or refused on the   *)
(* phone, unless it fails or the server goes away.                         *)
ConnectArrives ==
  \A c \in Conn : Shaking(c) ~> (Shaking(c) => state \in {"connected", "failed"})

=============================================================================
