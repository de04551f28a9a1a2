-------------------------- MODULE PhoneClientProofs --------------------------
(***************************************************************************)
(* What the runs of PhoneClient show of two connections and a few events   *)
(* holds of any number of them, and whatever the bounds.                   *)
(*                                                                         *)
(* The receives are counted by tokens: every pending call of receive goes  *)
(* back to the start of one connection.  The handshake's invariant lists   *)
(* the stages it can be at while a connection is being opened, and is the  *)
(* only one that takes the user to be patient.  Motion is followed from    *)
(* the user to the pointer: a trace of the positions that the server comes *)
(* through over the lines on the wire, and of those that the client will   *)
(* have asked for over the calls on its queue, with what is coalesced      *)
(* between the end of one and the start of the other.                      *)
(***************************************************************************)
EXTENDS PhoneClient, FiniteSetTheorems, SequenceTheorems, TLAPS

-----------------------------------------------------------------------------
(* The invariants.                                                         *)

(* Motion that is pending has a timer that will flush it.                  *)
TimersRun ==
  /\ move.dx # 0 => move.sched
  /\ move.sched => move.timers > 0
  /\ abs.pending => abs.sched
  /\ abs.sched => abs.timers > 0

Used == {c \in Conn : net[c] # "unused"}

(* h: the connection that the receive first called for each is now on.     *)
Tokens(h) ==
  /\ h \in [Used -> Conn \cup {None}]
  /\ \A c \in Conn : receives[c] = Cardinality({d \in Used : h[d] = c})

ReceivesCounted == \E h : Tokens(h)

(* What has not been opened is untouched.                                  *)
Fresh ==
  \A c \in Conn :
    /\ net[c] = "unused" => wire[c] = <<>>
    /\ net[c] \in {"unused", "preparing"} => srv[c] = "none"
    /\ srv[c] = "none" => got[c] = Still /\ back[c] = <<>>

HelloLine == [t |-> "hello"]
AuthLine(c) == [t |-> "auth", nonce |-> c, pass |-> given[c]]

SendOf(line) == [do |-> "send", line |-> line]

Undisturbed(c) ==
  /\ conn = c /\ password = given[c]
  /\ state # "connected" /\ \A i \in DOMAIN mainq : mainq[i] # "connected"
  /\ move.dx = 0 /\ ~abs.pending /\ move.timers = 0 /\ abs.timers = 0

(* The stages of a handshake at the phone's end: nobody else uses the      *)
(* client, and no two of the queue, the wire and the way back are in use.  *)
Stages(c) ==
  /\ net[c] = "preparing" => q = <<>> /\ wire[c] = <<>>
  /\ back[c] # <<>> =>
       /\ q = <<>> /\ wire[c] = <<>> /\ Len(back[c]) = 1
       /\ Head(back[c]) = "challenge" => srv[c] \in {"auth", "closed"}
       /\ Head(back[c]) = "auth_ok" => srv[c] \in {"serving", "closed"}
       /\ Head(back[c]) = "error" => srv[c] = "refused"
  /\ srv[c] = "hello" =>
       /\ back[c] = <<>>
       /\ \/ q = <<>>
          \/ q = <<SendOf(HelloLine)>> /\ wire[c] = <<>>
  /\ srv[c] = "auth" /\ back[c] = <<>> =>
       \/ q = <<>>
       \/ q = <<SendOf(AuthLine(c))>> /\ wire[c] = <<>>

(* What the server is sent while it waits for the hello or the auth.       *)
Expected(c) ==
  /\ srv[c] = "hello" => wire[c] = <<>> \/ wire[c] = <<HelloLine>>
  /\ srv[c] = "auth" => wire[c] = <<>> \/ wire[c] = <<AuthLine(c)>>

OrderOf(c) == (Opening(c) => Undisturbed(c) /\ Stages(c)) /\ Expected(c)

HandshakeOrder == \A c \in Conn : OrderOf(c)

Passwords ==
  /\ \A c \in Conn : Undecided(c) => secret \in valid[c]
  /\ PasswordDecides

(* Where a call leaves what the user has asked for.                        *)
Ask(at, call) ==
  IF call.do = "move"
    THEN [at EXCEPT !.rel = @ + call.dx]
    ELSE IF call.do = "abs" THEN [at EXCEPT !.abs = call.x]
           ELSE IF call.do = "send" /\ call.line.t = "act"
                  THEN [at EXCEPT !.acts = @ + 1] ELSE at

(* What the user had asked for when an event or a disconnect was called.   *)
AtCall(call, at) ==
  /\ call.do = "disconnect" => call.at = at
  /\ call.do = "send" /\ call.line.t = "act" => call.line.at = at
  /\ call.do = "send" => call.line.t \in {"hello", "auth", "act"}

(* What f the server has injected over the lines of w, and what g the user *)
(* has asked for over the calls of cs: each event is sent and called where *)
(* the pointer is at its turn, behind as many events as came before it.    *)
Passes(f, w) ==
  /\ f \in [0..Len(w) -> Motion]
  /\ \A i \in 1..Len(w) :
       /\ f[i] = Inject(f[i - 1], w[i])
       /\ w[i].t \in {"act", "bye"} => w[i].at = f[i - 1]

Asks(g, cs) ==
  /\ g \in [0..Len(cs) -> Motion]
  /\ \A i \in 1..Len(cs) : g[i] = Ask(g[i - 1], cs[i]) /\ AtCall(cs[i], g[i - 1])

(* What the coalesced motion adds when it is flushed.                      *)
Flushed(at, mv, ab) ==
  [rel |-> at.rel + mv.dx, abs |-> IF ab.pending THEN ab.x ELSE at.abs, acts |-> at.acts]

Live(c) == conn = c /\ net[c] \in {"preparing", "ready"}

Tracked(c) == srv[c] \in {"none", "hello", "auth", "serving"}

InOrder(c) ==
  Tracked(c) =>
    \E f : /\ Passes(f, wire[c]) /\ f[0] = got[c]
           /\ Live(c) => \E g : /\ Asks(g, q) /\ g[Len(q)] = called
                               /\ g[0] = Flushed(f[Len(wire[c])], move, abs)

MotionInOrder == \A c \in Conn : InOrder(c)

-----------------------------------------------------------------------------
(* Types.                                                                  *)

(* TypeOK, but for the number of receives.                                 *)
Typed ==
  /\ state \in ClientState /\ mainq \in Seq(ClientState)
  /\ conn \in Conn \cup {None} /\ password \in Password
  /\ q \in Seq(Call)
  /\ move \in [dx : Int, sched : BOOLEAN, timers : Nat]
  /\ abs \in [x : Nat, pending : BOOLEAN, sched : BOOLEAN, timers : Nat]
  /\ receives \in [Conn -> Int]
  /\ net \in [Conn -> {"unused", "preparing", "ready", "failed", "cancelling", "cancelled"}]
  /\ wire \in [Conn -> Seq(Line)]
  /\ back \in [Conn -> Seq({"challenge", "auth_ok", "error"})]
  /\ srv \in [Conn -> {"none", "hello", "auth", "serving", "refused", "closed"}]
  /\ got \in [Conn -> Motion]
  /\ calls \in 0..MaxCalls /\ faults \in 0..MaxFaults
  /\ secret \in Password
  /\ called \in Motion /\ given \in [Conn -> Password] /\ valid \in [Conn -> SUBSET Password]

LEMMA LineTypes ==
  /\ [t |-> "hello"] \in Line
  /\ \A c \in Conn, p \in Password : [t |-> "auth", nonce |-> c, pass |-> p] \in Line
  /\ \A dx \in Int : [t |-> "move", dx |-> dx] \in Line
  /\ \A x \in Nat : [t |-> "abs", x |-> x] \in Line
  /\ \A t \in {"act", "bye"}, m \in Motion : [t |-> t, at |-> m] \in Line
  /\ \A line \in Line : /\ line.t \in {"hello", "auth", "move", "abs", "act", "bye"}
                        /\ line.t = "move" => line.dx \in Int
                        /\ line.t = "abs" => line.x \in Nat
  BY DEF Line

LEMMA CallTypes ==
  /\ \A line \in Line : [do |-> "send", line |-> line] \in Call
  /\ \A dx \in Int : [do |-> "move", dx |-> dx] \in Call
  /\ \A x \in Nat : [do |-> "abs", x |-> x] \in Call
  /\ \A m \in Motion : [do |-> "disconnect", at |-> m] \in Call
  /\ \A call \in Call : /\ call.do \in {"send", "move", "abs", "disconnect"}
                        /\ call.do = "send" => call.line \in Line
                        /\ call.do = "move" => call.dx \in Int
                        /\ call.do = "abs" => call.x \in Nat
                        /\ call.do = "disconnect" => call.at \in Motion
  BY DEF Call

LEMMA InjectType ==
  ASSUME NEW m \in Motion, NEW line \in Line
  PROVE  Inject(m, line) \in Motion
<1>1. m.rel \in Int /\ m.abs \in Nat /\ m.acts \in Nat
  BY DEF Motion
<1>2. CASE line.t = "move"
  BY <1>1, <1>2, LineTypes DEF Inject, Motion
<1>3. CASE line.t = "abs"
  BY <1>1, <1>3, LineTypes DEF Inject, Motion
<1>4. CASE line.t = "act"
  BY <1>1, <1>4 DEF Inject, Motion
<1>5. CASE line.t \notin {"move", "abs", "act"}
  BY <1>5 DEF Inject
<1> QED  BY <1>2, <1>3, <1>4, <1>5

(* What a flush leaves and sends.                                          *)
LEMMA FlushTypes ==
  ASSUME Typed
  PROVE  /\ FlushMove \in [dx : Int, sched : BOOLEAN, timers : Nat]
         /\ FlushMove.timers = move.timers /\ FlushMove.dx = 0 /\ FlushMove.sched = FALSE
         /\ FlushAbs \in [x : Nat, pending : BOOLEAN, sched : BOOLEAN, timers : Nat]
         /\ FlushAbs.timers = abs.timers /\ FlushAbs.pending = FALSE /\ FlushAbs.sched = FALSE
         /\ FlushedMove \in Seq(Line) /\ FlushedAbs \in Seq(Line)
         /\ FlushedMove \o FlushedAbs \in Seq(Line)
         /\ \A line \in Line : FlushedMove \o FlushedAbs \o <<line>> \in Seq(Line)
<1> USE DEF Typed
<1>1. /\ FlushMove \in [dx : Int, sched : BOOLEAN, timers : Nat]
      /\ FlushMove.timers = move.timers /\ FlushMove.dx = 0 /\ FlushMove.sched = FALSE
  <2>1. move \in [dx : Int, sched : BOOLEAN, timers : Nat]
    OBVIOUS
  <2> HIDE DEF Typed
  <2>2. FlushMove \in [dx : Int, sched : BOOLEAN, timers : Nat]
    <3>1. FlushMove \in [dx : {0}, sched : {FALSE}, timers : Nat]
      BY <2>1 DEF FlushMove
    <3>2. PICK n \in Nat : FlushMove = [dx |-> 0, sched |-> FALSE, timers |-> n]
      BY <3>1
    <3> QED  BY <3>2
  <2>3. FlushMove.timers = move.timers /\ FlushMove.dx = 0 /\ FlushMove.sched = FALSE
    BY <2>1 DEF FlushMove
  <2> QED  BY <2>2, <2>3
<1>2. /\ FlushAbs \in [x : Nat, pending : BOOLEAN, sched : BOOLEAN, timers : Nat]
      /\ FlushAbs.timers = abs.timers /\ FlushAbs.pending = FALSE /\ FlushAbs.sched = FALSE
  BY DEF FlushAbs
<1>3. [t |-> "move", dx |-> move.dx] \in Line /\ [t |-> "abs", x |-> abs.x] \in Line
  BY LineTypes
<1>4. FlushedMove \in Seq(Line)
  BY <1>3 DEF FlushedMove
<1>5. FlushedAbs \in Seq(Line)
  BY <1>3 DEF FlushedAbs
<1>6. FlushedMove \o FlushedAbs \in Seq(Line)
  BY <1>4, <1>5
<1>7. ASSUME NEW line \in Line
      PROVE  FlushedMove \o FlushedAbs \o <<line>> \in Seq(Line)
  BY <1>6
<1> QED  BY <1>1, <1>2, <1>4, <1>5, <1>6, <1>7

LEMMA WriteTyped ==
  ASSUME Typed, NEW lines \in Seq(Line), WriteLines(lines)
  PROVE  wire' \in [Conn -> Seq(Line)]
<1>1. \A c \in Conn : wire[c] \o lines \in Seq(Line)
  BY DEF Typed
<1> QED  BY <1>1 DEF Typed, WriteLines

LEMMA ConnectTyped ==
  ASSUME Typed, NEW c \in Conn, NEW p \in Password, Connect(c, p)
  PROVE  Typed'
<1> USE DEF Typed, ui, motion, client, network, sessions, server, bounds
<1>1. mainq' \in Seq(ClientState)
  <2>1. "connecting" \in ClientState
    BY DEF ClientState
  <2> QED  BY <2>1 DEF Connect, Start
<1>2. /\ conn' \in Conn /\ password' \in Password
      /\ receives' \in [Conn -> Int]
      /\ net' \in [Conn -> {"unused", "preparing", "ready", "failed", "cancelling", "cancelled"}]
  BY DEF Connect, Start
<1>3. called' \in Motion /\ given' \in [Conn -> Password] /\ valid' \in [Conn -> SUBSET Password]
  <2>1. Still \in Motion
    BY DEF Still, Motion
  <2> QED  BY <2>1 DEF Connect
<1>4. UNCHANGED <<state, q, move, abs, wire, back, srv, got, calls, faults, secret>>
  BY DEF Connect
<1> QED  BY <1>1, <1>2, <1>3, <1>4

(* What a user's call changes.                                             *)
LEMMA UserEffect ==
  ASSUME Typed, User
  PROVE  \E call \in Call :
           /\ q' = Append(q, call)
           /\ called' = Ask(called, call) /\ called' \in Motion /\ AtCall(call, called)
           /\ state = "connected" /\ calls' = calls + 1 /\ calls < MaxCalls
           /\ UNCHANGED <<ui, motion, client, network, server, faults, opened>>
<1> USE DEF Typed
<1>0. called \in Motion
  OBVIOUS
<1>1. CASE Move
  <2>1. PICK dx \in {-1, 1} : /\ UserCalls([do |-> "move", dx |-> dx])
                              /\ called' = [called EXCEPT !.rel = @ + dx]
    BY <1>1 DEF Move
  <2> DEFINE call == [do |-> "move", dx |-> dx]
  <2>2. call \in Call /\ AtCall(call, called)
    BY CallTypes DEF AtCall
  <2>3. called' = Ask(called, call)
    BY <2>1 DEF Ask
  <2>4. called' \in Motion
    <3> HIDE DEF Typed
    <3> QED  BY <1>0, <2>1 DEF Motion
  <2> QED  BY <2>1, <2>2, <2>3, <2>4 DEF UserCalls
<1>2. CASE MoveAbs
  <2>1. PICK x \in {1, 2} : /\ UserCalls([do |-> "abs", x |-> x])
                            /\ called' = [called EXCEPT !.abs = x]
    BY <1>2 DEF MoveAbs
  <2> DEFINE call == [do |-> "abs", x |-> x]
  <2>2. call \in Call /\ AtCall(call, called)
    BY CallTypes DEF AtCall
  <2>3. called' = Ask(called, call)
    BY <2>1 DEF Ask
  <2>4. called' \in Motion
    <3> HIDE DEF Typed
    <3> QED  BY <1>0, <2>1 DEF Motion
  <2> QED  BY <2>1, <2>2, <2>3, <2>4 DEF UserCalls
<1>3. CASE Act
  <2> DEFINE line == [t |-> "act", at |-> called]
             call == [do |-> "send", line |-> line]
  <2>1. line \in Line
    BY LineTypes
  <2>2. /\ call \in Call /\ AtCall(call, called)
        /\ Ask(called, call) = [called EXCEPT !.acts = @ + 1]
    BY <2>1, CallTypes DEF AtCall, Ask
  <2>3. [called EXCEPT !.acts = @ + 1] \in Motion
    <3> HIDE DEF Typed
    <3> QED  BY <1>0 DEF Motion
  <2> QED  BY <1>3, <2>2, <2>3 DEF Act, UserCalls
<1>4. CASE Disconnect
  <2> DEFINE call == [do |-> "disconnect", at |-> called]
  <2>1. /\ call \in Call /\ AtCall(call, called) /\ Ask(called, call) = called
    BY CallTypes DEF AtCall, Ask
  <2> QED  BY <1>4, <2>1 DEF Disconnect, UserCalls
<1> QED  BY <1>1, <1>2, <1>3, <1>4 DEF User

LEMMA UserTyped ==
  ASSUME Typed, User
  PROVE  Typed'
<1>1. PICK call \in Call :
        /\ q' = Append(q, call) /\ called' \in Motion
        /\ calls' = calls + 1 /\ calls < MaxCalls
        /\ UNCHANGED <<ui, motion, client, network, server, faults, opened>>
  BY UserEffect
<1> QED
  BY <1>1, ConstantsOK DEF Typed, ui, motion, client, network, sessions, server, opened

LEMMA SetStateTyped ==
  ASSUME Typed, SetState
  PROVE  Typed'
  BY DEF SetState, Typed, motion, client, network, sessions, server, bounds, opened, history

LEMMA RunCallTyped ==
  ASSUME Typed, RunCall
  PROVE  Typed'
<1> USE DEF Typed
<1>1. /\ q # <<>> /\ q' = Tail(q)
      /\ UNCHANGED <<state, mainq, secret, srv, got, calls, faults, called, given, valid>>
  BY DEF RunCall, ui, server, sessions, bounds, opened, history
<1>2. Head(q) \in Call /\ q' \in Seq(Call)
  BY <1>1
<1> DEFINE call == Head(q)
<1>3. CASE call.do = "move" /\ RunMove(call)
  <2>1. move' \in [dx : Int, sched : BOOLEAN, timers : Nat]
    BY <1>2, <1>3, CallTypes DEF RunMove
  <2> QED  BY <1>1, <1>2, <1>3, <2>1 DEF RunMove, client, network
<1>4. CASE call.do = "abs" /\ RunAbs(call)
  <2>1. abs' \in [x : Nat, pending : BOOLEAN, sched : BOOLEAN, timers : Nat]
    BY <1>2, <1>4, CallTypes DEF RunAbs
  <2> QED  BY <1>1, <1>2, <1>4, <2>1 DEF RunAbs, client, network
<1>5. ASSUME NEW line \in Line, Send(line)
      PROVE  /\ move' \in [dx : Int, sched : BOOLEAN, timers : Nat]
             /\ abs' \in [x : Nat, pending : BOOLEAN, sched : BOOLEAN, timers : Nat]
             /\ wire' \in [Conn -> Seq(Line)]
  <2>1. wire' \in [Conn -> Seq(Line)]
    BY <1>5, FlushTypes, WriteTyped DEF Send
  <2> HIDE DEF Typed
  <2>2. /\ FlushMove \in [dx : Int, sched : BOOLEAN, timers : Nat]
        /\ FlushAbs \in [x : Nat, pending : BOOLEAN, sched : BOOLEAN, timers : Nat]
    BY FlushTypes
  <2>3. move' = FlushMove /\ abs' = FlushAbs
    BY <1>5 DEF Send
  <2>4. move' \in [dx : Int, sched : BOOLEAN, timers : Nat]
    BY <2>2, <2>3
  <2>5. abs' \in [x : Nat, pending : BOOLEAN, sched : BOOLEAN, timers : Nat]
    BY <2>2, <2>3
  <2> QED  BY <2>1, <2>4, <2>5
<1>6. CASE call.do = "send" /\ RunSend(call)
  <2>1. call.line \in Line
    BY <1>2, <1>6, CallTypes
  <2> QED  BY <1>1, <1>2, <1>5, <1>6, <2>1 DEF RunSend, client
<1>7. CASE call.do = "disconnect" /\ RunDisconnect(call)
  <2>1. [t |-> "bye", at |-> call.at] \in Line
    BY <1>2, <1>7, CallTypes, LineTypes
  <2>2. net' \in [Conn -> {"unused", "preparing", "ready", "failed", "cancelling", "cancelled"}]
    BY <1>7 DEF RunDisconnect
  <2> QED  BY <1>1, <1>2, <1>5, <1>7, <2>1, <2>2 DEF RunDisconnect
<1> QED  BY <1>3, <1>4, <1>6, <1>7 DEF RunCall

LEMMA TimerTyped ==
  ASSUME Typed, Timer
  PROVE  Typed'
<1>1. CASE MoveTimer
  <2>1. /\ move.timers > 0 /\ move' = [FlushMove EXCEPT !.timers = @ - 1]
        /\ UNCHANGED <<ui, abs, client, q, net, back, server, bounds, history>>
    BY <1>1 DEF MoveTimer
  <2>a. /\ FlushMove \in [dx : Int, sched : BOOLEAN, timers : Nat]
        /\ FlushMove.timers > 0
    BY <2>1, FlushTypes
  <2>2. move' \in [dx : Int, sched : BOOLEAN, timers : Nat]
    BY <2>1, <2>a
  <2>3. wire' \in [Conn -> Seq(Line)]
    BY <1>1, FlushTypes, WriteTyped DEF MoveTimer
  <2> QED
    BY <2>1, <2>2, <2>3 DEF Typed, ui, client, server, sessions, bounds, opened, history
<1>2. CASE AbsTimer
  <2>1. /\ abs.timers > 0 /\ abs' = [FlushAbs EXCEPT !.timers = @ - 1]
        /\ UNCHANGED <<ui, move, client, q, net, back, server, bounds, history>>
    BY <1>2 DEF AbsTimer
  <2>a. /\ FlushAbs \in [x : Nat, pending : BOOLEAN, sched : BOOLEAN, timers : Nat]
        /\ FlushAbs.timers > 0
    BY <2>1, FlushTypes
  <2>2. abs' \in [x : Nat, pending : BOOLEAN, sched : BOOLEAN, timers : Nat]
    BY <2>1, <2>a
  <2>3. wire' \in [Conn -> Seq(Line)]
    BY <1>2, FlushTypes, WriteTyped DEF AbsTimer
  <2> QED
    BY <2>1, <2>2, <2>3 DEF Typed, ui, client, server, sessions, bounds, opened, history
<1> QED  BY <1>1, <1>2 DEF Timer
LEMMA CallbackTyped ==
  ASSUME Typed, NEW c \in Conn, Callback(c)
  PROVE  Typed'
<1> USE DEF Typed
<1>1. \A st \in ClientState : Append(mainq, st) \in Seq(ClientState)
  OBVIOUS
<1>2. {"connecting", "authenticating", "connected", "failed", "idle"} \subseteq ClientState
  BY DEF ClientState
<1>3. CASE Ready(c)
  <2>1. Append(q, [do |-> "send", line |-> [t |-> "hello"]]) \in Seq(Call)
    BY LineTypes, CallTypes
  <2>2. /\ net' \in [Conn -> {"unused", "preparing", "ready", "failed", "cancelling", "cancelled"}]
        /\ srv' \in [Conn -> {"none", "hello", "auth", "serving", "refused", "closed"}]
    BY <1>3 DEF Ready
  <2> QED  BY <1>1, <1>2, <1>3, <2>1, <2>2 DEF Ready, motion, client, bounds, opened, history
<1>4. CASE Fails(c)
  <2>1. net' \in [Conn -> {"unused", "preparing", "ready", "failed", "cancelling", "cancelled"}]
    BY <1>4 DEF Fails
  <2>2. faults' \in 0..MaxFaults
    BY <1>4, ConstantsOK DEF Fails
  <2> QED  BY <1>1, <1>2, <1>4, <2>1, <2>2 DEF Fails, motion, client, server, sessions, opened, history
<1>5. CASE Cancelled(c)
  <2>1. net' \in [Conn -> {"unused", "preparing", "ready", "failed", "cancelling", "cancelled"}]
    BY <1>5 DEF Cancelled
  <2> QED  BY <1>1, <1>2, <1>5, <2>1 DEF Cancelled, motion, client, server, sessions, bounds, opened, history
<1>6. CASE Deliver(c)
  <2> DEFINE reply == Head(back[c])
             auth == [do |-> "send", line |-> [t |-> "auth", nonce |-> c, pass |-> password]]
  <2>1. auth \in Call
    BY LineTypes, CallTypes
  <2> HIDE DEF auth
  <2>2. q' \in {q, Append(q, auth)} /\ q' \in Seq(Call)
    BY <1>6, <2>1 DEF Deliver, Handle, auth
  <2>3. mainq' \in Seq(ClientState)
    BY <1>1, <1>2, <1>6 DEF Deliver, Handle
  <2>4. back' \in [Conn -> Seq({"challenge", "auth_ok", "error"})]
    <3>1. Tail(back[c]) \in Seq({"challenge", "auth_ok", "error"})
      BY <1>6 DEF Deliver
    <3> QED  BY <1>6, <3>1 DEF Deliver
  <2>5. receives' \in [Conn -> Int]
    <3> DEFINE left == [receives EXCEPT ![c] = @ - 1]
    <3>1. left \in [Conn -> Int]
      OBVIOUS
    <3>2. receives' = [d \in Conn |-> IF d = conn THEN left[d] + 1 ELSE left[d]]
      BY <1>6 DEF Deliver, ReceiveAgain
    <3> HIDE DEF left
    <3> QED  BY <3>1, <3>2
  <2> QED
    BY <1>6, <2>2, <2>3, <2>4, <2>5 DEF Deliver, motion, server, sessions, bounds, opened, history
<1> QED  BY <1>3, <1>4, <1>5, <1>6 DEF Callback

LEMMA ReplyTyped ==
  ASSUME Typed, NEW c \in Conn, NEW reply \in {"challenge", "auth_ok", "error"},
         NEW then \in {"auth", "serving", "refused"}, Reply(c, reply, then)
  PROVE  /\ back' \in [Conn -> Seq({"challenge", "auth_ok", "error"})]
         /\ srv' \in [Conn -> {"none", "hello", "auth", "serving", "refused", "closed"}]
         /\ got' = got
<1>1. Append(back[c], reply) \in Seq({"challenge", "auth_ok", "error"})
  BY DEF Typed
<1> QED  BY <1>1 DEF Typed, Reply

LEMMA ServeTyped ==
  ASSUME Typed, NEW c \in Conn, Serve(c)
  PROVE  Typed'
<1> USE DEF Typed
<1>1. /\ wire[c] # <<>> /\ Reads(c)
      /\ UNCHANGED <<state, mainq, move, abs, conn, password, receives, q, net, secret,
                     calls, faults, called, given, valid>>
  BY DEF Serve, ServerHello, ServerAuth, ServerEvent, Reads, ui, motion, client, bounds,
         opened, history
<1>2. Head(wire[c]) \in Line /\ Tail(wire[c]) \in Seq(Line)
  BY <1>1
<1>3. wire' \in [Conn -> Seq(Line)]
  BY <1>1, <1>2 DEF Reads
<1>4. CASE ServerHello(c) \/ ServerAuth(c)
  <2>1. PICK reply \in {"challenge", "auth_ok", "error"}, then \in {"auth", "serving", "refused"} :
          Reply(c, reply, then)
    BY <1>4 DEF ServerHello, ServerAuth
  <2> HIDE DEF Typed
  <2>2. /\ back' \in [Conn -> Seq({"challenge", "auth_ok", "error"})]
        /\ srv' \in [Conn -> {"none", "hello", "auth", "serving", "refused", "closed"}]
        /\ got' = got
    BY <2>1, ReplyTyped
  <2> USE DEF Typed
  <2> QED  BY <1>1, <1>3, <2>2
<1>5. CASE ServerEvent(c)
  <2>1. got' = [got EXCEPT ![c] = Inject(@, Head(wire[c]))] /\ back' = back
    BY <1>5 DEF ServerEvent
  <2>2. got' \in [Conn -> Motion]
    BY <1>2, <2>1, InjectType
  <2>3. srv' \in [Conn -> {"none", "hello", "auth", "serving", "refused", "closed"}]
    BY <1>5 DEF ServerEvent
  <2> QED  BY <1>1, <1>3, <2>1, <2>2, <2>3
<1> QED  BY <1>4, <1>5 DEF Serve

LEMMA ServerTyped ==
  ASSUME Typed, NEW c \in Conn, ServerHangsUp(c) \/ ServerEnds(c)
  PROVE  Typed'
<1>1. srv' \in [Conn -> {"none", "hello", "auth", "serving", "refused", "closed"}]
  <2>1. srv' = [srv EXCEPT ![c] = "closed"]
    BY DEF ServerHangsUp, ServerEnds
  <2> QED  BY <2>1 DEF Typed
<1>2. faults' \in 0..MaxFaults
  <2>1. faults' = faults \/ (faults < MaxFaults /\ faults' = faults + 1)
    BY DEF ServerHangsUp, ServerEnds, bounds
  <2> QED  BY <2>1, ConstantsOK DEF Typed
<1> QED
  BY <1>1, <1>2 DEF Typed, ServerHangsUp, ServerEnds, ui, motion, client, network, bounds,
     opened, history

LEMMA SetPasswordTyped ==
  ASSUME Typed, NEW p \in Password, SetPassword(p)
  PROVE  Typed'
<1>1. valid' \in [Conn -> SUBSET Password] /\ faults' \in 0..MaxFaults
  BY ConstantsOK DEF Typed, SetPassword
<1> QED
  BY <1>1 DEF Typed, SetPassword, ui, motion, client, network, sessions

LEMMA NextTyped ==
  ASSUME Typed, Next
  PROVE  Typed'
BY ConnectTyped, UserTyped, SetStateTyped, RunCallTyped, TimerTyped, CallbackTyped, ServeTyped,
   ServerTyped, SetPasswordTyped DEF Next
-----------------------------------------------------------------------------
(* The receives.                                                           *)

LEMMA TokensBound ==
  ASSUME ReceivesCounted, NEW c \in Conn
  PROVE  receives[c] \in 0..Cardinality(Conn)
<1>1. PICK h : Tokens(h)
  BY DEF ReceivesCounted
<1>2. {d \in Used : h[d] = c} \in SUBSET Conn
  BY DEF Used
<1>3. IsFiniteSet(Conn) /\ Cardinality(Conn) \in Nat
  BY ConstantsOK, FS_CardinalityType
<1>4. /\ IsFiniteSet({d \in Used : h[d] = c})
      /\ Cardinality({d \in Used : h[d] = c}) <= Cardinality(Conn)
  BY <1>2, <1>3, FS_Subset
<1>5. Cardinality({d \in Used : h[d] = c}) \in Nat
  BY <1>4, FS_CardinalityType
<1> QED  BY <1>1, <1>3, <1>4, <1>5 DEF Tokens

LEMMA TokensFinite ==
  ASSUME NEW h, NEW e
  PROVE  /\ IsFiniteSet({d \in Used : h[d] = e})
         /\ Cardinality({d \in Used : h[d] = e}) \in Nat
<1>1. {d \in Used : h[d] = e} \in SUBSET Conn
  BY DEF Used
<1>2. IsFiniteSet({d \in Used : h[d] = e})
  BY <1>1, ConstantsOK, FS_Subset
<1> QED  BY <1>2, FS_CardinalityType

(* A connection brings the token of its first receive.                     *)
LEMMA ConnectTokens ==
  ASSUME Typed, ReceivesCounted, NEW c \in Conn, NEW p \in Password, Connect(c, p)
  PROVE  ReceivesCounted'
<1>1. PICK h : Tokens(h)
  BY DEF ReceivesCounted
<1>2. /\ c \notin Used /\ Used' = Used \cup {c}
      /\ receives' = [receives EXCEPT ![c] = @ + 1]
  BY DEF Connect, Start, Used, Typed
<1>k. PICK k : k = [d \in Used' |-> IF d = c THEN c ELSE h[d]]
  OBVIOUS
<1>3. k \in [Used' -> Conn \cup {None}]
  BY <1>1, <1>2, <1>k DEF Tokens
<1>4. ASSUME NEW e \in Conn
      PROVE  receives'[e] = Cardinality({d \in Used' : k[d] = e})
  <2>1. CASE e = c
    <3>1. {d \in Used' : k[d] = e} = {d \in Used : h[d] = e} \cup {c}
      BY <1>2, <2>1, <1>k
    <3>2. c \notin {d \in Used : h[d] = e}
      BY <1>2
    <3>3. Cardinality({d \in Used' : k[d] = e}) = Cardinality({d \in Used : h[d] = e}) + 1
      <4>1. IsFiniteSet({d \in Used : h[d] = e})
        BY TokensFinite
      <4> QED  BY <3>1, <3>2, <4>1, FS_AddElement
    <3> QED  BY <1>1, <1>2, <2>1, <3>3 DEF Tokens, Typed
  <2>2. CASE e # c
    <3>1. {d \in Used' : k[d] = e} = {d \in Used : h[d] = e}
      BY <1>2, <2>2, <1>k
    <3> QED  BY <1>1, <1>2, <2>2, <3>1 DEF Tokens, Typed
  <2> QED  BY <2>1, <2>2
<1>5. Tokens(k)'
  BY <1>3, <1>4 DEF Tokens
<1> QED  BY <1>5 DEF ReceivesCounted

(* A receive that calls back is the client's next one, or nobody's.        *)
LEMMA DeliverTokens ==
  ASSUME Typed, ReceivesCounted, NEW c \in Conn, Deliver(c)
  PROVE  ReceivesCounted'
<1>1. PICK h : Tokens(h)
  BY DEF ReceivesCounted
<1> DEFINE left == [receives EXCEPT ![c] = @ - 1]
<1>2. /\ Used' = Used /\ receives[c] > 0
      /\ receives' = [d \in Conn |-> IF d = conn THEN left[d] + 1 ELSE left[d]]
  BY DEF Deliver, ReceiveAgain, Used
<1>3. \A d \in Conn : left[d] = IF d = c THEN receives[d] - 1 ELSE receives[d]
  BY DEF Typed
<1>4. PICK t \in Used : h[t] = c
  <2>1. Cardinality({d \in Used : h[d] = c}) # 0
    BY <1>1, <1>2 DEF Tokens
  <2>2. {d \in Used : h[d] = c} # {}
    BY <2>1, FS_EmptySet
  <2> QED  BY <2>2
<1> HIDE DEF left
<1>5. conn \in Conn \cup {None} /\ None \notin Conn
  BY ConstantsOK DEF Typed
<1>k. PICK k : k = [h EXCEPT ![t] = conn]
  OBVIOUS
<1>6. k \in [Used -> Conn \cup {None}] /\ \A d \in Used : k[d] = IF d = t THEN conn ELSE h[d]
  BY <1>1, <1>4, <1>5, <1>k DEF Tokens
<1>7. ASSUME NEW e \in Conn
      PROVE  receives'[e] = Cardinality({d \in Used : k[d] = e})
  <2> DEFINE H == {d \in Used : h[d] = e}
             K == {d \in Used : k[d] = e}
  <2>1. IsFiniteSet(H) /\ Cardinality(H) \in Nat /\ receives[e] = Cardinality(H)
    <3>1. IsFiniteSet(H) /\ Cardinality(H) \in Nat
      BY TokensFinite
    <3> QED  BY <3>1, <1>1 DEF Tokens
  <2>2. receives'[e] = IF e = conn THEN left[e] + 1 ELSE left[e]
    BY <1>2
  <2>3. CASE e = c <=> e = conn
    <3>1. K = H
      BY <1>4, <1>6, <2>3
    <3>2. Cardinality(K) = Cardinality(H)
      BY <3>1
    <3>3. receives'[e] = receives[e]
      BY <1>3, <2>1, <2>2, <2>3
    <3> QED  BY <2>1, <3>2, <3>3
  <2>4. CASE e = c /\ e # conn
    <3>1. K = H \ {t} /\ t \in H
      BY <1>4, <1>6, <2>4
    <3>2. Cardinality(K) = Cardinality(H) - 1
      BY <2>1, <3>1, FS_RemoveElement
    <3> QED  BY <1>3, <2>1, <2>2, <2>4, <3>2
  <2>5. CASE e # c /\ e = conn
    <3>1. K = H \cup {t} /\ t \notin H
      BY <1>4, <1>6, <2>5
    <3>2. Cardinality(K) = Cardinality(H) + 1
      BY <2>1, <3>1, FS_AddElement
    <3> QED  BY <1>3, <2>1, <2>2, <2>5, <3>2
  <2> QED  BY <2>3, <2>4, <2>5
<1>8. Tokens(k)'
  BY <1>2, <1>6, <1>7 DEF Tokens
<1> QED  BY <1>8 DEF ReceivesCounted

LEMMA ReceivesStep ==
  ASSUME Typed, ReceivesCounted, Next
  PROVE  ReceivesCounted'
<1>1. CASE \E c \in Conn, p \in Password : Connect(c, p)
  BY <1>1, ConnectTokens
<1>2. CASE \E c \in Conn : Deliver(c)
  BY <1>2, DeliverTokens
<1>3. ASSUME UNCHANGED receives, \A c \in Conn : net'[c] = "unused" <=> net[c] = "unused"
      PROVE  ReceivesCounted'
  <2>1. Used' = Used
    BY <1>3 DEF Used
  <2> QED  BY <1>3, <2>1 DEF ReceivesCounted, Tokens
<1>4. CASE RunCall
  BY <1>3, <1>4 DEF RunCall, RunMove, RunAbs, RunSend, RunDisconnect, client, network, Typed
<1>5. CASE \E c \in Conn : Ready(c) \/ Fails(c) \/ Cancelled(c)
  BY <1>3, <1>5 DEF Ready, Fails, Cancelled, client, Typed
<1>6. CASE UNCHANGED <<receives, net>>
  BY <1>3, <1>6
<1> QED
  BY <1>1, <1>2, <1>4, <1>5, <1>6
     DEF Next, User, Move, MoveAbs, Act, Disconnect, UserCalls, SetState, Timer, MoveTimer, AbsTimer,
         Callback, Serve, ServerHello, ServerAuth, ServerEvent, Reads, ServerHangsUp, ServerEnds,
         SetPassword, client, network

LEMMA TypeOKParts == Typed /\ ReceivesCounted => TypeOK
<1> SUFFICES ASSUME Typed, ReceivesCounted  PROVE TypeOK
  OBVIOUS
<1>1. \A c \in Conn : receives[c] \in 0..Cardinality(Conn)
  BY TokensBound
<1>2. receives \in [Conn -> 0..Cardinality(Conn)]
  BY <1>1 DEF Typed
<1> QED  BY <1>2 DEF Typed, TypeOK
-----------------------------------------------------------------------------
(* Timers and unused connections.                                          *)

(* The calls, one by one, with what they leave alone.                      *)
LEMMA CallEffect ==
  ASSUME Typed, RunCall
  PROVE  /\ q # <<>> /\ q' = Tail(q) /\ Head(q) \in Call
         /\ UNCHANGED <<ui, server, bounds, history, password, receives, back>>
         /\ \/ Head(q).do = "move" /\ RunMove(Head(q))
            \/ Head(q).do = "abs" /\ RunAbs(Head(q))
            \/ /\ Head(q).do = "send" /\ Send(Head(q).line) /\ Head(q).line \in Line
               /\ UNCHANGED <<conn, net>>
            \/ Head(q).do = "disconnect" /\ RunDisconnect(Head(q))
<1>1. q # <<>> /\ Head(q) \in Call
  BY DEF RunCall, Typed
<1>2. Head(q).do = "send" => Head(q).line \in Line
  BY <1>1, CallTypes
<1> QED
  BY <1>1, <1>2 DEF RunCall, RunMove, RunAbs, RunSend, RunDisconnect, client, network

LEMMA TimersStep ==
  ASSUME Typed, TimersRun, Next
  PROVE  TimersRun'
<1> USE DEF Typed, TimersRun
<1>0. ASSUME NEW line, Send(line)
      PROVE  TimersRun'
  <2>1. /\ move' = FlushMove /\ FlushMove.dx = 0 /\ FlushMove.sched = FALSE
        /\ abs' = FlushAbs /\ FlushAbs.pending = FALSE /\ FlushAbs.sched = FALSE
    BY <1>0, FlushTypes DEF Send
  <2> QED  BY <2>1
<1>1. CASE RunCall
  <2>1. CASE RunMove(Head(q))
    BY <2>1 DEF RunMove
  <2>2. CASE RunAbs(Head(q))
    BY <2>2 DEF RunAbs
  <2>3. CASE RunDisconnect(Head(q))
    BY <2>3, <1>0 DEF RunDisconnect
  <2> QED  BY <1>1, <2>1, <2>2, <2>3, <1>0, CallEffect
<1>2. CASE MoveTimer
  <2>1. /\ move' = [FlushMove EXCEPT !.timers = @ - 1] /\ abs' = abs
        /\ FlushMove \in [dx : Int, sched : BOOLEAN, timers : Nat]
        /\ FlushMove.dx = 0 /\ FlushMove.sched = FALSE
    BY <1>2, FlushTypes DEF MoveTimer
  <2> QED  BY <2>1
<1>3. CASE AbsTimer
  <2>1. /\ abs' = [FlushAbs EXCEPT !.timers = @ - 1] /\ move' = move
        /\ FlushAbs \in [x : Nat, pending : BOOLEAN, sched : BOOLEAN, timers : Nat]
        /\ FlushAbs.pending = FALSE /\ FlushAbs.sched = FALSE
    BY <1>3, FlushTypes DEF AbsTimer
  <2> QED  BY <2>1
<1>4. CASE UNCHANGED motion
  BY <1>4 DEF motion
<1> QED
  BY <1>1, <1>2, <1>3, <1>4
     DEF Next, Connect, User, Move, MoveAbs, Act, Disconnect, UserCalls, SetState, Timer,
         Callback, Ready, Fails, Cancelled, Deliver, Serve, ServerHello, ServerAuth, ServerEvent,
         Reads, ServerHangsUp, ServerEnds, SetPassword

(* What writing lines changes.                                             *)
LEMMA WriteEffect ==
  ASSUME Typed, NEW lines, WriteLines(lines), NEW c \in Conn
  PROVE  wire'[c] = IF Live(c) THEN wire[c] \o lines ELSE wire[c]
  BY DEF WriteLines, Typed, Live

LEMMA FreshStep ==
  ASSUME Typed, Fresh, Next
  PROVE  Fresh'
<1> USE DEF Typed, Fresh
<1>1. CASE \E c \in Conn, p \in Password : Connect(c, p)
  BY <1>1 DEF Connect, Start, server, sessions
<1>2. ASSUME NEW lines, WriteLines(lines), UNCHANGED <<back, srv, got>>,
             \A c \in Conn : /\ net'[c] = "unused" <=> net[c] = "unused"
                             /\ net'[c] = "preparing" => net[c] = "preparing"
      PROVE  Fresh'
  <2>1. \A c \in Conn : net[c] = "unused" => wire'[c] = wire[c]
    BY <1>2, WriteEffect DEF Live
  <2> QED  BY <1>2, <2>1
<1>3. CASE RunCall
  <2>1. CASE RunMove(Head(q)) \/ RunAbs(Head(q))
    BY <1>3, <2>1, CallEffect DEF RunMove, RunAbs, network, server, sessions
  <2>2. ASSUME NEW line, Send(line), UNCHANGED net
        PROVE  Fresh'
    BY <1>2, <1>3, <2>2, CallEffect DEF Send, server, sessions
  <2>3. CASE RunDisconnect(Head(q))
    BY <1>2, <1>3, <2>3, CallEffect DEF RunDisconnect, Send, server, sessions
  <2> QED  BY <1>3, <2>1, <2>2, <2>3, CallEffect
<1>4. CASE Timer
  BY <1>2, <1>4 DEF Timer, MoveTimer, AbsTimer, server, sessions
<1>5. CASE \E c \in Conn : Callback(c)
  <2>1. CASE \E c \in Conn : Ready(c)
    <3>1. PICK c \in Conn : Ready(c)
      BY <2>1
    <3>2. /\ net' = [net EXCEPT ![c] = "ready"] /\ srv' = [srv EXCEPT ![c] = "hello"]
      BY <3>1 DEF Ready
    <3>3. /\ net'[c] = "ready" /\ srv'[c] = "hello"
          /\ \A d \in Conn : d # c => net'[d] = net[d] /\ srv'[d] = srv[d]
      BY <3>2
    <3>4. UNCHANGED <<wire, back, got>>
      BY <3>1 DEF Ready
    <3> HIDE DEF Typed
    <3> QED  BY <3>3, <3>4
  <2>2. CASE \E c \in Conn : Fails(c) \/ Cancelled(c)
    <3>1. UNCHANGED <<wire, back, srv, got>>
      BY <2>2 DEF Fails, Cancelled, server, sessions
    <3>2. \A c \in Conn : net'[c] \in {net[c], "failed", "cancelled"}
      BY <2>2 DEF Fails, Cancelled
    <3> HIDE DEF Typed
    <3> QED  BY <3>1, <3>2
  <2>3. CASE \E c \in Conn : Deliver(c)
    <3>1. PICK c \in Conn : Deliver(c)
      BY <2>3
    <3>2. /\ UNCHANGED <<net, wire, srv, got>> /\ back[c] # <<>>
          /\ \A d \in Conn : d # c => back'[d] = back[d]
      BY <3>1 DEF Deliver, server, sessions
    <3> QED  BY <3>2
  <2> QED  BY <1>5, <2>1, <2>2, <2>3 DEF Callback
<1>6. CASE \E c \in Conn : Serve(c)
  <2>1. PICK c \in Conn : Serve(c)
    BY <1>6
  <2>2. /\ srv[c] \in {"hello", "auth", "serving"} /\ wire[c] # <<>> /\ UNCHANGED net
        /\ \A d \in Conn : d # c => wire'[d] = wire[d]
    BY <2>1 DEF Serve, ServerHello, ServerAuth, ServerEvent, Reads
  <2>3. /\ srv'[c] \in {"auth", "refused", "serving", "closed"}
        /\ \A d \in Conn : d # c => srv'[d] = srv[d] /\ got'[d] = got[d] /\ back'[d] = back[d]
    BY <2>1 DEF Serve, ServerHello, ServerAuth, ServerEvent, Reply
  <2> QED  BY <2>2, <2>3
<1>7. CASE \E c \in Conn : ServerHangsUp(c) \/ ServerEnds(c)
  <2>1. PICK c \in Conn : srv[c] # "none" /\ srv' = [srv EXCEPT ![c] = "closed"]
    BY <1>7 DEF ServerHangsUp, ServerEnds
  <2>2. UNCHANGED <<net, wire, back, got>>
    BY <1>7 DEF ServerHangsUp, ServerEnds, network
  <2> QED  BY <2>1, <2>2
<1>8. CASE UNCHANGED <<net, wire, back, srv, got>>
  BY <1>8
<1> QED
  BY <1>1, <1>3, <1>4, <1>5, <1>6, <1>7, <1>8
     DEF Next, User, Move, MoveAbs, Act, Disconnect, UserCalls, SetState, SetPassword,
         network, server, sessions
-----------------------------------------------------------------------------
(* Traces of positions.                                                    *)

LEMMA PassesAppend ==
  ASSUME NEW w \in Seq(Line), NEW f, Passes(f, w), NEW line \in Line,
         line.t \in {"act", "bye"} => line.at = f[Len(w)]
  PROVE  \E k : /\ Passes(k, Append(w, line)) /\ k[0] = f[0]
                /\ k[Len(Append(w, line))] = Inject(f[Len(w)], line)
<1> DEFINE n == Len(w)
           v == Append(w, line)
           end == Inject(f[n], line)
           k == [i \in 0..(n + 1) |-> IF i <= n THEN f[i] ELSE end]
<1>1. /\ n \in Nat /\ Len(v) = n + 1 /\ v[n + 1] = line
      /\ \A i \in 1..n : v[i] = w[i] /\ w[i] \in Line
  OBVIOUS
<1>2. f \in [0..n -> Motion] /\ end \in Motion
  BY <1>1, InjectType DEF Passes
<1>3. /\ k \in [0..(n + 1) -> Motion] /\ k[n + 1] = end
      /\ \A i \in 0..n : k[i] = f[i]
  BY <1>1, <1>2
<1> HIDE DEF v, n, k
<1>4. ASSUME NEW i \in 1..(n + 1)
      PROVE  /\ k[i] = Inject(k[i - 1], v[i])
             /\ v[i].t \in {"act", "bye"} => v[i].at = k[i - 1]
  <2>1. CASE i \in 1..n
    BY <1>1, <1>3, <2>1 DEF Passes, n
  <2>2. CASE i = n + 1
    BY <1>1, <1>3, <2>2 DEF n
  <2> QED  BY <1>1, <2>1, <2>2
<1>5. Passes(k, v)
  BY <1>1, <1>3, <1>4 DEF Passes
<1>6. k[0] = f[0] /\ k[Len(v)] = end
  BY <1>1, <1>3
<1> QED  BY <1>5, <1>6 DEF v, n

LEMMA PassesTail ==
  ASSUME NEW w \in Seq(Line), w # <<>>, NEW f, Passes(f, w)
  PROVE  /\ f[1] = Inject(f[0], Head(w))
         /\ Head(w).t \in {"act", "bye"} => Head(w).at = f[0]
         /\ \E k : /\ Passes(k, Tail(w)) /\ k[0] = f[1]
                   /\ k[Len(Tail(w))] = f[Len(w)]
<1> DEFINE n == Len(w)
           v == Tail(w)
           k == [i \in 0..(n - 1) |-> f[i + 1]]
<1>1. /\ n \in Nat \ {0} /\ Len(v) = n - 1 /\ Head(w) = w[1]
      /\ \A i \in 1..(n - 1) : v[i] = w[i + 1]
  OBVIOUS
<1>2. f \in [0..n -> Motion]
  BY DEF Passes
<1>3. k \in [0..(n - 1) -> Motion] /\ \A i \in 0..(n - 1) : k[i] = f[i + 1]
  BY <1>1, <1>2
<1> HIDE DEF v, k, n
<1>4. ASSUME NEW i \in 1..(n - 1)
      PROVE  /\ k[i] = Inject(k[i - 1], v[i])
             /\ v[i].t \in {"act", "bye"} => v[i].at = k[i - 1]
  <2>1. i + 1 \in 1..n /\ i - 1 \in 0..(n - 1) /\ (i + 1) - 1 = i /\ (i - 1) + 1 = i
    BY <1>1
  <2>2. /\ f[i + 1] = Inject(f[i], w[i + 1])
        /\ w[i + 1].t \in {"act", "bye"} => w[i + 1].at = f[i]
    BY <2>1 DEF Passes, n
  <2>3. k[i] = f[i + 1] /\ k[i - 1] = f[i] /\ v[i] = w[i + 1]
    BY <1>1, <1>3, <2>1
  <2> QED  BY <2>2, <2>3
<1>5. Passes(k, v)
  BY <1>1, <1>3, <1>4 DEF Passes
<1>6. k[0] = f[1] /\ k[Len(v)] = f[n]
  BY <1>1, <1>3
<1>7. /\ f[1] = Inject(f[0], Head(w))
      /\ Head(w).t \in {"act", "bye"} => Head(w).at = f[0]
  <2>1. 1 \in 1..n /\ 1 - 1 = 0
    BY <1>1
  <2> QED  BY <1>1, <2>1 DEF Passes, n
<1> QED  BY <1>5, <1>6, <1>7 DEF v, n

LEMMA AsksAppend ==
  ASSUME NEW cs \in Seq(Call), NEW g, Asks(g, cs), NEW call \in Call,
         AtCall(call, g[Len(cs)]), Ask(g[Len(cs)], call) \in Motion
  PROVE  \E k : /\ Asks(k, Append(cs, call)) /\ k[0] = g[0]
                /\ k[Len(Append(cs, call))] = Ask(g[Len(cs)], call)
<1> DEFINE n == Len(cs)
           v == Append(cs, call)
           end == Ask(g[n], call)
           k == [i \in 0..(n + 1) |-> IF i <= n THEN g[i] ELSE end]
<1>1. /\ n \in Nat /\ Len(v) = n + 1 /\ v[n + 1] = call
      /\ \A i \in 1..n : v[i] = cs[i]
  OBVIOUS
<1>2. g \in [0..n -> Motion] /\ end \in Motion
  BY <1>1 DEF Asks
<1>3. /\ k \in [0..(n + 1) -> Motion] /\ k[n + 1] = end
      /\ \A i \in 0..n : k[i] = g[i]
  BY <1>1, <1>2
<1> HIDE DEF v, n, k
<1>4. ASSUME NEW i \in 1..(n + 1)
      PROVE  k[i] = Ask(k[i - 1], v[i]) /\ AtCall(v[i], k[i - 1])
  <2>1. CASE i \in 1..n
    BY <1>1, <1>3, <2>1 DEF Asks, n
  <2>2. CASE i = n + 1
    BY <1>1, <1>3, <2>2 DEF n
  <2> QED  BY <1>1, <2>1, <2>2
<1>5. Asks(k, v)
  BY <1>1, <1>3, <1>4 DEF Asks
<1>6. k[0] = g[0] /\ k[Len(v)] = end
  BY <1>1, <1>3
<1> QED  BY <1>5, <1>6 DEF v, n

LEMMA AsksTail ==
  ASSUME NEW cs \in Seq(Call), cs # <<>>, NEW g, Asks(g, cs)
  PROVE  /\ g[0] \in Motion /\ g[1] = Ask(g[0], Head(cs)) /\ AtCall(Head(cs), g[0])
         /\ \E k : /\ Asks(k, Tail(cs)) /\ k[0] = g[1]
                   /\ k[Len(Tail(cs))] = g[Len(cs)]
<1> DEFINE n == Len(cs)
           v == Tail(cs)
           k == [i \in 0..(n - 1) |-> g[i + 1]]
<1>1. /\ n \in Nat \ {0} /\ Len(v) = n - 1 /\ Head(cs) = cs[1]
      /\ \A i \in 1..(n - 1) : v[i] = cs[i + 1]
  OBVIOUS
<1>2. g \in [0..n -> Motion]
  BY DEF Asks
<1>3. k \in [0..(n - 1) -> Motion] /\ \A i \in 0..(n - 1) : k[i] = g[i + 1]
  BY <1>1, <1>2
<1> HIDE DEF v, k, n
<1>4. ASSUME NEW i \in 1..(n - 1)
      PROVE  k[i] = Ask(k[i - 1], v[i]) /\ AtCall(v[i], k[i - 1])
  <2>1. i + 1 \in 1..n /\ i - 1 \in 0..(n - 1) /\ (i + 1) - 1 = i /\ (i - 1) + 1 = i
    BY <1>1
  <2>2. g[i + 1] = Ask(g[i], cs[i + 1]) /\ AtCall(cs[i + 1], g[i])
    BY <2>1 DEF Asks, n
  <2>3. k[i] = g[i + 1] /\ k[i - 1] = g[i] /\ v[i] = cs[i + 1]
    BY <1>1, <1>3, <2>1
  <2> QED  BY <2>2, <2>3
<1>5. Asks(k, v)
  BY <1>1, <1>3, <1>4 DEF Asks
<1>6. k[0] = g[1] /\ k[Len(v)] = g[n]
  BY <1>1, <1>3
<1>7. g[0] \in Motion /\ g[1] = Ask(g[0], Head(cs)) /\ AtCall(Head(cs), g[0])
  <2>1. 1 \in 1..n /\ 1 - 1 = 0 /\ 0 \in 0..n
    BY <1>1
  <2> QED  BY <1>1, <1>2, <2>1 DEF Asks, n
<1> QED  BY <1>5, <1>6, <1>7 DEF v, n
-----------------------------------------------------------------------------
(* Flushing.                                                               *)

LEMMA PassesEnd ==
  ASSUME NEW w \in Seq(Line), NEW f, Passes(f, w)
  PROVE  f[Len(w)] \in Motion /\ f[0] \in Motion
<1>1. Len(w) \in 0..Len(w) /\ 0 \in 0..Len(w)
  OBVIOUS
<1> QED  BY <1>1 DEF Passes

LEMMA FlushedFields ==
  ASSUME NEW m \in Motion, NEW mv \in [dx : Int, sched : BOOLEAN, timers : Nat],
         NEW ab \in [x : Nat, pending : BOOLEAN, sched : BOOLEAN, timers : Nat]
  PROVE  /\ Flushed(m, mv, ab) \in Motion
         /\ mv.dx = 0 /\ ab.pending = FALSE => Flushed(m, mv, ab) = m
<1>1. /\ m = [rel |-> m.rel, abs |-> m.abs, acts |-> m.acts]
      /\ m.rel \in Int /\ m.abs \in Nat /\ m.acts \in Nat
  BY DEF Motion
<1>2. mv.dx \in Int /\ ab.x \in Nat
  OBVIOUS
<1>3. Flushed(m, mv, ab) \in Motion
  BY <1>1, <1>2 DEF Flushed, Motion
<1>4. ASSUME mv.dx = 0, ab.pending = FALSE
      PROVE  Flushed(m, mv, ab) = m
  <2>1. Flushed(m, mv, ab) = [rel |-> m.rel, abs |-> m.abs, acts |-> m.acts]
    BY <1>1, <1>4 DEF Flushed
  <2> QED  BY <1>1, <2>1
<1> QED  BY <1>3, <1>4

LEMMA FlushMovePasses ==
  ASSUME Typed, NEW w \in Seq(Line), NEW f, Passes(f, w)
  PROVE  \E k : /\ Passes(k, w \o FlushedMove) /\ k[0] = f[0]
                /\ k[Len(w \o FlushedMove)] = Flushed(f[Len(w)], move, FlushAbs)
<1> DEFINE m == f[Len(w)]
           line == [t |-> "move", dx |-> move.dx]
<1>1. m \in Motion
  BY PassesEnd
<1>2. /\ move \in [dx : Int, sched : BOOLEAN, timers : Nat]
      /\ FlushAbs \in [x : Nat, pending : BOOLEAN, sched : BOOLEAN, timers : Nat]
      /\ FlushAbs.pending = FALSE
  BY FlushTypes DEF Typed
<1>3. CASE move.dx = 0
  <2>1. w \o FlushedMove = w
    BY <1>3 DEF FlushedMove
  <2>2. Flushed(m, move, FlushAbs) = m
    BY <1>1, <1>2, <1>3, FlushedFields
  <2> QED  BY <2>1, <2>2
<1>4. CASE move.dx # 0
  <2>1. line \in Line /\ line.t = "move" /\ line.dx = move.dx
    BY <1>2, LineTypes
  <2>2. w \o FlushedMove = Append(w, line)
    BY <1>4, <2>1 DEF FlushedMove
  <2>3. Inject(m, line) = [m EXCEPT !.rel = @ + move.dx]
    BY <2>1 DEF Inject
  <2>4. [m EXCEPT !.rel = @ + move.dx]
          = [rel |-> m.rel + move.dx, abs |-> m.abs, acts |-> m.acts]
    <3>1. PICK r \in Int, a \in Nat, n \in Nat : m = [rel |-> r, abs |-> a, acts |-> n]
      BY <1>1 DEF Motion
    <3> HIDE DEF m
    <3> QED  BY <3>1
  <2>5. Flushed(m, move, FlushAbs) = [rel |-> m.rel + move.dx, abs |-> m.abs, acts |-> m.acts]
    BY <1>2 DEF Flushed
  <2> HIDE DEF line, m
  <2>6. line.t \notin {"act", "bye"}
    BY <2>1
  <2>7. \E k : /\ Passes(k, Append(w, line)) /\ k[0] = f[0]
               /\ k[Len(Append(w, line))] = Inject(f[Len(w)], line)
    BY <2>1, <2>6, PassesAppend
  <2> QED  BY <2>2, <2>3, <2>4, <2>5, <2>7 DEF m
<1> QED  BY <1>3, <1>4

LEMMA FlushAbsPasses ==
  ASSUME Typed, NEW w \in Seq(Line), NEW f, Passes(f, w)
  PROVE  \E k : /\ Passes(k, w \o FlushedAbs) /\ k[0] = f[0]
                /\ k[Len(w \o FlushedAbs)] = Flushed(f[Len(w)], FlushMove, abs)
<1> DEFINE m == f[Len(w)]
           line == [t |-> "abs", x |-> abs.x]
<1>1. m \in Motion
  BY PassesEnd
<1>2. /\ abs \in [x : Nat, pending : BOOLEAN, sched : BOOLEAN, timers : Nat]
      /\ FlushMove \in [dx : Int, sched : BOOLEAN, timers : Nat]
      /\ FlushMove.dx = 0
  BY FlushTypes DEF Typed
<1>3. CASE abs.pending = FALSE
  <2>1. w \o FlushedAbs = w
    BY <1>3 DEF FlushedAbs
  <2>2. Flushed(m, FlushMove, abs) = m
    BY <1>1, <1>2, <1>3, FlushedFields
  <2> QED  BY <2>1, <2>2
<1>4. CASE abs.pending = TRUE
  <2>1. line \in Line /\ line.t = "abs" /\ line.x = abs.x
    BY <1>2, LineTypes
  <2>2. w \o FlushedAbs = Append(w, line)
    BY <1>4, <2>1 DEF FlushedAbs
  <2>3. Inject(m, line) = [m EXCEPT !.abs = abs.x]
    BY <2>1 DEF Inject
  <2>4. [m EXCEPT !.abs = abs.x] = [rel |-> m.rel, abs |-> abs.x, acts |-> m.acts]
    BY <1>1, <1>2 DEF Motion
  <2>5. Flushed(m, FlushMove, abs) = [rel |-> m.rel, abs |-> abs.x, acts |-> m.acts]
    <3>1. m.rel \in Int
      BY <1>1 DEF Motion
    <3> QED  BY <1>2, <1>4, <3>1 DEF Flushed
  <2> HIDE DEF line, m
  <2>6. line.t \notin {"act", "bye"}
    BY <2>1
  <2>7. \E k : /\ Passes(k, Append(w, line)) /\ k[0] = f[0]
               /\ k[Len(Append(w, line))] = Inject(f[Len(w)], line)
    BY <2>1, <2>6, PassesAppend
  <2> QED  BY <2>2, <2>3, <2>4, <2>5, <2>7 DEF m
<1> QED  BY <1>2, <1>3, <1>4

LEMMA LinesAssociate ==
  ASSUME NEW a \in Seq(Line), NEW b \in Seq(Line), NEW c \in Seq(Line)
  PROVE  a \o (b \o c) = (a \o b) \o c
  BY ConcatAssociative

(* An event is sent behind everything that was coalesced.                  *)
LEMMA SendPasses ==
  ASSUME Typed, NEW w \in Seq(Line), NEW f, Passes(f, w), NEW line \in Line,
         line.t \in {"act", "bye"} => line.at = Flushed(f[Len(w)], move, abs)
  PROVE  LET v == w \o (FlushedMove \o FlushedAbs \o <<line>>)
         IN  \E k : /\ Passes(k, v) /\ k[0] = f[0]
                    /\ k[Len(v)] = Inject(Flushed(f[Len(w)], move, abs), line)
<1> DEFINE w1 == w \o FlushedMove
           w2 == w1 \o FlushedAbs
           m == f[Len(w)]
<1>1. FlushedMove \in Seq(Line) /\ FlushedAbs \in Seq(Line)
  BY FlushTypes
<1>2. w1 \in Seq(Line) /\ w2 \in Seq(Line)
  BY <1>1
<1>3. w \o (FlushedMove \o FlushedAbs \o <<line>>) = Append(w2, line)
  <2>1. <<line>> \in Seq(Line)
    OBVIOUS
  <2>2. w \o ((FlushedMove \o FlushedAbs) \o <<line>>) = (w \o (FlushedMove \o FlushedAbs)) \o <<line>>
    <3>1. FlushedMove \o FlushedAbs \in Seq(Line)
      BY FlushTypes
    <3> QED  BY <2>1, <3>1, LinesAssociate
  <2>3. w \o (FlushedMove \o FlushedAbs) = (w \o FlushedMove) \o FlushedAbs
    BY <1>1, LinesAssociate
  <2>4. Append(w2, line) = w2 \o <<line>>
    BY <1>2, AppendIsConcat
  <2> QED  BY <2>2, <2>3, <2>4
<1>4. PICK k1 : /\ Passes(k1, w1) /\ k1[0] = f[0]
                /\ k1[Len(w1)] = Flushed(m, move, FlushAbs)
  BY FlushMovePasses
<1>5. PICK k2 : /\ Passes(k2, w2) /\ k2[0] = k1[0]
                /\ k2[Len(w2)] = Flushed(k1[Len(w1)], FlushMove, abs)
  BY <1>2, <1>4, FlushAbsPasses
<1>6. Flushed(Flushed(m, move, FlushAbs), FlushMove, abs) = Flushed(m, move, abs)
  <2>1. /\ FlushMove.dx = 0 /\ FlushAbs.pending = FALSE /\ move.dx \in Int /\ m.rel \in Int
    BY PassesEnd, FlushTypes DEF Typed, Motion
  <2> QED  BY <2>1 DEF Flushed
<1> HIDE DEF w1, w2, m
<1>7. \E k : /\ Passes(k, Append(w2, line)) /\ k[0] = k2[0]
             /\ k[Len(Append(w2, line))] = Inject(k2[Len(w2)], line)
  <2>1. line.t \in {"act", "bye"} => line.at = k2[Len(w2)]
    BY <1>4, <1>5, <1>6 DEF m
  <2> QED  BY <1>2, <1>5, <2>1, PassesAppend
<1> QED  BY <1>3, <1>4, <1>5, <1>6, <1>7 DEF m

-----------------------------------------------------------------------------
(* Motion keeps its order.  First what becomes of one connection.          *)

LEMMA AwayInOrder ==
  ASSUME NEW c \in Conn, InOrder(c), wire'[c] = wire[c], got'[c] = got[c],
         Tracked(c)' => Tracked(c), ~Live(c)'
  PROVE  InOrder(c)'
  BY DEF InOrder

LEMMA SameInOrder ==
  ASSUME NEW c \in Conn, InOrder(c), wire'[c] = wire[c], got'[c] = got[c],
         Tracked(c)' => Tracked(c), Live(c)' => Live(c), UNCHANGED <<q, move, abs, called>>
  PROVE  InOrder(c)'
  BY DEF InOrder

(* A call is put on the queue.                                             *)
LEMMA CalledInOrder ==
  ASSUME Typed, NEW c \in Conn, InOrder(c), wire'[c] = wire[c], got'[c] = got[c],
         Tracked(c)' => Tracked(c), Live(c)' => Live(c), UNCHANGED <<move, abs>>,
         NEW call \in Call, q' = Append(q, call), AtCall(call, called),
         called' = Ask(called, call), called' \in Motion
  PROVE  InOrder(c)'
<1> SUFFICES ASSUME Tracked(c)'
             PROVE  InOrder(c)'
  BY DEF InOrder
<1>1. PICK f : /\ Passes(f, wire[c]) /\ f[0] = got[c]
               /\ Live(c) => \E g : /\ Asks(g, q) /\ g[Len(q)] = called
                                   /\ g[0] = Flushed(f[Len(wire[c])], move, abs)
  BY DEF InOrder
<1>2. CASE ~Live(c)
  BY <1>2, AwayInOrder
<1>3. CASE Live(c)
  <2>1. PICK g : /\ Asks(g, q) /\ g[Len(q)] = called
                 /\ g[0] = Flushed(f[Len(wire[c])], move, abs)
    BY <1>1, <1>3
  <2>2. q \in Seq(Call)
    BY DEF Typed
  <2>3. \E k : /\ Asks(k, Append(q, call)) /\ k[0] = g[0]
               /\ k[Len(Append(q, call))] = Ask(g[Len(q)], call)
    BY <2>1, <2>2, AsksAppend
  <2>4. PICK k : Asks(k, q') /\ k[0] = g[0] /\ k[Len(q')] = called'
    BY <2>1, <2>3
  <2>5. /\ Passes(f, wire'[c]) /\ f[0] = got'[c]
        /\ k[0] = Flushed(f[Len(wire'[c])], move', abs')
    BY <1>1, <2>1, <2>4
  <2> QED  BY <2>4, <2>5 DEF InOrder
<1> QED  BY <1>2, <1>3

(* A call runs that is coalesced.                                          *)
LEMMA CoalescedInOrder ==
  ASSUME Typed, NEW c \in Conn, InOrder(c), q # <<>>, q' = Tail(q),
         UNCHANGED <<wire, got, srv, conn, net, called>>,
         \A m \in Motion : Flushed(m, move', abs') = Ask(Flushed(m, move, abs), Head(q))
  PROVE  InOrder(c)'
<1> SUFFICES ASSUME Tracked(c)'
             PROVE  InOrder(c)'
  BY DEF InOrder
<1>1. PICK f : /\ Passes(f, wire[c]) /\ f[0] = got[c]
               /\ Live(c) => \E g : /\ Asks(g, q) /\ g[Len(q)] = called
                                   /\ g[0] = Flushed(f[Len(wire[c])], move, abs)
  BY DEF InOrder, Tracked
<1>2. CASE ~Live(c)
  BY <1>2, AwayInOrder DEF Live, Tracked
<1>3. CASE Live(c)
  <2>1. PICK g : /\ Asks(g, q) /\ g[Len(q)] = called
                 /\ g[0] = Flushed(f[Len(wire[c])], move, abs)
    BY <1>1, <1>3
  <2>2. q \in Seq(Call) /\ wire[c] \in Seq(Line)
    BY DEF Typed
  <2>3. /\ g[1] = Ask(g[0], Head(q))
        /\ \E k : /\ Asks(k, Tail(q)) /\ k[0] = g[1]
                  /\ k[Len(Tail(q))] = g[Len(q)]
    BY <2>1, <2>2, AsksTail
  <2>4. PICK k : Asks(k, q') /\ k[0] = Ask(g[0], Head(q)) /\ k[Len(q')] = called'
    BY <2>1, <2>3
  <2>5. f[Len(wire[c])] \in Motion
    BY <1>1, <2>2, PassesEnd
  <2>6. k[0] = Flushed(f[Len(wire'[c])], move', abs')
    BY <2>1, <2>4, <2>5
  <2> QED  BY <1>1, <2>4, <2>6 DEF InOrder
<1> QED  BY <1>2, <1>3

(* A timer writes what it flushes.                                         *)
LEMMA TimerInOrder ==
  ASSUME Typed, NEW c \in Conn, InOrder(c), NEW lines, WriteLines(lines),
         UNCHANGED <<q, got, srv, conn, net, called>>,
         \A f : Passes(f, wire[c]) =>
           \E k : /\ Passes(k, wire[c] \o lines) /\ k[0] = f[0]
                  /\ Flushed(k[Len(wire[c] \o lines)], move', abs')
                       = Flushed(f[Len(wire[c])], move, abs)
  PROVE  InOrder(c)'
<1> SUFFICES ASSUME Tracked(c)'
             PROVE  InOrder(c)'
  BY DEF InOrder
<1>1. PICK f : /\ Passes(f, wire[c]) /\ f[0] = got[c]
               /\ Live(c) => \E g : /\ Asks(g, q) /\ g[Len(q)] = called
                                   /\ g[0] = Flushed(f[Len(wire[c])], move, abs)
  BY DEF InOrder, Tracked
<1>2. CASE ~Live(c)
  BY <1>2, AwayInOrder, WriteEffect DEF Live, Tracked
<1>3. CASE Live(c)
  <2>1. PICK g : /\ Asks(g, q) /\ g[Len(q)] = called
                 /\ g[0] = Flushed(f[Len(wire[c])], move, abs)
    BY <1>1, <1>3
  <2>2. wire'[c] = wire[c] \o lines
    BY <1>3, WriteEffect
  <2>3. PICK k : /\ Passes(k, wire'[c]) /\ k[0] = f[0]
                 /\ Flushed(k[Len(wire'[c])], move', abs') = Flushed(f[Len(wire[c])], move, abs)
    BY <1>1, <2>2
  <2>4. Asks(g, q') /\ g[Len(q')] = called' /\ k[0] = got'[c]
    BY <1>1, <2>1, <2>3
  <2>5. g[0] = Flushed(k[Len(wire'[c])], move', abs')
    BY <2>1, <2>3
  <2> QED  BY <2>3, <2>4, <2>5 DEF InOrder
<1> QED  BY <1>2, <1>3

(* An event is written behind everything that was coalesced.               *)
LEMMA SentInOrder ==
  ASSUME Typed, NEW c \in Conn, InOrder(c), q # <<>>, q' = Tail(q),
         NEW line \in Line, Send(line), UNCHANGED <<got, srv, called>>,
         \/ /\ Head(q).do = "send" /\ line = Head(q).line
            /\ UNCHANGED <<conn, net>>
         \/ /\ Head(q).do = "disconnect" /\ line = [t |-> "bye", at |-> Head(q).at]
            /\ ~Live(c)'
  PROVE  InOrder(c)'
<1> SUFFICES ASSUME Tracked(c)'
             PROVE  InOrder(c)'
  BY DEF InOrder
<1>1. PICK f : /\ Passes(f, wire[c]) /\ f[0] = got[c]
               /\ Live(c) => \E g : /\ Asks(g, q) /\ g[Len(q)] = called
                                   /\ g[0] = Flushed(f[Len(wire[c])], move, abs)
  BY DEF InOrder, Tracked
<1> DEFINE lines == FlushedMove \o FlushedAbs \o <<line>>
<1>2. wire'[c] = IF Live(c) THEN wire[c] \o lines ELSE wire[c]
  BY WriteEffect DEF Send
<1>3. CASE ~Live(c)
  <2>1. ~Live(c)'
    BY <1>3 DEF Live
  <2> QED  BY <1>2, <1>3, <2>1, AwayInOrder DEF Tracked
<1>4. CASE Live(c)
  <2>1. PICK g : /\ Asks(g, q) /\ g[Len(q)] = called
                 /\ g[0] = Flushed(f[Len(wire[c])], move, abs)
    BY <1>1, <1>4
  <2>2. q \in Seq(Call) /\ wire[c] \in Seq(Line)
    BY DEF Typed
  <2>3. /\ g[0] \in Motion /\ g[1] = Ask(g[0], Head(q)) /\ AtCall(Head(q), g[0])
        /\ \E k : /\ Asks(k, Tail(q)) /\ k[0] = g[1]
                  /\ k[Len(Tail(q))] = g[Len(q)]
    BY <2>1, <2>2, AsksTail
  <2>4. g[1] = Inject(g[0], line)
    BY <2>3 DEF Ask, AtCall, Inject
  <2>5. line.t \in {"hello", "auth", "act", "bye"} /\ (line.t \in {"act", "bye"} => line.at = g[0])
    BY <2>3 DEF AtCall
  <2>6. \E k : /\ Passes(k, wire[c] \o lines) /\ k[0] = f[0]
               /\ k[Len(wire[c] \o lines)] = Inject(g[0], line)
    <3>1. line.t \in {"act", "bye"} => line.at = Flushed(f[Len(wire[c])], move, abs)
      BY <2>1, <2>5
    <3>2. \E k : /\ Passes(k, wire[c] \o lines) /\ k[0] = f[0]
                 /\ k[Len(wire[c] \o lines)] = Inject(Flushed(f[Len(wire[c])], move, abs), line)
      BY <1>1, <2>2, <3>1, SendPasses
    <3> QED  BY <2>1, <3>2
  <2>7. g[1] \in Motion
    BY <2>3, <2>4, InjectType
  <2>8. PICK k : Passes(k, wire'[c]) /\ k[0] = got'[c] /\ k[Len(wire'[c])] = g[1]
    BY <1>1, <1>2, <1>4, <2>4, <2>6
  <2>9. CASE ~Live(c)'
    BY <2>8, <2>9 DEF InOrder
  <2>10. CASE UNCHANGED <<conn, net>>
    <3>1. Flushed(g[1], move', abs') = g[1]
      <4>1. /\ FlushMove \in [dx : Int, sched : BOOLEAN, timers : Nat] /\ FlushMove.dx = 0
            /\ FlushAbs \in [x : Nat, pending : BOOLEAN, sched : BOOLEAN, timers : Nat]
            /\ FlushAbs.pending = FALSE
        BY FlushTypes
      <4>2. PICK m \in Motion : m = g[1]
        BY <2>7
      <4>3. Flushed(m, FlushMove, FlushAbs) = m
        BY <4>1, FlushedFields
      <4> QED  BY <4>2, <4>3 DEF Send
    <3>2. PICK j : Asks(j, q') /\ j[0] = g[1] /\ j[Len(q')] = called'
      BY <2>1, <2>3
    <3>3. j[0] = Flushed(k[Len(wire'[c])], move', abs')
      BY <2>8, <3>1, <3>2
    <3> QED  BY <2>8, <3>2, <3>3 DEF InOrder
  <2> QED  BY <2>9, <2>10
<1> QED  BY <1>3, <1>4

(* The server takes a line.                                                *)
LEMMA ServedInOrder ==
  ASSUME Typed, NEW c \in Conn, InOrder(c), Serve(c)
  PROVE  InOrder(c)'
<1> SUFFICES ASSUME Tracked(c)'
             PROVE  InOrder(c)'
  BY DEF InOrder
<1> DEFINE line == Head(wire[c])
<1>1. /\ Tracked(c) /\ wire[c] # <<>> /\ wire'[c] = Tail(wire[c])
      /\ UNCHANGED <<conn, net, q, move, abs, called>>
  BY DEF Serve, ServerHello, ServerAuth, ServerEvent, Reads, Tracked, Typed, motion, client, history
<1>2. PICK f : /\ Passes(f, wire[c]) /\ f[0] = got[c]
               /\ Live(c) => \E g : /\ Asks(g, q) /\ g[Len(q)] = called
                                   /\ g[0] = Flushed(f[Len(wire[c])], move, abs)
  BY <1>1 DEF InOrder
<1>3. wire[c] \in Seq(Line)
  BY DEF Typed
<1>4. /\ f[1] = Inject(f[0], line)
      /\ \E k : /\ Passes(k, Tail(wire[c])) /\ k[0] = f[1]
                /\ k[Len(Tail(wire[c]))] = f[Len(wire[c])]
  BY <1>1, <1>2, <1>3, PassesTail
<1>5. got'[c] = f[1]
  <2>1. CASE ServerHello(c) \/ ServerAuth(c)
    <3>1. got' = got /\ line.t \in {"hello", "auth"}
      BY <2>1 DEF ServerHello, ServerAuth, Reply, Tracked, Typed
    <3> QED  BY <1>2, <1>4, <3>1 DEF Inject
  <2>2. CASE ServerEvent(c)
    BY <1>2, <1>4, <2>2 DEF ServerEvent, Typed
  <2> QED  BY <2>1, <2>2 DEF Serve
<1>6. PICK k : /\ Passes(k, wire'[c]) /\ k[0] = got'[c]
               /\ k[Len(wire'[c])] = f[Len(wire[c])]
  BY <1>1, <1>4, <1>5
<1>7. CASE Live(c)
  <2>1. PICK g : /\ Asks(g, q) /\ g[Len(q)] = called
                 /\ g[0] = Flushed(f[Len(wire[c])], move, abs)
    BY <1>2, <1>7
  <2>2. /\ Asks(g, q') /\ g[Len(q')] = called'
        /\ g[0] = Flushed(k[Len(wire'[c])], move', abs')
    BY <1>1, <1>6, <2>1
  <2> QED  BY <1>6, <2>2 DEF InOrder
<1>8. CASE ~Live(c)
  BY <1>1, <1>6, <1>8 DEF InOrder, Live
<1> QED  BY <1>7, <1>8

(* A connection is opened: nothing is asked for yet, nothing is pending.   *)
LEMMA ConnectInOrder ==
  ASSUME Typed, TimersRun, Fresh, MotionInOrder,
         NEW d \in Conn, NEW p \in Password, Connect(d, p), NEW c \in Conn
  PROVE  InOrder(c)'
<1>1. /\ net[d] = "unused" /\ q = <<>> /\ q' = q /\ conn' = d /\ called' = Still
      /\ move.timers = 0 /\ abs.timers = 0
      /\ UNCHANGED <<move, abs, wire, srv, got>>
  BY DEF Connect, Start, CaughtUp, motion, server, sessions
<1>2. CASE c # d
  BY <1>1, <1>2, AwayInOrder DEF MotionInOrder, Live, Tracked
<1>3. CASE c = d
  <2>1. wire'[c] = <<>> /\ got'[c] = Still
    BY <1>1, <1>3 DEF Fresh
  <2>2. move.dx = 0 /\ ~abs.pending
    BY <1>1 DEF TimersRun, Typed
  <2>3. PICK f : f = [i \in 0..0 |-> Still]
    OBVIOUS
  <2>4. Still \in Motion /\ Flushed(Still, move, abs) = Still
    BY <2>2 DEF Still, Motion, Flushed, Typed
  <2>5. Passes(f, <<>>) /\ Asks(f, <<>>) /\ f[0] = Still
    BY <2>3, <2>4 DEF Passes, Asks
  <2>6. /\ Passes(f, wire'[c]) /\ f[0] = got'[c]
        /\ Asks(f, q') /\ f[Len(q')] = called'
        /\ f[0] = Flushed(f[Len(wire'[c])], move', abs')
    BY <1>1, <2>1, <2>4, <2>5
  <2> QED  BY <2>6 DEF InOrder
<1> QED  BY <1>2, <1>3

LEMMA CallInOrder ==
  ASSUME Typed, MotionInOrder, RunCall, NEW c \in Conn
  PROVE  InOrder(c)'
<1>1. /\ q # <<>> /\ q' = Tail(q) /\ Head(q) \in Call
      /\ UNCHANGED <<got, srv, called>> /\ InOrder(c)
  BY CallEffect DEF MotionInOrder, server, sessions, history
<1>t. move.dx \in Int /\ abs.x \in Nat /\ \A m \in Motion : m.rel \in Int /\ m.abs \in Nat
  BY DEF Typed, Motion
<1>2. CASE Head(q).do = "move" /\ RunMove(Head(q))
  <2>1. /\ move'.dx = move.dx + Head(q).dx /\ abs' = abs /\ Head(q).dx \in Int
        /\ UNCHANGED <<wire, conn, net>>
    BY <1>1, <1>2, CallTypes DEF RunMove, client, network
  <2>2. ASSUME NEW m \in Motion
        PROVE  Flushed(m, move', abs') = Ask(Flushed(m, move, abs), Head(q))
    <3>1. PICK r \in Int, x \in Nat, dx \in Int :
            r = m.rel /\ x = (IF abs.pending THEN abs.x ELSE m.abs) /\ dx = move.dx
      BY <1>t
    <3>2. Flushed(m, move, abs) = [rel |-> r + dx, abs |-> x, acts |-> m.acts]
      BY <3>1 DEF Flushed
    <3>3. Ask(Flushed(m, move, abs), Head(q)) = [rel |-> (r + dx) + Head(q).dx, abs |-> x, acts |-> m.acts]
      BY <1>2, <3>2 DEF Ask
    <3>4. Flushed(m, move', abs') = [rel |-> r + (dx + Head(q).dx), abs |-> x, acts |-> m.acts]
      BY <2>1, <3>1 DEF Flushed
    <3> QED  BY <2>1, <3>3, <3>4
  <2> QED  BY <1>1, <2>1, <2>2, CoalescedInOrder
<1>3. CASE Head(q).do = "abs" /\ RunAbs(Head(q))
  <2>1. /\ abs'.x = Head(q).x /\ abs'.pending = TRUE /\ move' = move
        /\ UNCHANGED <<wire, conn, net>>
    BY <1>3 DEF RunAbs, client, network
  <2>2. ASSUME NEW m \in Motion
        PROVE  Flushed(m, move', abs') = Ask(Flushed(m, move, abs), Head(q))
    BY <1>3, <2>1 DEF Flushed, Ask
  <2> QED  BY <1>1, <2>1, <2>2, CoalescedInOrder
<1>4. ASSUME Head(q).do = "send", Send(Head(q).line), Head(q).line \in Line,
             UNCHANGED <<conn, net>>
      PROVE  InOrder(c)'
  BY <1>1, <1>4, SentInOrder
<1>5. CASE Head(q).do = "disconnect" /\ RunDisconnect(Head(q))
  <2>1. [t |-> "bye", at |-> Head(q).at] \in Line
    BY <1>1, <1>5, CallTypes, LineTypes
  <2>2. ~Live(c)'
    BY <1>5, ConstantsOK DEF RunDisconnect, Live
  <2> QED  BY <1>1, <1>5, <2>1, <2>2, SentInOrder DEF RunDisconnect
<1> QED  BY <1>2, <1>3, <1>4, <1>5, CallEffect

LEMMA TimersInOrder ==
  ASSUME Typed, MotionInOrder, Timer, NEW c \in Conn
  PROVE  InOrder(c)'
<1>0. InOrder(c) /\ wire[c] \in Seq(Line)
  BY DEF MotionInOrder, Typed
<1>1. CASE MoveTimer
  <2>1. /\ move' = [FlushMove EXCEPT !.timers = @ - 1] /\ abs' = abs /\ WriteLines(FlushedMove)
        /\ UNCHANGED <<q, got, srv, conn, net, called>>
    BY <1>1 DEF MoveTimer, client, server, sessions, history
  <2>2. move'.dx = 0 /\ FlushAbs.pending = FALSE
    BY <2>1, FlushTypes
  <2>3. ASSUME NEW f, Passes(f, wire[c])
        PROVE  \E k : /\ Passes(k, wire[c] \o FlushedMove) /\ k[0] = f[0]
                      /\ Flushed(k[Len(wire[c] \o FlushedMove)], move', abs')
                           = Flushed(f[Len(wire[c])], move, abs)
    <3>1. PICK k : /\ Passes(k, wire[c] \o FlushedMove) /\ k[0] = f[0]
                   /\ k[Len(wire[c] \o FlushedMove)] = Flushed(f[Len(wire[c])], move, FlushAbs)
      BY <1>0, <2>3, FlushMovePasses
    <3>2. PICK m \in Motion : m = f[Len(wire[c])]
      BY <1>0, <2>3, PassesEnd
    <3>3. Flushed(Flushed(m, move, FlushAbs), move', abs') = Flushed(m, move, abs)
      <4>1. move.dx \in Int /\ m.rel \in Int
        BY DEF Typed, Motion
      <4> QED  BY <2>1, <2>2, <4>1 DEF Flushed
    <3> QED  BY <3>1, <3>2, <3>3
  <2> QED  BY <1>0, <2>1, <2>3, TimerInOrder
<1>2. CASE AbsTimer
  <2>1. /\ abs' = [FlushAbs EXCEPT !.timers = @ - 1] /\ move' = move /\ WriteLines(FlushedAbs)
        /\ UNCHANGED <<q, got, srv, conn, net, called>>
    BY <1>2 DEF AbsTimer, client, server, sessions, history
  <2>2. abs'.pending = FALSE /\ FlushMove.dx = 0
    BY <2>1, FlushTypes
  <2>3. ASSUME NEW f, Passes(f, wire[c])
        PROVE  \E k : /\ Passes(k, wire[c] \o FlushedAbs) /\ k[0] = f[0]
                      /\ Flushed(k[Len(wire[c] \o FlushedAbs)], move', abs')
                           = Flushed(f[Len(wire[c])], move, abs)
    <3>1. PICK k : /\ Passes(k, wire[c] \o FlushedAbs) /\ k[0] = f[0]
                   /\ k[Len(wire[c] \o FlushedAbs)] = Flushed(f[Len(wire[c])], FlushMove, abs)
      BY <1>0, <2>3, FlushAbsPasses
    <3>2. PICK m \in Motion : m = f[Len(wire[c])]
      BY <1>0, <2>3, PassesEnd
    <3>3. Flushed(Flushed(m, FlushMove, abs), move', abs') = Flushed(m, move, abs)
      <4>1. move.dx \in Int /\ m.rel \in Int
        BY DEF Typed, Motion
      <4> QED  BY <2>1, <2>2, <4>1 DEF Flushed
    <3> QED  BY <3>1, <3>2, <3>3
  <2> QED  BY <1>0, <2>1, <2>3, TimerInOrder
<1> QED  BY <1>1, <1>2 DEF Timer

(* The hello and the auth are called like the user's events.               *)
LEMMA CallbackInOrder ==
  ASSUME Typed, Fresh, MotionInOrder, NEW d \in Conn, Callback(d), NEW c \in Conn
  PROVE  InOrder(c)'
<1>0. InOrder(c) /\ called \in Motion
  BY DEF MotionInOrder, Typed
<1>1. CASE Ready(d)
  <2>1. PICK call : call = [do |-> "send", line |-> [t |-> "hello"]]
    OBVIOUS
  <2>2. call \in Call /\ AtCall(call, called) /\ Ask(called, call) = called
    BY <2>1, LineTypes, CallTypes DEF AtCall, Ask
  <2>3. /\ q' = Append(q, call) /\ wire'[c] = wire[c] /\ got'[c] = got[c]
        /\ UNCHANGED <<move, abs, called>> /\ (Live(c)' => Live(c)) /\ (Tracked(c)' => Tracked(c))
    <3>1. Tracked(c)' => Tracked(c)
      BY <1>1 DEF Ready, Tracked, Typed, Fresh
    <3> QED  BY <1>1, <2>1, <3>1 DEF Ready, motion, client, history, Live, Typed
  <2> QED  BY <1>0, <2>2, <2>3, CalledInOrder
<1>2. CASE Fails(d) \/ Cancelled(d)
  BY <1>0, <1>2, SameInOrder
     DEF Fails, Cancelled, motion, client, server, sessions, history, Live, Tracked, Typed
<1>3. CASE Deliver(d)
  <2>1. /\ wire'[c] = wire[c] /\ got'[c] = got[c]
        /\ UNCHANGED <<move, abs, called, srv, conn, net>>
    BY <1>3 DEF Deliver, motion, server, sessions, history
  <2>2. CASE q' = q
    BY <1>0, <2>1, <2>2, SameInOrder DEF Live, Tracked
  <2>3. CASE q' = Append(q, [do |-> "send", line |-> [t |-> "auth", nonce |-> d, pass |-> password]])
    <3>1. PICK call :
            call = [do |-> "send", line |-> [t |-> "auth", nonce |-> d, pass |-> password]]
      OBVIOUS
    <3>2. call \in Call /\ AtCall(call, called) /\ Ask(called, call) = called
      <4>1. password \in Password
        BY DEF Typed
      <4> QED  BY <3>1, <4>1, LineTypes, CallTypes DEF AtCall, Ask
    <3>3. q' = Append(q, call) /\ called' = Ask(called, call) /\ called' \in Motion
      BY <1>0, <2>1, <2>3, <3>1, <3>2
    <3>4. (Live(c)' => Live(c)) /\ (Tracked(c)' => Tracked(c)) /\ UNCHANGED <<move, abs>>
      BY <2>1 DEF Live, Tracked
    <3> QED  BY <1>0, <2>1, <3>2, <3>3, <3>4, CalledInOrder
  <2> QED  BY <1>3, <2>2, <2>3 DEF Deliver, Handle
<1> QED  BY <1>1, <1>2, <1>3 DEF Callback

LEMMA MotionStep ==
  ASSUME Typed, TimersRun, Fresh, MotionInOrder, Next
  PROVE  MotionInOrder'
<1> SUFFICES ASSUME NEW c \in Conn
             PROVE  InOrder(c)'
  BY DEF MotionInOrder
<1>0. InOrder(c)
  BY DEF MotionInOrder
<1>1. CASE \E d \in Conn, p \in Password : Connect(d, p)
  BY <1>1, ConnectInOrder
<1>2. CASE User
  <2>1. PICK call \in Call :
          /\ q' = Append(q, call)
          /\ called' = Ask(called, call) /\ called' \in Motion /\ AtCall(call, called)
          /\ UNCHANGED <<ui, motion, client, network, server, faults, opened>>
    BY <1>2, UserEffect
  <2>2. UNCHANGED <<wire, got, srv, conn, net, move, abs>>
    BY <2>1 DEF motion, client, network, server, sessions
  <2> QED  BY <1>0, <2>1, <2>2, CalledInOrder DEF Live, Tracked
<1>3. CASE RunCall
  BY <1>3, CallInOrder
<1>4. CASE Timer
  BY <1>4, TimersInOrder
<1>5. CASE \E d \in Conn : Callback(d)
  BY <1>5, CallbackInOrder
<1>6. CASE \E d \in Conn : Serve(d)
  <2>1. PICK d \in Conn : Serve(d)
    BY <1>6
  <2>2. CASE d = c
    BY <1>0, <2>1, <2>2, ServedInOrder
  <2>3. CASE d # c
    <3>1. /\ wire'[c] = wire[c] /\ got'[c] = got[c] /\ srv'[c] = srv[c]
          /\ UNCHANGED <<conn, net, q, move, abs, called>>
      BY <2>1, <2>3 DEF Serve, ServerHello, ServerAuth, ServerEvent, Reads, Reply, Typed,
                        motion, client, history
    <3> QED  BY <1>0, <3>1, SameInOrder DEF Live, Tracked
  <2> QED  BY <2>2, <2>3
<1>7. CASE SetState \/ \E p \in Password : SetPassword(p)
  BY <1>0, <1>7, SameInOrder
     DEF SetState, SetPassword, motion, client, network, server, sessions, history, Live, Tracked
<1>8. CASE \E d \in Conn : ServerHangsUp(d) \/ ServerEnds(d)
  BY <1>0, <1>8, SameInOrder
     DEF ServerHangsUp, ServerEnds, motion, client, network, history, Live, Tracked, Typed
<1> QED  BY <1>1, <1>2, <1>3, <1>4, <1>5, <1>6, <1>7, <1>8 DEF Next

-----------------------------------------------------------------------------
(* The handshake keeps to its stages.  First, what does not disturb it.    *)

LEMMA AppendNever ==
  ASSUME NEW s \in Seq(ClientState), NEW x, NEW y, x # y,
         \A i \in DOMAIN s : s[i] # y
  PROVE  \A i \in DOMAIN Append(s, x) : Append(s, x)[i] # y
  OBVIOUS

LEMMA TailNever ==
  ASSUME NEW s \in Seq(ClientState), NEW y, s # <<>>, \A i \in DOMAIN s : s[i] # y
  PROVE  /\ Head(s) # y
         /\ \A i \in DOMAIN Tail(s) : Tail(s)[i] # y
  OBVIOUS

LEMMA OneOpening ==
  ASSUME HandshakeOrder, NEW c \in Conn, NEW d \in Conn, Opening(c), Opening(d)
  PROVE  c = d
  BY DEF HandshakeOrder, OrderOf, Undisturbed

(* A step that does not touch connection c.                                *)
LEMMA SameOrder ==
  ASSUME NEW c \in Conn, OrderOf(c),
         wire'[c] = wire[c], srv'[c] = srv[c], given'[c] = given[c],
         Opening(c)' =>
           /\ net'[c] = net[c] /\ back'[c] = back[c]
           /\ UNCHANGED <<conn, password, q, move, abs>>
           /\ state' # "connected" /\ \A i \in DOMAIN mainq' : mainq'[i] # "connected"
  PROVE  OrderOf(c)'
<1>1. Expected(c)'
  BY DEF OrderOf, Expected, AuthLine, HelloLine
<1>2. ASSUME Opening(c)'
      PROVE  (Undisturbed(c) /\ Stages(c))'
  <2>1. Opening(c)
    BY <1>2 DEF Opening
  <2>2. Undisturbed(c)'
    BY <1>2, <2>1 DEF OrderOf, Undisturbed
  <2>3. Stages(c)'
    BY <1>2, <2>1 DEF OrderOf, Stages, AuthLine, HelloLine, SendOf
  <2> QED  BY <2>2, <2>3
<1> QED  BY <1>1, <1>2 DEF OrderOf

(* Nothing is being opened: what is written goes to no handshake.          *)
LEMMA QuietWrites ==
  ASSUME Typed, HandshakeOrder, \A d \in Conn : ~Opening(d),
         NEW lines, WriteLines(lines), UNCHANGED <<srv, back, given>>,
         \A d \in Conn : net'[d] \in {net[d], "cancelling"},
         NEW c \in Conn
  PROVE  OrderOf(c)'
<1>1. ~Opening(c)'
  BY DEF Opening
<1>2. srv[c] \in {"hello", "auth"} => wire'[c] = wire[c]
  BY WriteEffect DEF Live, Opening
<1>3. Expected(c)'
  BY <1>2 DEF HandshakeOrder, OrderOf, Expected, AuthLine, HelloLine
<1> QED  BY <1>1, <1>3 DEF OrderOf

LEMMA ConnectOrder ==
  ASSUME Patient, Typed, TimersRun, Fresh, HandshakeOrder,
         NEW d \in Conn, NEW p \in Password, Connect(d, p), NEW c \in Conn
  PROVE  OrderOf(c)'
<1>1. /\ \A e \in Conn : ~Opening(e)
      /\ net[d] = "unused" /\ q = <<>> /\ mainq = <<>> /\ state # "connected"
      /\ move.timers = 0 /\ abs.timers = 0
      /\ conn' = d /\ password' = p /\ mainq' = Append(mainq, "connecting")
      /\ net' = [net EXCEPT ![d] = "preparing"] /\ given' = [given EXCEPT ![d] = p]
      /\ UNCHANGED <<state, q, move, abs, wire, back, srv>>
  BY DEF Connect, Start, CaughtUp, motion, server, sessions
<1>2. CASE c # d
  <2>1. ~Opening(c)'
    BY <1>1, <1>2 DEF Opening, Typed
  <2> QED  BY <1>1, <1>2, <2>1, SameOrder DEF HandshakeOrder, Typed
<1>3. CASE c = d
  <2>1. srv'[c] = "none" /\ wire'[c] = <<>> /\ back'[c] = <<>>
    BY <1>1, <1>3 DEF Fresh
  <2>2. move'.dx = 0 /\ ~abs'.pending /\ move'.timers = 0 /\ abs'.timers = 0
    BY <1>1 DEF TimersRun, Typed
  <2>3. state' # "connected" /\ \A i \in DOMAIN mainq' : mainq'[i] # "connected"
    BY <1>1
  <2>4. given'[c] = p
    BY <1>1, <1>3 DEF Typed
  <2>5. Undisturbed(c)'
    BY <1>1, <1>3, <2>2, <2>3, <2>4 DEF Undisturbed
  <2>6. Stages(c)' /\ Expected(c)'
    BY <1>1, <2>1 DEF Stages, Expected
  <2> QED  BY <2>5, <2>6 DEF OrderOf
<1> QED  BY <1>2, <1>3

(* The hello or the auth is sent.                                          *)
LEMMA HandshakeCall ==
  ASSUME Typed, HandshakeOrder, RunCall, NEW d \in Conn, Opening(d), NEW c \in Conn
  PROVE  OrderOf(c)'
<1>1. /\ q # <<>> /\ q' = Tail(q) /\ conn = d
      /\ UNCHANGED <<state, mainq, password, back, srv, given>>
  BY CallEffect DEF HandshakeOrder, OrderOf, Undisturbed, ui, server, sessions, history, opened
<1>2. /\ net[d] = "ready" /\ back[d] = <<>> /\ wire[d] = <<>>
      /\ \E line : /\ q = <<SendOf(line)>>
                   /\ \/ srv[d] = "hello" /\ line = HelloLine
                      \/ srv[d] = "auth" /\ line = AuthLine(d)
  BY <1>1 DEF HandshakeOrder, OrderOf, Stages, Opening
<1>3. PICK line : /\ q = <<SendOf(line)>>
                  /\ \/ srv[d] = "hello" /\ line = HelloLine
                     \/ srv[d] = "auth" /\ line = AuthLine(d)
  BY <1>2
<1>4. q' = <<>> /\ Head(q).do = "send" /\ Head(q).line = line
  BY <1>1, <1>3 DEF SendOf
<1>5. Send(line) /\ UNCHANGED <<conn, net>>
  BY <1>4, CallEffect
<1>6. /\ move.dx = 0 /\ abs.pending = FALSE /\ move.timers = 0 /\ abs.timers = 0
      /\ state # "connected" /\ \A i \in DOMAIN mainq : mainq[i] # "connected"
      /\ password = given[d]
  BY DEF HandshakeOrder, OrderOf, Undisturbed, Typed
<1>7. /\ move'.dx = 0 /\ abs'.pending = FALSE /\ move'.timers = 0 /\ abs'.timers = 0
  BY <1>5, <1>6, FlushTypes DEF Send
<1>8. wire'[d] = <<line>> /\ \A e \in Conn : e # d => wire'[e] = wire[e]
  <2>1. FlushedMove \o FlushedAbs \o <<line>> = <<line>>
    <3>1. FlushedMove = <<>> /\ FlushedAbs = <<>>
      BY <1>6 DEF FlushedMove, FlushedAbs
    <3> QED  BY <3>1
  <2>2. WriteLines(<<line>>)
    BY <1>5, <2>1 DEF Send
  <2>3. wire'[d] = wire[d] \o <<line>>
    BY <1>1, <1>2, <2>2, WriteEffect DEF Live
  <2>4. \A e \in Conn : e # d => wire'[e] = wire[e]
    BY <1>1, <2>2, WriteEffect DEF Live
  <2> QED  BY <1>2, <2>3, <2>4
<1>9. CASE c = d
  <2>1. Undisturbed(c)'
    BY <1>1, <1>5, <1>6, <1>7, <1>9 DEF Undisturbed
  <2>2. Expected(c)'
    BY <1>1, <1>3, <1>8, <1>9 DEF Expected, AuthLine, HelloLine
  <2>3. Stages(c)'
    BY <1>1, <1>2, <1>4, <1>5, <1>9 DEF Stages
  <2> QED  BY <2>1, <2>2, <2>3 DEF OrderOf
<1>10. CASE c # d
  <2>1. ~Opening(c)
    BY <1>10, OneOpening
  <2>2. ~Opening(c)'
    BY <1>1, <1>5, <2>1 DEF Opening
  <2> QED  BY <1>1, <1>8, <1>10, <2>2, SameOrder DEF HandshakeOrder
<1> QED  BY <1>9, <1>10

LEMMA CallOrder ==
  ASSUME Typed, HandshakeOrder, RunCall, NEW c \in Conn
  PROVE  OrderOf(c)'
<1>1. CASE \E d \in Conn : Opening(d)
  BY <1>1, HandshakeCall
<1>2. CASE \A d \in Conn : ~Opening(d)
  <2>1. UNCHANGED <<srv, back, given>>
    BY CallEffect DEF server, sessions, history, opened
  <2>2. CASE RunMove(Head(q)) \/ RunAbs(Head(q))
    <3>1. UNCHANGED <<wire, net>>
      BY <2>2 DEF RunMove, RunAbs, network
    <3>2. ~Opening(c)'
      BY <1>2, <2>1, <3>1 DEF Opening
    <3> QED  BY <2>1, <3>1, <3>2, SameOrder DEF HandshakeOrder
  <2>3. ASSUME NEW line, Send(line), UNCHANGED net
        PROVE  OrderOf(c)'
    BY <1>2, <2>1, <2>3, QuietWrites DEF Send
  <2>4. CASE RunDisconnect(Head(q))
    <3>1. \A d \in Conn : net'[d] \in {net[d], "cancelling"}
      BY <2>4 DEF RunDisconnect
    <3> QED  BY <1>2, <2>1, <2>4, <3>1, QuietWrites DEF RunDisconnect, Send
  <2> QED  BY <2>2, <2>3, <2>4, CallEffect
<1> QED  BY <1>1, <1>2

LEMMA TimersOrder ==
  ASSUME Typed, HandshakeOrder, Timer, NEW c \in Conn
  PROVE  OrderOf(c)'
<1>1. \A d \in Conn : ~Opening(d)
  BY DEF Timer, MoveTimer, AbsTimer, HandshakeOrder, OrderOf, Undisturbed
<1> QED
  BY <1>1, QuietWrites
     DEF Timer, MoveTimer, AbsTimer, server, sessions, history, opened

(* The connection gets ready, and the hello is on the queue.               *)
LEMMA ReadyOrder ==
  ASSUME Typed, Fresh, HandshakeOrder, NEW d \in Conn, Ready(d), NEW c \in Conn
  PROVE  OrderOf(c)'
<1>1. /\ net[d] = "preparing" /\ srv[d] = "none" /\ back[d] = <<>>
      /\ q' = Append(q, SendOf(HelloLine)) /\ mainq' = Append(mainq, "authenticating")
      /\ net' = [net EXCEPT ![d] = "ready"] /\ srv' = [srv EXCEPT ![d] = "hello"]
      /\ UNCHANGED <<state, move, abs, conn, password, wire, back, given>>
  BY DEF Ready, Fresh, SendOf, HelloLine, motion, client, history, opened
<1>2. Opening(d) /\ Undisturbed(d) /\ q = <<>> /\ wire[d] = <<>>
  BY <1>1 DEF Opening, HandshakeOrder, OrderOf, Stages
<1>3. CASE c = d
  <2>1. net'[c] = "ready" /\ srv'[c] = "hello" /\ wire'[c] = <<>> /\ back'[c] = <<>>
    BY <1>1, <1>2, <1>3 DEF Typed
  <2>2. q' = <<SendOf(HelloLine)>>
    BY <1>1, <1>2
  <2>3. \A i \in DOMAIN mainq' : mainq'[i] # "connected"
    <3>1. mainq \in Seq(ClientState) /\ \A i \in DOMAIN mainq : mainq[i] # "connected"
      BY <1>2 DEF Undisturbed, Typed
    <3> QED  BY <1>1, <3>1, AppendNever
  <2>4. Undisturbed(c)'
    BY <1>1, <1>2, <1>3, <2>3 DEF Undisturbed
  <2>5. Stages(c)' /\ Expected(c)'
    <3>1. HelloLine' = HelloLine /\ SendOf(HelloLine)' = SendOf(HelloLine)
      BY DEF HelloLine, SendOf
    <3> QED  BY <2>1, <2>2, <3>1 DEF Stages, Expected
  <2> QED  BY <2>4, <2>5 DEF OrderOf
<1>4. CASE c # d
  <2>1. ~Opening(c)'
    <3>1. ~Opening(c)
      BY <1>2, <1>4, OneOpening
    <3> QED  BY <1>1, <1>4, <3>1 DEF Opening, Typed
  <2> QED  BY <1>1, <1>4, <2>1, SameOrder DEF HandshakeOrder, Typed
<1> QED  BY <1>3, <1>4

LEMMA OverOrder ==
  ASSUME Typed, HandshakeOrder, NEW d \in Conn, Fails(d) \/ Cancelled(d), NEW c \in Conn
  PROVE  OrderOf(c)'
<1>1. /\ \E st \in {"failed", "cancelled"} : net' = [net EXCEPT ![d] = st]
      /\ \E st \in {"failed", "idle"} : mainq' = Append(mainq, st)
      /\ UNCHANGED <<state, move, abs, conn, password, q, wire, back, srv, given>>
  BY DEF Fails, Cancelled, motion, client, server, sessions, history, opened
<1>2. ASSUME Opening(c)'
      PROVE  /\ net'[c] = net[c]
             /\ state # "connected" /\ \A i \in DOMAIN mainq' : mainq'[i] # "connected"
  <2>1. net'[c] = net[c]
    BY <1>1, <1>2 DEF Opening, Typed
  <2>2. Opening(c)
    BY <1>1, <1>2, <2>1 DEF Opening
  <2>3. state # "connected" /\ \A i \in DOMAIN mainq : mainq[i] # "connected"
    BY <2>2 DEF HandshakeOrder, OrderOf, Undisturbed
  <2>4. \A i \in DOMAIN mainq' : mainq'[i] # "connected"
    <3>1. mainq \in Seq(ClientState)
      BY DEF Typed
    <3>2. PICK st \in {"failed", "idle"} : mainq' = Append(mainq, st)
      BY <1>1
    <3> QED  BY <2>3, <3>1, <3>2, AppendNever
  <2> QED  BY <2>1, <2>3, <2>4
<1> QED  BY <1>1, <1>2, SameOrder DEF HandshakeOrder

(* The phone takes a line of the server's.                                 *)
LEMMA DeliverOrder ==
  ASSUME Typed, HandshakeOrder, NEW d \in Conn, Deliver(d), NEW c \in Conn
  PROVE  OrderOf(c)'
<1>1. /\ net[d] = "ready" /\ back[d] # <<>> /\ back' = [back EXCEPT ![d] = Tail(@)]
      /\ UNCHANGED <<state, move, abs, conn, password, net, wire, srv, given>>
      /\ Handle(d, Head(back[d]))
  BY DEF Deliver, motion, server, sessions, history, opened
<1>2. Opening(d) /\ Undisturbed(d) /\ Stages(d)
  BY <1>1 DEF Opening, HandshakeOrder, OrderOf
<1>3. q = <<>> /\ wire[d] = <<>> /\ Len(back[d]) = 1 /\ back'[d] = <<>>
  <2>1. q = <<>> /\ wire[d] = <<>> /\ Len(back[d]) = 1
    BY <1>1, <1>2 DEF Stages
  <2>2. back[d] \in Seq({"challenge", "auth_ok", "error"})
    BY DEF Typed
  <2>3. Tail(back[d]) = <<>>
    <3>1. Tail(back[d]) \in Seq({"challenge", "auth_ok", "error"}) /\ Len(Tail(back[d])) = 0
      BY <1>1, <2>1, <2>2
    <3> QED  BY <3>1, EmptySeq
  <2> QED  BY <1>1, <2>1, <2>3 DEF Typed
<1>4. CASE c = d
  <2>1. CASE Head(back[d]) = "challenge"
    <3>1. mainq' = mainq /\ q' = <<SendOf(AuthLine(d))>> /\ srv[d] \in {"auth", "closed"}
      BY <1>1, <1>2, <1>3, <2>1 DEF Handle, Undisturbed, Stages, SendOf, AuthLine
    <3>2. Undisturbed(c)'
      BY <1>1, <1>2, <1>4, <3>1 DEF Undisturbed
    <3>3. SendOf(AuthLine(c))' = SendOf(AuthLine(c))
      BY <1>1 DEF SendOf, AuthLine
    <3>4. Stages(c)' /\ Expected(c)'
      BY <1>1, <1>3, <1>4, <3>1, <3>3 DEF Stages, Expected
    <3> QED  BY <3>2, <3>4 DEF OrderOf
  <2>2. CASE Head(back[d]) \in {"auth_ok", "error"}
    <3>1. srv[d] \in {"serving", "closed", "refused"}
      BY <1>1, <1>2, <2>2 DEF Stages
    <3>2. ~Opening(c)'
      BY <1>1, <1>3, <1>4, <3>1 DEF Opening
    <3> QED  BY <1>1, <3>2, SameOrder DEF HandshakeOrder
  <2> QED  BY <1>1, <2>1, <2>2 DEF Handle
<1>5. CASE c # d
  <2>1. ~Opening(c)'
    <3>1. ~Opening(c)
      BY <1>2, <1>5, OneOpening
    <3> QED  BY <1>1, <1>5, <3>1 DEF Opening, Typed
  <2> QED  BY <1>1, <2>1, SameOrder DEF HandshakeOrder
<1> QED  BY <1>4, <1>5

(* The server takes a line of the phone's.                                 *)
LEMMA ServeOrder ==
  ASSUME Typed, HandshakeOrder, NEW d \in Conn, Serve(d), NEW c \in Conn
  PROVE  OrderOf(c)'
<1>1. /\ srv[d] \in {"hello", "auth", "serving"} /\ wire[d] # <<>>
      /\ wire' = [wire EXCEPT ![d] = Tail(@)]
      /\ UNCHANGED <<state, mainq, move, abs, conn, password, q, net, given>>
      /\ \A e \in Conn : e # d => srv'[e] = srv[e] /\ back'[e] = back[e]
  <2>1. Reads(d) /\ srv[d] \in {"hello", "auth", "serving"}
    BY DEF Serve, ServerHello, ServerAuth, ServerEvent
  <2>2. \A e \in Conn : e # d => srv'[e] = srv[e] /\ back'[e] = back[e]
    BY DEF Serve, ServerHello, ServerAuth, ServerEvent, Reply, Typed
  <2> QED  BY <2>1, <2>2 DEF Reads, ui, motion, client, history, opened
<1>2. CASE c # d
  <2>1. ASSUME Opening(c)'
        PROVE  state # "connected" /\ \A i \in DOMAIN mainq : mainq[i] # "connected"
    BY <1>1, <1>2, <2>1 DEF Opening, HandshakeOrder, OrderOf, Undisturbed
  <2> QED  BY <1>1, <1>2, <2>1, SameOrder DEF HandshakeOrder, Typed
<1>3. CASE c = d /\ (ServerHello(d) \/ ServerAuth(d))
  <2>1. srv[d] \in {"hello", "auth"} /\ wire[d] \in Seq(Line) /\ OrderOf(d)
    BY <1>3 DEF ServerHello, ServerAuth, HandshakeOrder, Typed
  <2>2. wire'[d] = <<>>
    <3>1. \E line : wire[d] = <<line>>
      BY <1>1, <2>1 DEF OrderOf, Expected
    <3> QED  BY <1>1, <3>1 DEF Typed
  <2>3. PICK reply, then :
          /\ back'[d] = Append(back[d], reply) /\ srv'[d] = then
          /\ \/ reply = "challenge" /\ then = "auth"
             \/ reply = "auth_ok" /\ then = "serving"
             \/ reply = "error" /\ then = "refused"
    <3>1. CASE ServerHello(d)
      BY <3>1 DEF ServerHello, Reply, Typed
    <3>2. CASE ServerAuth(d)
      BY <3>2 DEF ServerAuth, Reply, Typed
    <3> QED  BY <1>3, <3>1, <3>2
  <2>4. Expected(c)'
    BY <1>3, <2>2, <2>3 DEF Expected
  <2>5. ASSUME Opening(c)'
        PROVE  (Undisturbed(c) /\ Stages(c))'
    <3>1. net[d] = "ready" \/ net[d] = "preparing"
      BY <1>1, <1>3, <2>5 DEF Opening
    <3>2. Opening(d) /\ Undisturbed(d) /\ Stages(d)
      BY <2>1, <3>1 DEF Opening, OrderOf
    <3>3. net[d] = "ready" /\ back[d] = <<>> /\ q = <<>>
      BY <1>1, <2>1, <3>1, <3>2 DEF Stages
    <3>4. back'[d] = <<reply>>
      BY <2>3, <3>3
    <3>5. Undisturbed(c)'
      BY <1>1, <1>3, <3>2 DEF Undisturbed
    <3>6. Stages(c)'
      BY <1>1, <1>3, <2>2, <2>3, <3>3, <3>4 DEF Stages
    <3> QED  BY <3>5, <3>6
  <2> QED  BY <2>4, <2>5 DEF OrderOf
<1>4. CASE c = d /\ ServerEvent(d)
  <2>1. srv[d] = "serving" /\ srv'[d] \in {"serving", "closed"} /\ back' = back
    BY <1>4 DEF ServerEvent, Typed
  <2>2. ~Opening(d)'
    <3>1. ~Opening(d)
      <4>1. ASSUME Opening(d)  PROVE FALSE
        BY <1>1, <2>1, <4>1 DEF Opening, HandshakeOrder, OrderOf, Undisturbed, Stages
      <4> QED  BY <4>1
    <3> QED  BY <1>1, <2>1, <3>1 DEF Opening
  <2>3. Expected(c)'
    BY <1>4, <2>1 DEF Expected
  <2> QED  BY <1>4, <2>2, <2>3 DEF OrderOf
<1> QED  BY <1>2, <1>3, <1>4 DEF Serve

LEMMA EndOrder ==
  ASSUME Typed, HandshakeOrder, NEW d \in Conn, ServerHangsUp(d) \/ ServerEnds(d), NEW c \in Conn
  PROVE  OrderOf(c)'
<1>1. /\ srv[d] \in {"hello", "auth", "serving"} /\ srv' = [srv EXCEPT ![d] = "closed"]
      /\ UNCHANGED <<state, mainq, move, abs, conn, password, q, net, wire, back, given>>
  BY DEF ServerHangsUp, ServerEnds, ui, motion, client, network, history, opened
<1>2. ASSUME Opening(c)'
      PROVE  Opening(c)
  BY <1>1, <1>2 DEF Opening, Typed
<1>3. CASE c # d
  <2>1. ASSUME Opening(c)'
        PROVE  state # "connected" /\ \A i \in DOMAIN mainq : mainq[i] # "connected"
    BY <1>2, <2>1 DEF HandshakeOrder, OrderOf, Undisturbed
  <2> QED  BY <1>1, <1>3, <2>1, SameOrder DEF HandshakeOrder, Typed
<1>4. CASE c = d
  <2>1. srv'[c] = "closed"
    BY <1>1, <1>4 DEF Typed
  <2>2. ASSUME Opening(c)'
        PROVE  (Undisturbed(c) /\ Stages(c))'
    <3>1. Undisturbed(c) /\ Stages(c)
      BY <1>2, <2>2 DEF HandshakeOrder, OrderOf
    <3>2. Undisturbed(c)'
      BY <1>1, <3>1 DEF Undisturbed
    <3>3. Stages(c)'
      BY <1>1, <1>4, <2>1, <3>1 DEF Stages
    <3> QED  BY <3>2, <3>3
  <2> QED  BY <2>1, <2>2 DEF OrderOf, Expected
<1> QED  BY <1>3, <1>4

LEMMA OrderStep ==
  ASSUME Patient, Typed, TimersRun, Fresh, HandshakeOrder, Next
  PROVE  HandshakeOrder'
<1> SUFFICES ASSUME NEW c \in Conn
             PROVE  OrderOf(c)'
  BY DEF HandshakeOrder
<1>0. OrderOf(c)
  BY DEF HandshakeOrder
<1>1. CASE \E d \in Conn, p \in Password : Connect(d, p)
  BY <1>1, ConnectOrder
<1>2. CASE User
  <2>1. /\ state = "connected"
        /\ UNCHANGED <<ui, motion, client, network, server, faults, opened>>
    BY <1>2, UserEffect
  <2>2. UNCHANGED <<wire, srv, net, back, given>>
    BY <2>1 DEF network, server, sessions, opened
  <2>3. ~Opening(c)'
    BY <1>0, <2>1, <2>2 DEF Opening, OrderOf, Undisturbed
  <2> QED  BY <1>0, <2>2, <2>3, SameOrder
<1>3. CASE SetState
  <2>1. /\ mainq # <<>> /\ state' = Head(mainq) /\ mainq' = Tail(mainq)
        /\ UNCHANGED <<wire, srv, net, back, given, conn, password, q, move, abs>>
    BY <1>3 DEF SetState, motion, client, network, server, sessions, history, opened
  <2>2. ASSUME Opening(c)'
        PROVE  state' # "connected" /\ \A i \in DOMAIN mainq' : mainq'[i] # "connected"
    <3>1. \A i \in DOMAIN mainq : mainq[i] # "connected"
      BY <1>0, <2>1, <2>2 DEF Opening, OrderOf, Undisturbed
    <3> QED  BY <2>1, <3>1, TailNever DEF Typed
  <2> QED  BY <1>0, <2>1, <2>2, SameOrder
<1>4. CASE RunCall
  BY <1>4, CallOrder
<1>5. CASE Timer
  BY <1>5, TimersOrder
<1>6. CASE \E d \in Conn : Callback(d)
  BY <1>6, ReadyOrder, OverOrder, DeliverOrder DEF Callback
<1>7. CASE \E d \in Conn : Serve(d)
  BY <1>7, ServeOrder
<1>8. CASE \E d \in Conn : ServerHangsUp(d) \/ ServerEnds(d)
  BY <1>8, EndOrder
<1>9. CASE \E p \in Password : SetPassword(p)
  <2>1. UNCHANGED <<state, mainq, wire, srv, net, back, given, conn, password, q, move, abs>>
    BY <1>9 DEF SetPassword, ui, motion, client, network, sessions
  <2>2. ASSUME Opening(c)'
        PROVE  state' # "connected" /\ \A i \in DOMAIN mainq' : mainq'[i] # "connected"
    BY <1>0, <2>1, <2>2 DEF Opening, OrderOf, Undisturbed
  <2> QED  BY <1>0, <2>1, <2>2, SameOrder
<1> QED  BY <1>1, <1>2, <1>3, <1>4, <1>5, <1>6, <1>7, <1>8, <1>9 DEF Next

-----------------------------------------------------------------------------
(* The passwords.                                                          *)

(* What a step may do that neither decides a handshake nor begins one.     *)
LEMMA SamePasswords ==
  ASSUME Passwords, UNCHANGED <<secret, given, valid>>,
         \A c \in Conn : /\ Undecided(c)' => Undecided(c)
                         /\ srv'[c] \in {srv[c], "hello", "auth", "closed"}
  PROVE  Passwords'
  BY DEF Passwords, PasswordDecides, RefusedMeansPassword

(* The line the server waits for is all that a handshake ever brings it.   *)
LEMMA ServePasswords ==
  ASSUME Typed, Fresh, HandshakeOrder, Passwords, NEW d \in Conn, Serve(d)
  PROVE  Passwords'
<1>1. /\ wire[d] # <<>> /\ UNCHANGED <<net, secret, given, valid>>
      /\ \A c \in Conn : c # d => srv'[c] = srv[c]
  BY DEF Serve, ServerHello, ServerAuth, ServerEvent, Reads, Reply, Typed, history, opened
<1>2. CASE ServerHello(d)
  <2>1. wire[d] = <<HelloLine>> /\ srv[d] = "hello"
    BY <1>1, <1>2 DEF ServerHello, HandshakeOrder, OrderOf, Expected
  <2>2. Head(wire[d]).t = "hello"
    BY <2>1 DEF HelloLine
  <2>3. srv'[d] = "auth"
    BY <1>2, <2>2 DEF ServerHello, Reply, Typed
  <2> QED  BY <1>1, <2>1, <2>3, SamePasswords DEF Undecided
<1>3. CASE ServerAuth(d)
  <2>1. wire[d] = <<AuthLine(d)>> /\ srv[d] = "auth"
    BY <1>1, <1>3 DEF ServerAuth, HandshakeOrder, OrderOf, Expected
  <2>2. Head(wire[d]).t = "auth" /\ Head(wire[d]).nonce = d /\ Head(wire[d]).pass = given[d]
    BY <2>1 DEF AuthLine
  <2>3. secret \in valid[d]
    <3>1. net[d] # "unused"
      BY <2>1 DEF Fresh
    <3> QED  BY <2>1, <3>1 DEF Passwords, Undecided
  <2>4. CASE given[d] = secret
    <3>1. srv'[d] = "serving"
      BY <1>3, <2>2, <2>4 DEF ServerAuth, Reply, Typed
    <3> QED
      BY <1>1, <2>1, <2>3, <2>4, <3>1 DEF Passwords, PasswordDecides, RefusedMeansPassword, Undecided
  <2>5. CASE given[d] # secret
    <3>1. srv'[d] = "refused"
      BY <1>3, <2>2, <2>5 DEF ServerAuth, Reply, Typed
    <3>2. valid[d] # {given[d]}
      BY <2>3, <2>5
    <3> QED
      BY <1>1, <2>1, <3>1, <3>2 DEF Passwords, PasswordDecides, RefusedMeansPassword, Undecided
  <2> QED  BY <2>4, <2>5
<1>4. CASE ServerEvent(d)
  <2>1. srv[d] = "serving" /\ srv'[d] \in {"serving", "closed"}
    BY <1>4 DEF ServerEvent, Typed
  <2> QED  BY <1>1, <2>1, SamePasswords DEF Undecided
<1> QED  BY <1>2, <1>3, <1>4 DEF Serve

LEMMA PasswordsStep ==
  ASSUME Typed, Fresh, HandshakeOrder, Passwords, Next
  PROVE  Passwords'
<1>1. ASSUME NEW d \in Conn, NEW p \in Password, Connect(d, p)
      PROVE  Passwords'
  <2>1. /\ srv[d] = "none" /\ srv' = srv /\ secret' = secret
        /\ valid'[d] = {secret}
        /\ \A c \in Conn : c # d => /\ net'[c] = net[c] /\ valid'[c] = valid[c]
                                    /\ given'[c] = given[c]
    BY <1>1 DEF Connect, Start, Fresh, Typed, server, sessions
  <2> QED  BY <2>1 DEF Passwords, PasswordDecides, RefusedMeansPassword, Undecided
<1>2. ASSUME NEW p \in Password, SetPassword(p)
      PROVE  Passwords'
  <2>1. /\ secret' = p /\ UNCHANGED <<net, srv, given>>
        /\ \A c \in Conn : valid'[c] = IF Undecided(c) THEN valid[c] \cup {p} ELSE valid[c]
    BY <1>2 DEF SetPassword, network, sessions
  <2> QED  BY <2>1 DEF Passwords, PasswordDecides, RefusedMeansPassword, Undecided, Typed
<1>3. CASE User
  <2>1. UNCHANGED <<ui, motion, client, network, server, faults, opened>>
    BY <1>3, UserEffect
  <2> QED  BY <2>1, SamePasswords DEF network, server, sessions, opened, Undecided
<1>4. CASE SetState \/ Timer
  BY <1>4, SamePasswords
     DEF SetState, Timer, MoveTimer, AbsTimer, network, server, sessions, history, opened, Undecided
<1>5. CASE RunCall
  <2>1. /\ UNCHANGED <<srv, secret, given, valid>>
        /\ \A c \in Conn : net'[c] = "unused" <=> net[c] = "unused"
    BY <1>5, CallEffect DEF server, sessions, history, opened, RunMove, RunAbs, RunDisconnect, network
  <2> QED  BY <2>1, SamePasswords DEF Undecided
<1>6. ASSUME NEW d \in Conn, Callback(d)
      PROVE  Passwords'
  <2>1. /\ UNCHANGED <<secret, given, valid>>
        /\ \A c \in Conn : net'[c] = "unused" <=> net[c] = "unused"
    BY <1>6 DEF Callback, Ready, Fails, Cancelled, Deliver, server, history, opened, Typed
  <2>2. srv' = srv \/ (srv[d] = "none" /\ srv' = [srv EXCEPT ![d] = "hello"])
    BY <1>6 DEF Callback, Ready, Fails, Cancelled, Deliver, server, sessions, Fresh
  <2> QED  BY <2>1, <2>2, SamePasswords DEF Undecided, Typed
<1>7. ASSUME NEW d \in Conn, Serve(d)
      PROVE  Passwords'
  BY <1>7, ServePasswords
<1>8. ASSUME NEW d \in Conn, ServerHangsUp(d) \/ ServerEnds(d)
      PROVE  Passwords'
  <2>1. UNCHANGED <<net, secret, given, valid>> /\ srv' = [srv EXCEPT ![d] = "closed"]
    BY <1>8 DEF ServerHangsUp, ServerEnds, network, history, opened
  <2> QED  BY <2>1, SamePasswords DEF Undecided, Typed
<1> QED  BY <1>1, <1>2, <1>3, <1>4, <1>5, <1>6, <1>7, <1>8 DEF Next

-----------------------------------------------------------------------------
(* The theorems.                                                           *)

LEMMA TypesInit == Init => Typed /\ ReceivesCounted
<1> SUFFICES ASSUME Init  PROVE Typed /\ ReceivesCounted
  OBVIOUS
<1>1. Typed
  <2>1. move \in [dx : Int, sched : BOOLEAN, timers : Nat]
    BY DEF Init
  <2>2. abs \in [x : Nat, pending : BOOLEAN, sched : BOOLEAN, timers : Nat]
    BY DEF Init
  <2>3. Still \in Motion
    BY DEF Still, Motion
  <2>4. q \in Seq(Call) /\ mainq \in Seq(ClientState) /\ wire \in [Conn -> Seq(Line)]
        /\ back \in [Conn -> Seq({"challenge", "auth_ok", "error"})]
    BY DEF Init
  <2> QED  BY <2>1, <2>2, <2>3, <2>4, ConstantsOK DEF Init, Typed, ClientState, Password
<1>2. ReceivesCounted
  <2>1. Used = {}
    BY DEF Init, Used
  <2>2. PICK h : h = [d \in Used |-> None]
    OBVIOUS
  <2>3. \A c \in Conn : receives[c] = 0 /\ {d \in Used : h[d] = c} = {}
    BY <2>1 DEF Init
  <2>4. \A c \in Conn : receives[c] = Cardinality({d \in Used : h[d] = c})
    BY <2>3, FS_EmptySet
  <2>5. h \in [Used -> Conn \cup {None}]
    BY <2>2
  <2>6. Tokens(h)
    BY <2>4, <2>5 DEF Tokens
  <2> QED  BY <2>6 DEF ReceivesCounted
<1> QED  BY <1>1, <1>2

LEMMA MotionInit == Init => TimersRun /\ Fresh /\ MotionInOrder
<1> SUFFICES ASSUME Init  PROVE TimersRun /\ Fresh /\ MotionInOrder
  OBVIOUS
<1>1. TimersRun /\ Fresh
  BY DEF Init, TimersRun, Fresh
<1>2. ASSUME NEW c \in Conn
      PROVE  InOrder(c)
  <2>1. wire[c] = <<>> /\ got[c] = Still /\ ~Live(c)
    BY DEF Init, Live
  <2>2. PICK f : f = [i \in 0..0 |-> Still]
    OBVIOUS
  <2>3. Passes(f, <<>>) /\ f[0] = Still
    BY <2>2 DEF Passes, Still, Motion
  <2> QED  BY <2>1, <2>3 DEF InOrder
<1> QED  BY <1>1, <1>2 DEF MotionInOrder

LEMMA OrderShows ==
  ASSUME Typed, MotionInOrder
  PROVE  NothingOvertakes
<1> SUFFICES ASSUME NEW c \in Conn, srv[c] = "serving", wire[c] # <<>>,
                    Head(wire[c]).t \in {"act", "bye"}
             PROVE  got[c] = Head(wire[c]).at
  BY DEF NothingOvertakes
<1>1. PICK f : Passes(f, wire[c]) /\ f[0] = got[c]
  BY DEF MotionInOrder, InOrder, Tracked
<1>2. wire[c] \in Seq(Line)
  BY DEF Typed
<1> QED  BY <1>1, <1>2, PassesTail

(* The invariants do not speak of the bounds and the histories that a step *)
(* without effect leaves alone either.                                     *)
LEMMA StutterMotion ==
  ASSUME UNCHANGED vars, Typed, ReceivesCounted, TimersRun, Fresh, MotionInOrder
  PROVE  (Typed /\ ReceivesCounted /\ TimersRun /\ Fresh /\ MotionInOrder)'
<1> USE DEF vars, ui, motion, client, network, sessions, server, bounds, opened, history
<1>1. Typed'
  BY DEF Typed
<1>2. ReceivesCounted'
  BY DEF ReceivesCounted, Tokens, Used
<1>3. TimersRun' /\ Fresh'
  BY DEF TimersRun, Fresh
<1>4. MotionInOrder'
  BY DEF MotionInOrder, InOrder, Tracked, Live
<1> QED  BY <1>1, <1>2, <1>3, <1>4

(* The invariants together are inductive, whatever the user does.          *)
THEOREM Inductive == Spec => [](Typed /\ ReceivesCounted /\ TimersRun /\ Fresh /\ MotionInOrder)
<1> DEFINE Inv == Typed /\ ReceivesCounted /\ TimersRun /\ Fresh /\ MotionInOrder
<1>1. Init => Inv
  BY TypesInit, MotionInit
<1>2. Inv /\ [Next]_vars => Inv'
  <2>1. ASSUME Inv, Next
        PROVE  Inv'
    BY <2>1, NextTyped, ReceivesStep, TimersStep, FreshStep, MotionStep
  <2>2. ASSUME Inv, UNCHANGED vars
        PROVE  Inv'
    BY <2>2, StutterMotion
  <2> QED  BY <2>1, <2>2
<1> QED  BY <1>1, <1>2, PTL DEF Spec

(* Every variable keeps its type; above all, a connection never has more   *)
(* than one pending call of receive for each that was ever opened          *)
(* (Client.swift:158-165), whichever connection a callback calls it on.    *)
THEOREM TypeCorrect == Spec => []TypeOK
<1>1. Typed /\ ReceivesCounted => TypeOK
  BY TypeOKParts
<1> QED  BY <1>1, Inductive, PTL

(* No event overtakes the motion before it or is overtaken by it, through  *)
(* the coalescing and its timers (Client.swift:78-139), the flush in front *)
(* of every event and of the disconnect (66-75, 141-151), and the network; *)
(* for any number of connections, a patient user or not, and whichever of  *)
(* them fail.                                                              *)
THEOREM NothingOvertakesHolds == Spec => []NothingOvertakes
<1>1. Typed /\ MotionInOrder => NothingOvertakes
  BY OrderShows
<1> QED  BY <1>1, Inductive, PTL

LEMMA HandshakeInit == Init => HandshakeOrder /\ Passwords
<1> SUFFICES ASSUME Init  PROVE HandshakeOrder /\ Passwords
  OBVIOUS
<1>1. \A c \in Conn : ~Opening(c) /\ ~Undecided(c) /\ srv[c] = "none"
  BY DEF Init, Opening, Undecided
<1> QED
  BY <1>1 DEF HandshakeOrder, OrderOf, Expected, Passwords, PasswordDecides, RefusedMeansPassword

LEMMA StutterHandshake ==
  ASSUME UNCHANGED vars, HandshakeOrder, Passwords
  PROVE  HandshakeOrder' /\ Passwords'
<1> USE DEF vars, ui, motion, client, network, sessions, server, bounds, opened, history
<1>1. HandshakeOrder'
  <2>1. \A c \in Conn : Expected(c)' = Expected(c) /\ Opening(c)' = Opening(c)
    BY DEF Expected, Opening, AuthLine, HelloLine
  <2>2. \A c \in Conn : Undisturbed(c)' = Undisturbed(c) /\ Stages(c)' = Stages(c)
    BY DEF Undisturbed, Stages, AuthLine, HelloLine, SendOf
  <2> QED  BY <2>1, <2>2 DEF HandshakeOrder, OrderOf
<1>2. Passwords'
  BY DEF Passwords, PasswordDecides, RefusedMeansPassword, Undecided
<1> QED  BY <1>1, <1>2

(* If the user opens one connection at a time, the password alone decides  *)
(* who is let in and who is refused (server.go:71-98, Client.swift:176-    *)
(* 193): whatever became of the connections before, and whenever the       *)
(* service's password is changed.                                          *)
THEOREM PasswordDecidesHolds ==
  ASSUME Patient
  PROVE  Spec => []PasswordDecides
<1> DEFINE Base == Typed /\ ReceivesCounted /\ TimersRun /\ Fresh /\ MotionInOrder
           Inv == HandshakeOrder /\ Passwords
<1>1. Init => Inv
  BY HandshakeInit
<1>2. Base /\ Inv /\ [Next]_vars => Inv'
  <2>1. ASSUME Base, Inv, Next
        PROVE  Inv'
    BY <2>1, OrderStep, PasswordsStep
  <2>2. ASSUME Inv, UNCHANGED vars
        PROVE  Inv'
    BY <2>2, StutterHandshake
  <2> QED  BY <2>1, <2>2
<1>3. Inv => PasswordDecides
  BY DEF Passwords
<1>4. Spec => []Base
  BY Inductive
<1> QED  BY <1>1, <1>2, <1>3, <1>4, PTL DEF Spec

=============================================================================
