------------------------------ MODULE DeviceList ------------------------------
(***************************************************************************)
(* The list of connected phones, from a phone's session to the window:     *)
(* ClientRegistry (server/clients.go), its pushes to the window, the       *)
(* panel's ticker (server/ui_panel_windows.go) and the status pipe of the  *)
(* service (server/status_windows.go).                                     *)
(*                                                                         *)
(* There are two programs with such a window: the control panel, which     *)
(* shows its own phones while it serves and the service's otherwise, and   *)
(* the stand-alone server (server/ui_windows.go), which has only its own.  *)
(* The window is drawn by one thread, to which closures are posted with    *)
(* Synchronize and which runs them in order.                               *)
(*                                                                         *)
(* Which port is served, and by whom, is the subject of module Serving;    *)
(* here there is one port.                                                 *)
(***************************************************************************)
EXTENDS Integers, Sequences, FiniteSets

CONSTANTS
  Session,      (* the connections phones open, each once                   *)
  MaxFaults,    (* bound on failing queries and on Applies that fail        *)
  MaxSwitches,  (* bound on starts and stops of the service                 *)
  MaxQueue      (* bound on how far the window's thread lags behind         *)

ASSUME ConstantsOK ==
  /\ IsFiniteSet(Session)
  /\ MaxFaults \in Nat /\ MaxSwitches \in Nat /\ MaxQueue \in Nat \ {0}

VARIABLES
  mode,         (* which of the two programs has the window                 *)
  port,         (* who listens on the port                                  *)
  svc,          (* the service, and whether its status pipe listens         *)
  phase,        (* per session, how far Server.handle is                    *)
  at,           (* per session, the process it is with                      *)
  reg,          (* per process, its registry in order of registration       *)
  watched,      (* SetOnChange has been called                              *)
  populated,    (* the stand-alone window has been filled for the first time*)
  gui,          (* the closures posted to the window's thread               *)
  shown,        (* deviceModel.items                                        *)
  tick,         (* the panel's ticker: where it is, and its locals          *)
  faults, switches, (* what is used of the bounds                           *)
  behind        (* history: how many of the ticker's paints are to come     *)
                (* until one that knows what has happened so far            *)

sessions == <<phase, at, reg>>
window   == <<watched, populated, shown>>
bounds   == <<faults, switches>>
vars     == <<mode, port, svc, sessions, window, gui, tick, bounds, behind>>

Process == {"window", "service"}
Closure ==
  [do : {"refresh"}] \cup [do : {"paint"}, devices : Seq(Session)]

TypeOK ==
  /\ mode \in {"panel", "standalone"}
  /\ port \in Process \cup {"free", "other"}
  /\ svc \in [running : BOOLEAN, pipe : BOOLEAN]
  /\ phase \in [Session -> {"new", "accepted", "joining", "serving", "dropped", "leaving", "gone"}]
  /\ at \in [Session -> Process]
  /\ reg \in [Process -> Seq(Session)]
  /\ watched \in BOOLEAN /\ populated \in BOOLEAN
  /\ gui \in Seq(Closure) /\ shown \in Seq(Session)
  /\ tick \in [at : {"idle", "arbitrate", "choose", "snapshot", "query", "post"},
               running : BOOLEAN, devices : Seq(Session)]
  /\ faults \in 0..MaxFaults /\ switches \in 0..MaxSwitches
  /\ behind \in Nat
  /\ \A p \in Process : \A i, j \in DOMAIN reg[p] : reg[p][i] = reg[p][j] => i = j

(* delete(clients, id), which leaves the others in their order.             *)
Without(q, s) ==
  IF \E i \in DOMAIN q : q[i] = s
    THEN LET i == CHOOSE i \in DOMAIN q : q[i] = s
         IN  SubSeq(q, 1, i - 1) \o SubSeq(q, i + 1, Len(q))
    ELSE q

Unfaulted == UNCHANGED bounds

Fault == faults < MaxFaults /\ faults' = faults + 1 /\ UNCHANGED switches

-----------------------------------------------------------------------------
(* A session: Server.handle from its acceptance on.                         *)

Accept(s) ==
  /\ phase[s] = "new" /\ port \in Process
  /\ phase' = [phase EXCEPT ![s] = "accepted"]
  /\ at' = [at EXCEPT ![s] = port]
  /\ UNCHANGED <<mode, port, svc, reg, window, gui, tick, bounds>>

(* The handshake fails, or the phone goes away before its end.              *)
Refused(s) ==
  /\ phase[s] = "accepted"
  /\ phase' = [phase EXCEPT ![s] = "gone"]
  /\ UNCHANGED <<mode, port, svc, at, reg, window, gui, tick, bounds>>

(* Planted bug: a phone is registered at its hello and again at auth_ok.    *)
RegisterTwice(s) ==
  /\ phase[s] = "accepted"
  /\ phase' = [phase EXCEPT ![s] = "joining"]
  /\ reg' = [reg EXCEPT ![at[s]] = @ \o <<s, s>>]
  /\ UNCHANGED <<mode, port, svc, at, window, gui, tick, bounds>>

(* auth_ok has been sent.  Register returns to notify outside its mutex.    *)
Register(s) ==
  /\ phase[s] = "accepted"
  /\ phase' = [phase EXCEPT ![s] = "joining"]
  /\ reg' = [reg EXCEPT ![at[s]] = Append(@, s)]
  /\ UNCHANGED <<mode, port, svc, at, window, gui, tick, bounds>>

(* Only the process with the window has set onChange.                       *)
Notify(s, then) ==
  /\ phase' = [phase EXCEPT ![s] = then]
  /\ gui' = IF at[s] = "window" /\ watched THEN Append(gui, [do |-> "refresh"]) ELSE gui
  /\ UNCHANGED <<mode, port, svc, at, reg, window, tick, bounds>>

Registered(s) == phase[s] = "joining" /\ Notify(s, "serving")

(* The phone says bye, closes the connection or is not heard of any more.   *)
Drops(s) ==
  /\ phase[s] = "serving"
  /\ phase' = [phase EXCEPT ![s] = "dropped"]
  /\ UNCHANGED <<mode, port, svc, at, reg, window, gui, tick, bounds>>

(* Planted bug: a phone that drops out without a bye stays registered.      *)
DeregisterNever(s) ==
  /\ phase[s] = "dropped"
  /\ phase' = [phase EXCEPT ![s] = "gone"]
  /\ UNCHANGED <<mode, port, svc, at, reg, window, gui, tick, bounds>>

(* The deferred call.                                                       *)
Deregister(s) ==
  /\ phase[s] = "dropped"
  /\ phase' = [phase EXCEPT ![s] = "leaving"]
  /\ reg' = [reg EXCEPT ![at[s]] = Without(@, s)]
  /\ UNCHANGED <<mode, port, svc, at, window, gui, tick, bounds>>

Deregistered(s) == phase[s] = "leaving" /\ Notify(s, "gone")

-----------------------------------------------------------------------------
(* The service, and who else may have the port.                             *)

ServiceStarts ==
  /\ mode = "panel" /\ ~svc.running /\ switches < MaxSwitches
  /\ svc' = [running |-> TRUE, pipe |-> FALSE]
  /\ switches' = switches + 1
  /\ UNCHANGED <<mode, port, sessions, window, gui, tick, faults>>

PipeListens ==
  /\ svc.running /\ ~svc.pipe
  /\ svc' = [svc EXCEPT !.pipe = TRUE]
  /\ UNCHANGED <<mode, port, sessions, window, gui, tick, bounds>>

PortListens ==
  /\ svc.running /\ port = "free"
  /\ port' = "service"
  /\ UNCHANGED <<mode, svc, sessions, window, gui, tick, bounds>>

(* Its process ends, with its sessions, its registry and its pipe.          *)
ServiceStops ==
  /\ svc.running /\ switches < MaxSwitches
  /\ svc' = [running |-> FALSE, pipe |-> FALSE]
  /\ switches' = switches + 1
  /\ port' = IF port = "service" THEN "free" ELSE port
  /\ phase' = [s \in Session |->
                 IF at[s] = "service" /\ phase[s] # "new" THEN "gone" ELSE phase[s]]
  /\ reg' = [reg EXCEPT !["service"] = <<>>]
  /\ UNCHANGED <<mode, at, window, gui, tick, faults>>

(* An Apply that gets neither the new nor the old port.                     *)
ApplyGivesUp ==
  /\ mode = "panel" /\ port = "window" /\ Fault
  /\ port' = "other"
  /\ UNCHANGED <<mode, svc, sessions, window, gui, tick>>

OtherReleases ==
  /\ port = "other"
  /\ port' = "free"
  /\ UNCHANGED <<mode, svc, sessions, window, gui, tick, bounds>>

-----------------------------------------------------------------------------
(* The window's thread.                                                     *)

(* The stand-alone window subscribes, then fills the list for the first     *)
(* time, while its server is already up.                                    *)
Subscribe ==
  /\ ~watched
  /\ watched' = TRUE
  /\ UNCHANGED <<mode, port, svc, sessions, populated, gui, shown, tick, bounds>>

(* Planted bug: the list is filled before the window subscribes.            *)
PopulateEarly ==
  /\ ~populated
  /\ populated' = TRUE
  /\ shown' = reg["window"]
  /\ UNCHANGED <<mode, port, svc, sessions, watched, gui, tick, bounds>>

Populate ==
  /\ watched /\ ~populated
  /\ populated' = TRUE
  /\ shown' = reg["window"]
  /\ UNCHANGED <<mode, port, svc, sessions, watched, gui, tick, bounds>>

(* Planted bug: the panel refreshes whether or not it serves.               *)
RefreshAlways == reg["window"]

(* What a pushed refresh leaves on the screen: the panel only follows its   *)
(* own registry while the controller is running.                            *)
Refresh == IF mode = "standalone" \/ port = "window" THEN reg["window"] ELSE shown

RunGui ==
  /\ populated /\ gui # <<>>
  /\ gui' = Tail(gui)
  /\ shown' = IF Head(gui).do = "refresh" THEN Refresh ELSE Head(gui).devices
  /\ UNCHANGED <<mode, port, svc, sessions, watched, populated, tick, bounds>>

-----------------------------------------------------------------------------
(* The panel's ticker.                                                      *)

Ticks(from) ==
  /\ mode = "panel" /\ tick.at = from
  /\ UNCHANGED <<mode, svc, sessions, window>>

(* serviceRunning, which takes a failing query for "not running".           *)
Look ==
  /\ Ticks("idle") /\ Len(gui) < MaxQueue
  /\ \E running \in BOOLEAN :
       /\ tick' = [tick EXCEPT !.at = "arbitrate", !.running = running]
       /\ \/ running = svc.running /\ Unfaulted
          \/ ~running /\ svc.running /\ Fault
  /\ UNCHANGED <<port, gui>>

(* Start, which fails while somebody else has the port, or Stop, which lets *)
(* the phones that are connected be.                                        *)
Arbitrate ==
  /\ Ticks("arbitrate")
  /\ tick' = [tick EXCEPT !.at = "choose"]
  /\ port' = IF tick.running
               THEN IF port = "window" THEN "free" ELSE port
               ELSE IF port = "free" THEN "window" ELSE port
  /\ UNCHANGED <<gui, bounds>>

(* Whose phones to show.                                                    *)
Choose ==
  /\ Ticks("choose")
  /\ tick' = [tick EXCEPT !.at = IF port = "window" THEN "snapshot" ELSE "query"]
  /\ UNCHANGED <<port, gui, bounds>>

TakeSnapshot ==
  /\ Ticks("snapshot")
  /\ tick' = [tick EXCEPT !.at = "post", !.devices = reg["window"]]
  /\ UNCHANGED <<port, gui, bounds>>

(* queryStatusPipe; a failure counts as an empty list.                      *)
QueryPipe ==
  /\ Ticks("query")
  /\ \/ /\ svc.pipe /\ Unfaulted
        /\ tick' = [tick EXCEPT !.at = "post", !.devices = reg["service"]]
     \/ /\ ~svc.pipe /\ Unfaulted
        /\ tick' = [tick EXCEPT !.at = "post", !.devices = <<>>]
     \/ /\ svc.pipe /\ Fault
        /\ tick' = [tick EXCEPT !.at = "post", !.devices = <<>>]
  /\ UNCHANGED <<port, gui>>

Post ==
  /\ Ticks("post")
  /\ gui' = Append(gui, [do |-> "paint", devices |-> tick.devices])
  /\ tick' = [at |-> "idle", running |-> FALSE, devices |-> <<>>]
  /\ UNCHANGED <<port, bounds>>

Tick == Look \/ Arbitrate \/ Choose \/ TakeSnapshot \/ QueryPipe \/ Post

-----------------------------------------------------------------------------

Init ==
  /\ mode \in {"panel", "standalone"}
  /\ svc \in {[running |-> r, pipe |-> r] : r \in IF mode = "panel" THEN BOOLEAN ELSE {FALSE}}
  /\ port = IF mode = "standalone" THEN "window" ELSE IF svc.running THEN "service" ELSE "free"
  /\ phase = [s \in Session |-> "new"] /\ at = [s \in Session |-> "window"]
  /\ reg = [p \in Process |-> <<>>]
  /\ watched = (mode = "panel") /\ populated = (mode = "panel")
  /\ gui = <<>> /\ shown = <<>>
  /\ tick = [at |-> "idle", running |-> FALSE, devices |-> <<>>]
  /\ faults = 0 /\ switches = 0
  /\ behind = 1

Handle(s) == Register(s) \/ Registered(s) \/ Deregister(s) \/ Deregistered(s)

Phone(s) == Accept(s) \/ Refused(s) \/ Drops(s)

Service == ServiceStarts \/ PipeListens \/ PortListens \/ ServiceStops

(* Whose phones the window should show, and which they are.                 *)
Whose ==
  IF port = "window" THEN "window" ELSE IF svc.pipe THEN "service" ELSE "nobody"

Source == IF Whose \in Process THEN reg[Whose] ELSE <<>>

(* The paints among the closures posted.                                    *)
Paints(q) == {i \in DOMAIN q : q[i].do = "paint"}

(* The history variable only watches: after a change of what should be      *)
(* shown, or a status query that fails, the paints on their way and that of *)
(* the tick in progress do not count.                                       *)
Watch ==
  behind' =
    IF <<Whose, Source>>' # <<Whose, Source>> \/ (tick.at = "query" /\ faults' # faults)
      THEN Cardinality(Paints(gui'))
             + (IF tick'.at = "idle" THEN 0 ELSE 1) + 1
      ELSE IF Len(gui') < Len(gui) /\ Head(gui).do = "paint" /\ behind > 0
             THEN behind - 1 ELSE behind

Step ==
  \/ \E s \in Session : Handle(s) \/ Phone(s)
  \/ Service \/ ApplyGivesUp \/ OtherReleases
  \/ Subscribe \/ Populate \/ RunGui
  \/ Tick

Next == Step /\ Watch

Spec == Init /\ [][Next]_vars

(* The goroutines of the program run: sessions, once authenticated, the     *)
(* ticker, the window's thread and the status pipe.  Phones, the service    *)
(* and other programs are free.                                             *)
Fairness ==
  /\ \A s \in Session : WF_vars(Handle(s) /\ Watch)
  /\ WF_vars(Tick /\ Watch) /\ WF_vars(RunGui /\ Watch)
  /\ WF_vars((Subscribe \/ Populate) /\ Watch) /\ WF_vars(PipeListens /\ Watch)

FairSpec == Spec /\ Fairness

-----------------------------------------------------------------------------
(* Properties.                                                              *)

(* The stand-alone window is up to date (server/README.md:25, a live list   *)
(* of the devices online) as soon as it has drawn what was posted to it and *)
(* no session is between its registry change and the notification of it:    *)
(* registration and notification are not atomic, and the window subscribes  *)
(* while phones are connecting, but no change is lost between them.         *)
StandaloneLive ==
  (/\ mode = "standalone" /\ populated /\ gui = <<>>
   /\ \A s \in Session : phase[s] \notin {"joining", "leaving"})
    => shown = reg["window"]

(* The panel is at most one tick behind (server/README.md:34): when a tick  *)
(* that began after the last change has been painted, the list is that of   *)
(* who serves, and no push, snapshot or status query from before replaces   *)
(* it, whatever phones that linger with the panel do in service mode.       *)
UpToDate == mode = "panel" /\ behind = 0 => shown = Source

(* The phones that are connected to whoever is serving.                     *)
Connected ==
  {s \in Session : /\ phase[s] \in {"joining", "serving"}
                   /\ \/ at[s] = "window" /\ port = "window"
                      \/ at[s] = "service" /\ port # "window"}

(* When phones and the service come to rest, the list settles on exactly    *)
(* the phones connected, each once.                                         *)
Converges ==
  <>[](/\ {shown[i] : i \in DOMAIN shown} = Connected
       /\ Len(shown) = Cardinality(Connected))

=============================================================================
