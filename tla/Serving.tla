------------------------------ MODULE Serving ------------------------------
(***************************************************************************)
(* Who serves the phones on Windows: the control panel's                   *)
(* servingController (server/serving_windows.go), driven by the panel's    *)
(* one-second ticker and by Save & Apply (ui_panel_windows.go), and the    *)
(* service process with its retrying listener (service_windows.go).        *)
(*                                                                         *)
(* They agree through two things only: the service state that the panel    *)
(* polls from the service manager, and the TCP ports, each of which one    *)
(* process at a time can listen on.  The controller's mutex serialises     *)
(* Start, Stop and Apply, but between the system calls of an Apply the     *)
(* service or any other program can take a port.                           *)
(***************************************************************************)
EXTENDS Naturals

CONSTANTS
  Port,     (* the TCP ports a configuration may name                       *)
  Name,     (* display names                                                *)
  Pass,     (* passwords                                                    *)
  None,     (* no port, no server, no announcement                          *)
  Budget    (* how many events of each kind a behaviour may contain         *)

(* What is bounded: Save & Apply, starts of the service, its crashes, ports *)
(* taken by other programs, failing status queries.                         *)
Event == {"apply", "start", "crash", "other", "query"}

(* Status polls of the panel, from reading the state to acting on it, that *)
(* fit into the five seconds of listenTCPRetry whatever their phase.        *)
TicksWithinRetry == 2

Conf   == [port : Port, name : Name, pass : Pass]
Advert == [port : Port, name : Name]
Server == [name : Name, pass : Pass]

ASSUME ConstantsOK ==
  /\ None \notin Port
  /\ None \notin Advert
  /\ Budget \in [Event -> Nat]

VARIABLES
  bound,     (* per port, the process that listens on it; "old" is a        *)
             (* service process that is stopped but has not exited yet      *)
  cfg,       (* servingController.cfg                                       *)
  running,   (* servingController.running                                   *)
  ln,        (* servingController.ln, as its port                           *)
  srv,       (* servingController.srv                                       *)
  zc,        (* servingController.zc                                        *)
  adverts,   (* the panel's announcements that have not been shut down      *)
  apc,       (* where Apply is; it holds the mutex unless idle              *)
  prev,      (* Apply's local old                                           *)
  tick,      (* the ticker: idle, or about to Start or to Stop              *)
  ticks,     (* ticks completed while the service tries to listen           *)
  scm,       (* the service as the service manager reports it               *)
  core,      (* runServiceCore: none, pipe, retry, serving, deaf            *)
  scfg,      (* the configuration the service has read                      *)
  old,       (* whether a stopped service process still has to exit         *)
  dropped,   (* history: both binds of some Apply have failed               *)
  left       (* what is left of Budget                                      *)

ctrl    == <<cfg, running, ln, srv, zc, adverts>>
apply   == <<apc, prev>>
ticker  == <<tick, ticks>>
service == <<scm, core, scfg, old>>
history == <<dropped, left>>
vars    == <<bound, ctrl, apply, ticker, service, history>>

TypeOK ==
  /\ bound \in [Port -> {"nobody", "ui", "svc", "old", "other"}]
  /\ cfg \in Conf
  /\ running \in BOOLEAN
  /\ ln \in Port \cup {None}
  /\ srv \in Server \cup {None}
  /\ zc \in Advert \cup {None}
  /\ adverts \subseteq Advert
  /\ apc \in {"idle", "bind", "rollback"}
  /\ prev \in Conf
  /\ tick \in {"idle", "start", "stop"}
  /\ ticks \in 0..TicksWithinRetry
  /\ scm \in {"stopped", "running", "stopping"}
  /\ core \in {"none", "pipe", "retry", "serving", "deaf"}
  /\ scfg \in Conf
  /\ old \in BOOLEAN
  /\ dropped \in BOOLEAN
  /\ left \in [Event -> Nat]

-----------------------------------------------------------------------------
(* Helpers.                                                                 *)

Spend(kind) ==
  /\ left[kind] > 0
  /\ left' = [left EXCEPT ![kind] = @ - 1]
  /\ UNCHANGED dropped

ServerOf(c) == [name |-> c.name, pass |-> c.pass]
AdvertOf(c) == [port |-> c.port, name |-> c.name]

Free(p) == bound[p] = "nobody"

Bind(p, who) == bound' = [bound EXCEPT ![p] = who]

Release(p) == bound' = [bound EXCEPT ![p] = "nobody"]

needsRebind(a, b) == a.port # b.port

needsReannounce(a, b) == a.port # b.port \/ a.name # b.name

(* Planted bug: the panel always serves. *)
wantStandaloneAlways(serviceRunning) == TRUE

wantStandalone(serviceRunning) == ~serviceRunning

(* Planted bug: a failed announcement counts as one. *)
AnnounceUnchecked(c, live) ==
  \E z \in {AdvertOf(c), None} : zc' = z /\ adverts' = live \cup {z}

(* announceMDNS: c.zc becomes the new announcement, or nil if it failed.    *)
(* What c.zc was is not shut down here.                                     *)
Announce(c, live) ==
  \/ zc' = AdvertOf(c) /\ adverts' = live \cup {AdvertOf(c)}
  \/ zc' = None /\ adverts' = live

(* Planted bug: the announcement in place is not shut down. *)
ShutdownNothing == adverts

Shutdown == adverts \ {zc}

-----------------------------------------------------------------------------
(* The controller.                                                          *)

TickDone ==
  /\ tick' = "idle"
  /\ ticks' = IF core = "retry" /\ ticks < TicksWithinRetry THEN ticks + 1 ELSE ticks

(* Start, on the ticker; its error is ignored and the next tick tries again. *)
Start ==
  /\ tick = "start" /\ apc = "idle"
  /\ TickDone
  /\ IF running
       THEN UNCHANGED <<bound, running, ln, srv, zc, adverts>>
       ELSE /\ srv' = ServerOf(cfg)
            /\ IF Free(cfg.port)
                 THEN /\ Bind(cfg.port, "ui")
                      /\ ln' = cfg.port
                      /\ Announce(cfg, adverts)
                      /\ running' = TRUE
                 ELSE UNCHANGED <<bound, running, ln, zc, adverts>>
  /\ UNCHANGED <<cfg, apply, service, history>>

Stop ==
  /\ tick = "stop" /\ apc = "idle"
  /\ TickDone
  /\ IF running
       THEN /\ adverts' = Shutdown
            /\ zc' = None
            /\ Release(ln)
            /\ ln' = None
            /\ running' = FALSE
       ELSE UNCHANGED <<bound, running, ln, zc, adverts>>
  /\ UNCHANGED <<cfg, srv, apply, service, history>>

(* Apply up to the point where the old listener is closed; all of it when   *)
(* the controller is not running or the port stays the same.                *)
ApplyBegin(next) ==
  /\ apc = "idle"
  /\ Spend("apply")
  /\ cfg' = next
  /\ IF ~running
       THEN UNCHANGED <<bound, srv, zc, adverts, apply>>
       ELSE /\ srv' = ServerOf(next)
            /\ IF needsRebind(cfg, next)
                 THEN /\ Release(ln)
                      /\ apc' = "bind" /\ prev' = cfg
                      /\ UNCHANGED <<zc, adverts>>
                 ELSE /\ IF needsReannounce(cfg, next)
                           THEN Announce(next, Shutdown)
                           ELSE UNCHANGED <<zc, adverts>>
                      /\ UNCHANGED <<bound, apply>>
  /\ UNCHANGED <<running, ln, ticker, service>>

(* The new port is free: serve and announce there.                          *)
ApplyBinds ==
  /\ apc = "bind"
  /\ Free(cfg.port)
  /\ Bind(cfg.port, "ui")
  /\ ln' = cfg.port
  /\ Announce(cfg, Shutdown)
  /\ apc' = "idle"
  /\ UNCHANGED <<cfg, running, srv, prev, ticker, service, history>>

ApplyBindFails ==
  /\ apc = "bind"
  /\ ~Free(cfg.port)
  /\ apc' = "rollback"
  /\ UNCHANGED <<bound, ctrl, prev, ticker, service, history>>

(* Planted bug: the port goes back, the name does not. *)
ApplyRollsPortBack ==
  /\ apc = "rollback"
  /\ Free(prev.port)
  /\ Bind(prev.port, "ui")
  /\ ln' = prev.port
  /\ cfg' = [cfg EXCEPT !.port = prev.port]
  /\ apc' = "idle"
  /\ UNCHANGED <<running, srv, zc, adverts, prev, ticker, service, history>>

(* Back to the old port, under the old name, with the new password.         *)
ApplyRollsBack ==
  /\ apc = "rollback"
  /\ Free(prev.port)
  /\ Bind(prev.port, "ui")
  /\ ln' = prev.port
  /\ cfg' = [cfg EXCEPT !.port = prev.port, !.name = prev.name]
  /\ srv' = [srv EXCEPT !.name = prev.name]
  /\ apc' = "idle"
  /\ UNCHANGED <<running, zc, adverts, prev, ticker, service, history>>

(* Both binds failed: stopped, with the announcement still in place.        *)
ApplyGivesUp ==
  /\ apc = "rollback"
  /\ ~Free(prev.port)
  /\ ln' = None
  /\ running' = FALSE
  /\ apc' = "idle"
  /\ dropped' = TRUE
  /\ UNCHANGED <<bound, cfg, srv, zc, adverts, prev, ticker, service, left>>

(* The ticker reads the service state; what it can't read is not running.   *)
Look ==
  /\ tick = "idle"
  /\ \/ /\ tick' = IF wantStandalone(scm = "running") THEN "start" ELSE "stop"
        /\ UNCHANGED history
     \/ /\ Spend("query")
        /\ tick' = IF wantStandalone(FALSE) THEN "start" ELSE "stop"
  /\ UNCHANGED <<bound, ctrl, apply, ticks, service>>

-----------------------------------------------------------------------------
(* The service process.                                                     *)

(* Execute reports RUNNING while runServiceCore reads its configuration.    *)
ServiceStarts ==
  /\ scm = "stopped"
  /\ Spend("start")
  /\ scm' = "running"
  /\ core' = "pipe"
  /\ scfg' \in Conf
  /\ UNCHANGED <<bound, ctrl, apply, ticker, old>>

(* The inject pipe can't be opened while an earlier process still has it.   *)
PipeInUse ==
  /\ core = "pipe"
  /\ old
  /\ scm' = "stopped" /\ core' = "none"
  /\ UNCHANGED <<bound, ctrl, apply, ticker, scfg, old, history>>

PipeListens ==
  /\ core = "pipe"
  /\ ~old
  /\ core' = "retry"
  /\ ticks' = 0
  /\ UNCHANGED <<bound, ctrl, apply, tick, scm, scfg, old, history>>

Listens ==
  /\ core = "retry"
  /\ Free(scfg.port)
  /\ Bind(scfg.port, "svc")
  /\ core' = "serving"
  /\ UNCHANGED <<ctrl, apply, ticker, scm, scfg, old, history>>

(* Planted bug: one attempt, no retry. *)
PatienceNone == TRUE

(* Five seconds of attempts are over. *)
PatienceOver == ticks = TicksWithinRetry

(* listenTCPRetry returns its error; the service runs on without a listener. *)
GivesUp ==
  /\ core = "retry"
  /\ ~Free(scfg.port)
  /\ PatienceOver
  /\ core' = "deaf"
  /\ UNCHANGED <<bound, ctrl, apply, ticker, scm, scfg, old, history>>

ServiceStops ==
  /\ scm = "running"
  /\ scm' = "stopping"
  /\ UNCHANGED <<bound, ctrl, apply, ticker, core, scfg, old, history>>

(* The state is STOPPED as soon as Execute has returned, which waits for    *)
(* nothing: the process keeps its port and pipe until it exits.             *)
ReportsStopped ==
  /\ scm = "stopping"
  /\ scm' = "stopped"
  /\ core' = "none"
  /\ old' = TRUE
  /\ bound' = [p \in Port |-> IF bound[p] = "svc" THEN "old" ELSE bound[p]]
  /\ UNCHANGED <<ctrl, apply, ticker, scfg, history>>

OldExits ==
  /\ old
  /\ old' = FALSE
  /\ bound' = [p \in Port |-> IF bound[p] = "old" THEN "nobody" ELSE bound[p]]
  /\ UNCHANGED <<ctrl, apply, ticker, scm, core, scfg, history>>

Crashes ==
  /\ scm # "stopped"
  /\ Spend("crash")
  /\ scm' = "stopped"
  /\ core' = "none"
  /\ bound' = [p \in Port |-> IF bound[p] = "svc" THEN "nobody" ELSE bound[p]]
  /\ UNCHANGED <<ctrl, apply, ticker, scfg, old>>

OtherTakes(p) ==
  /\ Free(p)
  /\ Spend("other")
  /\ Bind(p, "other")
  /\ UNCHANGED <<ctrl, apply, ticker, service>>

OtherReleases(p) ==
  /\ bound[p] = "other"
  /\ Release(p)
  /\ UNCHANGED <<ctrl, apply, ticker, service, history>>

-----------------------------------------------------------------------------

Init ==
  /\ bound = [p \in Port |-> "nobody"]
  /\ cfg \in Conf
  /\ running = FALSE
  /\ ln = None /\ srv = None /\ zc = None /\ adverts = {}
  /\ apc = "idle" /\ prev = cfg
  /\ tick = "idle" /\ ticks = 0
  /\ scm = "stopped" /\ core = "none" /\ scfg = cfg /\ old = FALSE
  /\ dropped = FALSE
  /\ left = Budget

Applying == ApplyBinds \/ ApplyBindFails \/ ApplyRollsBack \/ ApplyGivesUp

Ticking == Look \/ Start \/ Stop

Serves == PipeInUse \/ PipeListens \/ Listens \/ GivesUp

Next ==
  \/ \E next \in Conf : ApplyBegin(next)
  \/ Applying \/ Ticking \/ Serves
  \/ ServiceStarts \/ ServiceStops \/ ReportsStopped \/ OldExits \/ Crashes
  \/ \E p \in Port : OtherTakes(p) \/ OtherReleases(p)

Spec == Init /\ [][Next]_vars

(* Goroutines and processes that can run do; the attempts of a retrying    *)
(* listener come five times a second, so it finds a port that stays free.  *)
Fairness ==
  /\ WF_vars(Applying)
  /\ WF_vars(Ticking)
  /\ WF_vars(Serves)
  /\ WF_vars(ReportsStopped)
  /\ WF_vars(OldExits)

FairSpec == Spec /\ Fairness

-----------------------------------------------------------------------------
(* Properties.                                                              *)

(* Whenever the mutex is free, a running controller listens on the port of *)
(* its configuration and nowhere else, checks the configured password, and *)
(* presents and announces the configured name and port, if any: also after *)
(* a rebind that failed and was rolled back while other programs took and  *)
(* released ports (serving_windows.go:123-130).  Stopped, it listens       *)
(* nowhere.                                                                *)
Consistent ==
  apc = "idle" =>
    /\ {p \in Port : bound[p] = "ui"} = (IF running THEN {cfg.port} ELSE {})
    /\ running => ln = cfg.port /\ srv = ServerOf(cfg) /\ zc \in {None, AdvertOf(cfg)}

(* Every announcement the panel has out is the one it can still shut down, *)
(* as long as no Apply has failed to bind both the new and the old port:   *)
(* then the announcement stays up after running and ln are cleared         *)
(* (serving_windows.go:132-138).                                           *)
AdvertsOwned == ~dropped => adverts = {zc} \ {None}

(* The service gives up its port only to another program, never because    *)
(* the panel was slow to let go of it: listenTCPRetry "closes that handoff *)
(* window" (service_windows.go:361-365), also against a tick that had read *)
(* the old state, and against an Apply under way.  A failing status query  *)
(* would make the panel take the service for stopped.                      *)
NoQueryFailed == left["query"] = Budget["query"]

GaveUpToPanel ==
  core = "retry" /\ core' = "deaf" /\ scm = "running" /\ NoQueryFailed
    => bound[scfg.port] # "ui"

(* GaveUpToPanel of no step. *)
HandoffWorks == [][GaveUpToPanel]_vars

(* One of the two serves, the service if it runs, the panel otherwise.     *)
OneServes ==
  IF scm = "running" THEN ~running /\ core \in {"serving", "deaf"}
                     ELSE running \/ ~Free(cfg.port)

(* However starts, stops, crashes, restarts and configuration changes were *)
(* interleaved, in the end exactly one of the two serves.                  *)
SettlesDown == <>[]OneServes

=============================================================================
