--------------------------- MODULE ServingProofs ---------------------------
(***************************************************************************)
(* What holds of the serving controller and the port hand-over for all     *)
(* ports, names and passwords and every budget of events.                  *)
(*                                                                         *)
(* While Apply holds the mutex the controller is running without a port:   *)
(* ApplyInv says what its way out - a new port, the old one, or none - can *)
(* rely on.  Everything else is what the controller is when nobody holds   *)
(* the mutex.                                                              *)
(***************************************************************************)
EXTENDS Serving, TLAPS

(* The mutex is free: the controller is up as configured, or down. *)
IdleInv ==
  apc = "idle" =>
    /\ \A p \in Port : bound[p] = "ui" <=> running /\ p = cfg.port
    /\ running => ln = cfg.port /\ srv = ServerOf(cfg) /\ zc \in {None, AdvertOf(cfg)}

(* Apply is between two ports: the server has the new identity already,    *)
(* the announcement is still the old one.                                  *)
ApplyInv ==
  apc # "idle" =>
    /\ running
    /\ \A p \in Port : bound[p] # "ui"
    /\ srv = ServerOf(cfg)
    /\ zc \in {None, AdvertOf(prev)}

(* A controller that went down in good order has nothing announced. *)
AdvertInv ==
  ~dropped => /\ adverts = {zc} \ {None}
              /\ ~running => zc = None

IInv == TypeOK /\ IdleInv /\ ApplyInv /\ AdvertInv

-----------------------------------------------------------------------------
(* Lemmas on single helpers. *)

(* What a configuration makes the server and the announcement. *)
LEMMA ConfTypes ==
  ASSUME NEW c \in Conf
  PROVE  /\ c.port \in Port
         /\ ServerOf(c) \in Server
         /\ AdvertOf(c) \in Advert
         /\ AdvertOf(c) # None
  BY ConstantsOK DEF ConstantsOK, Conf, Server, Advert, ServerOf, AdvertOf

(* A unit of budget more or less is still a budget. *)
LEMMA SpendTypes ==
  ASSUME left \in [Event -> Nat], NEW k \in Event, Spend(k)
  PROVE  left' \in [Event -> Nat] /\ dropped' = dropped
  BY DEF Spend

(* The initial state satisfies the invariant. *)
LEMMA InitOK == Init => IInv
<1> SUFFICES ASSUME Init PROVE IInv
  OBVIOUS
<1>1. TypeOK
  <2>1. left \in [Event -> Nat]
    BY ConstantsOK DEF ConstantsOK, Init
  <2>2. ticks \in 0..TicksWithinRetry
    BY DEF Init, TicksWithinRetry
  <2> QED
    BY <2>1, <2>2 DEF Init, TypeOK
<1>2. IdleInv /\ ApplyInv /\ AdvertInv
  BY DEF Init, IdleInv, ApplyInv, AdvertInv
<1> QED
  BY <1>1, <1>2 DEF IInv

(* A step that leaves the controller and the panel's ports alone. *)
LEMMA CtrlUntouched ==
  ASSUME IInv, TypeOK', UNCHANGED <<ctrl, apply, dropped>>,
         \A p \in Port : bound'[p] = "ui" <=> bound[p] = "ui"
  PROVE  IInv'
<1>1. IdleInv'
  BY DEF IInv, IdleInv, ctrl, apply
<1>2. ApplyInv'
  BY DEF IInv, ApplyInv, ctrl, apply
<1>3. AdvertInv'
  BY DEF IInv, AdvertInv, ctrl
<1> QED
  BY <1>1, <1>2, <1>3 DEF IInv

-----------------------------------------------------------------------------
(* The steps that do not touch the controller. *)

(* The ticker reads the service state. *)
LEMMA LookStep == ASSUME IInv, Look PROVE IInv'
<1>1. left' \in [Event -> Nat] /\ dropped' = dropped
  BY SpendTypes DEF Look, IInv, TypeOK, Event, history
<1>2. /\ tick' \in {"start", "stop"}
      /\ UNCHANGED <<bound, ctrl, apply, ticks, service>>
  BY DEF Look
<1>3. TypeOK'
  BY <1>1, <1>2 DEF IInv, TypeOK, ctrl, apply, service
<1> QED
  BY <1>1, <1>2, <1>3, CtrlUntouched

(* The service process starts, opens its pipe, listens or gives up. *)
LEMMA ServesStep == ASSUME IInv, ServiceStarts \/ Serves PROVE IInv'
<1>1. left' \in [Event -> Nat] /\ dropped' = dropped
  BY SpendTypes DEF ServiceStarts, Serves, PipeInUse, PipeListens, Listens, GivesUp,
     IInv, TypeOK, Event, history
<1>2. UNCHANGED <<ctrl, apply>>
  BY DEF ServiceStarts, Serves, PipeInUse, PipeListens, Listens, GivesUp
<1>3. \A p \in Port : bound'[p] = "ui" <=> bound[p] = "ui"
  BY DEF ServiceStarts, Serves, PipeInUse, PipeListens, Listens, GivesUp,
     Free, Bind, IInv, TypeOK
<1>4. bound' \in [Port -> {"nobody", "ui", "svc", "old", "other"}]
  BY DEF ServiceStarts, Serves, PipeInUse, PipeListens, Listens, GivesUp, Bind, IInv, TypeOK
<1>5. /\ tick' \in {"idle", "start", "stop"}
      /\ ticks' \in 0..TicksWithinRetry
      /\ scm' \in {"stopped", "running", "stopping"}
      /\ core' \in {"none", "pipe", "retry", "serving", "deaf"}
      /\ scfg' \in Conf
      /\ old' \in BOOLEAN
  BY DEF ServiceStarts, Serves, PipeInUse, PipeListens, Listens, GivesUp, ticker,
     TicksWithinRetry, IInv, TypeOK
<1>6. TypeOK'
  BY <1>1, <1>2, <1>4, <1>5 DEF IInv, TypeOK, ctrl, apply
<1> QED
  BY <1>1, <1>2, <1>3, <1>6, CtrlUntouched

(* The service process ends, one way or the other. *)
LEMMA EndsStep ==
  ASSUME IInv, ServiceStops \/ ReportsStopped \/ OldExits \/ Crashes PROVE IInv'
<1>1. left' \in [Event -> Nat] /\ dropped' = dropped
  BY SpendTypes DEF ServiceStops, ReportsStopped, OldExits, Crashes, IInv, TypeOK, Event, history
<1>2. UNCHANGED <<ctrl, apply, ticker>>
  BY DEF ServiceStops, ReportsStopped, OldExits, Crashes
<1>3. /\ \A p \in Port : bound'[p] = "ui" <=> bound[p] = "ui"
      /\ bound' \in [Port -> {"nobody", "ui", "svc", "old", "other"}]
  BY DEF ServiceStops, ReportsStopped, OldExits, Crashes, IInv, TypeOK
<1>4. /\ scm' \in {"stopped", "running", "stopping"}
      /\ core' \in {"none", "pipe", "retry", "serving", "deaf"}
      /\ scfg' \in Conf
      /\ old' \in BOOLEAN
  BY DEF ServiceStops, ReportsStopped, OldExits, Crashes, IInv, TypeOK
<1>5. TypeOK'
  BY <1>1, <1>2, <1>3, <1>4 DEF IInv, TypeOK, ctrl, apply, ticker
<1> QED
  BY <1>1, <1>2, <1>3, <1>5, CtrlUntouched

(* Another program takes or releases a port. *)
LEMMA OtherStep ==
  ASSUME IInv, NEW p \in Port, OtherTakes(p) \/ OtherReleases(p) PROVE IInv'
<1>1. left' \in [Event -> Nat] /\ dropped' = dropped
  BY SpendTypes DEF OtherTakes, OtherReleases, IInv, TypeOK, Event, history
<1>2. UNCHANGED <<ctrl, apply, ticker, service>>
  BY DEF OtherTakes, OtherReleases
<1>3. /\ \A q \in Port : bound'[q] = "ui" <=> bound[q] = "ui"
      /\ bound' \in [Port -> {"nobody", "ui", "svc", "old", "other"}]
  BY DEF OtherTakes, OtherReleases, Free, Bind, Release, IInv, TypeOK
<1>4. TypeOK'
  BY <1>1, <1>2, <1>3 DEF IInv, TypeOK, ctrl, apply, ticker, service
<1> QED
  BY <1>1, <1>2, <1>3, <1>4, CtrlUntouched

-----------------------------------------------------------------------------
(* The controller. *)

(* The step of the ticker is over and its count keeps its bounds. *)
LEMMA TickTypes ==
  ASSUME ticks \in 0..TicksWithinRetry, TickDone
  PROVE  tick' = "idle" /\ ticks' \in 0..TicksWithinRetry
  BY DEF TickDone, TicksWithinRetry

(* Start: nothing, a server without a port, or the whole stack. *)
LEMMA StartStep == ASSUME IInv, Start PROVE IInv'
<1>1. /\ tick' = "idle" /\ ticks' \in 0..TicksWithinRetry
      /\ UNCHANGED <<cfg, apply, service, history>> /\ apc = "idle"
  BY TickTypes DEF Start, IInv, TypeOK
<1>2. ServerOf(cfg) \in Server /\ AdvertOf(cfg) \in Advert /\ AdvertOf(cfg) # None
      /\ cfg.port \in Port
  BY ConfTypes DEF IInv, TypeOK
<1>3. CASE running
  <2>1. UNCHANGED <<bound, running, ln, srv, zc, adverts>>
    BY <1>3 DEF Start
  <2>2. TypeOK'
    BY <1>1, <2>1 DEF IInv, TypeOK, apply, service, history
  <2> QED
    BY <1>1, <2>1, <2>2, CtrlUntouched DEF ctrl, history
<1>4. CASE ~running /\ ~Free(cfg.port)
  <2>1. srv' = ServerOf(cfg) /\ UNCHANGED <<bound, running, ln, zc, adverts>>
    BY <1>4 DEF Start
  <2>2. TypeOK'
    BY <1>1, <1>2, <2>1 DEF IInv, TypeOK, apply, service, history
  <2>3. IdleInv' /\ ApplyInv' /\ AdvertInv'
    BY <1>1, <1>4, <2>1 DEF IInv, IdleInv, ApplyInv, AdvertInv, apply, history
  <2> QED
    BY <2>2, <2>3 DEF IInv
<1>5. CASE ~running /\ Free(cfg.port)
  <2>1. /\ srv' = ServerOf(cfg) /\ ln' = cfg.port /\ running' = TRUE
        /\ bound' = [bound EXCEPT ![cfg.port] = "ui"]
        /\ \/ zc' = AdvertOf(cfg) /\ adverts' = adverts \cup {AdvertOf(cfg)}
           \/ zc' = None /\ adverts' = adverts
    BY <1>5 DEF Start, Bind, Announce
  <2>2. TypeOK'
    BY <1>1, <1>2, <2>1 DEF IInv, TypeOK, apply, service, history
  <2>3. IdleInv'
    BY <1>1, <1>2, <1>5, <2>1 DEF IInv, TypeOK, IdleInv
  <2>4. ApplyInv'
    BY <1>1 DEF ApplyInv, apply
  <2>5. AdvertInv'
    BY <1>1, <1>2, <1>5, <2>1 DEF IInv, AdvertInv, history
  <2> QED
    BY <2>2, <2>3, <2>4, <2>5 DEF IInv
<1> QED
  BY <1>3, <1>4, <1>5

(* Stop: nothing, or the port and the announcement are given up. *)
LEMMA StopStep == ASSUME IInv, Stop PROVE IInv'
<1>1. /\ tick' = "idle" /\ ticks' \in 0..TicksWithinRetry
      /\ UNCHANGED <<cfg, srv, apply, service, history>> /\ apc = "idle"
  BY TickTypes DEF Stop, IInv, TypeOK, history
<1>2. CASE ~running
  <2>1. UNCHANGED <<bound, running, ln, zc, adverts>>
    BY <1>2 DEF Stop
  <2>2. TypeOK'
    BY <1>1, <2>1 DEF IInv, TypeOK, apply, service, history
  <2> QED
    BY <1>1, <2>1, <2>2, CtrlUntouched DEF ctrl, history
<1>3. CASE running
  <2>1. /\ adverts' = adverts \ {zc} /\ zc' = None
        /\ ln = cfg.port /\ ln' = None /\ running' = FALSE
        /\ bound' = [bound EXCEPT ![cfg.port] = "nobody"]
    BY <1>1, <1>3 DEF Stop, Shutdown, Release, IInv, IdleInv
  <2>2. TypeOK'
    BY <1>1, <2>1 DEF IInv, TypeOK, apply, service, history
  <2>3. IdleInv' /\ ApplyInv'
    BY <1>1, <1>3, <2>1 DEF IInv, TypeOK, IdleInv, ApplyInv, apply
  <2>4. AdvertInv'
    BY <1>1, <2>1 DEF IInv, AdvertInv, history
  <2> QED
    BY <2>2, <2>3, <2>4 DEF IInv
<1> QED
  BY <1>2, <1>3

(* Apply begins: record the configuration, and refresh what is up. *)
LEMMA ApplyBeginStep == ASSUME IInv, NEW next \in Conf, ApplyBegin(next) PROVE IInv'
<1>1. left' \in [Event -> Nat] /\ dropped' = dropped
  BY SpendTypes DEF ApplyBegin, IInv, TypeOK, Event
<1>2. /\ cfg' = next /\ UNCHANGED <<running, ln, ticker, service>> /\ apc = "idle"
  BY DEF ApplyBegin
<1>3. /\ ServerOf(next) \in Server /\ AdvertOf(next) \in Advert /\ AdvertOf(next) # None
      /\ cfg.port \in Port /\ next.port \in Port
  BY ConfTypes DEF IInv, TypeOK
<1>4. CASE ~running
  <2>1. UNCHANGED <<bound, srv, zc, adverts, apply>>
    BY <1>4 DEF ApplyBegin
  <2>2. TypeOK'
    BY <1>1, <1>2, <2>1 DEF IInv, TypeOK, apply, ticker, service
  <2>3. IdleInv' /\ ApplyInv' /\ AdvertInv'
    BY <1>1, <1>2, <1>4, <2>1 DEF IInv, TypeOK, IdleInv, ApplyInv, AdvertInv, apply
  <2> QED
    BY <2>2, <2>3 DEF IInv
<1>5. CASE running /\ needsRebind(cfg, next)
  <2>1. /\ srv' = ServerOf(next) /\ ln = cfg.port
        /\ bound' = [bound EXCEPT ![cfg.port] = "nobody"]
        /\ apc' = "bind" /\ prev' = cfg
        /\ UNCHANGED <<zc, adverts>>
    BY <1>2, <1>5 DEF ApplyBegin, Release, IInv, IdleInv
  <2>2. TypeOK'
    BY <1>1, <1>2, <1>3, <2>1 DEF IInv, TypeOK, ticker, service
  <2>3. IdleInv' /\ ApplyInv'
    BY <1>2, <1>5, <2>1 DEF IInv, TypeOK, IdleInv, ApplyInv
  <2>4. AdvertInv'
    BY <1>1, <1>2, <2>1 DEF IInv, AdvertInv
  <2> QED
    BY <2>2, <2>3, <2>4 DEF IInv
<1>6. CASE running /\ ~needsRebind(cfg, next)
  <2>1. /\ srv' = ServerOf(next) /\ next.port = cfg.port
        /\ UNCHANGED <<bound, apply>>
    BY <1>6 DEF ApplyBegin, needsRebind
  <2>2. CASE needsReannounce(cfg, next)
    <3>1. \/ zc' = AdvertOf(next) /\ adverts' = (adverts \ {zc}) \cup {AdvertOf(next)}
          \/ zc' = None /\ adverts' = adverts \ {zc}
      BY <1>6, <2>2 DEF ApplyBegin, Announce, Shutdown
    <3>2. TypeOK'
      BY <1>1, <1>2, <1>3, <2>1, <3>1 DEF IInv, TypeOK, apply, ticker, service
    <3>3. IdleInv' /\ ApplyInv'
      BY <1>2, <1>6, <2>1, <3>1 DEF IInv, IdleInv, ApplyInv, apply
    <3>4. AdvertInv'
      BY <1>1, <1>2, <1>3, <1>6, <3>1 DEF IInv, AdvertInv
    <3> QED
      BY <3>2, <3>3, <3>4 DEF IInv
  <2>3. CASE ~needsReannounce(cfg, next)
    <3>1. UNCHANGED <<zc, adverts>>
      BY <1>6, <2>3 DEF ApplyBegin
    <3>2. AdvertOf(next) = AdvertOf(cfg)
      BY <2>3 DEF needsReannounce, AdvertOf
    <3>3. TypeOK'
      BY <1>1, <1>2, <1>3, <2>1, <3>1 DEF IInv, TypeOK, apply, ticker, service
    <3>4. IdleInv' /\ ApplyInv' /\ AdvertInv'
      BY <1>1, <1>2, <1>6, <2>1, <3>1, <3>2 DEF IInv, IdleInv, ApplyInv, AdvertInv, apply
    <3> QED
      BY <3>3, <3>4 DEF IInv
  <2> QED
    BY <2>2, <2>3
<1> QED
  BY <1>4, <1>5, <1>6

(* Apply ends: on the new port, on the old one, or stopped. *)
LEMMA ApplyingStep == ASSUME IInv, Applying PROVE IInv'
<1>1. /\ ServerOf(cfg) \in Server /\ AdvertOf(cfg) \in Advert /\ AdvertOf(cfg) # None
      /\ cfg.port \in Port /\ prev.port \in Port
  BY ConfTypes DEF IInv, TypeOK
<1>2. CASE ApplyBinds
  <2>1. /\ apc = "bind" /\ apc' = "idle"
        /\ bound' = [bound EXCEPT ![cfg.port] = "ui"] /\ ln' = cfg.port
        /\ \/ zc' = AdvertOf(cfg) /\ adverts' = (adverts \ {zc}) \cup {AdvertOf(cfg)}
           \/ zc' = None /\ adverts' = adverts \ {zc}
        /\ UNCHANGED <<cfg, running, srv, prev, ticker, service, history>>
    BY <1>2 DEF ApplyBinds, Bind, Announce, Shutdown
  <2>2. TypeOK'
    BY <1>1, <2>1 DEF IInv, TypeOK, ticker, service, history
  <2>3. IdleInv' /\ ApplyInv'
    BY <1>1, <2>1 DEF IInv, TypeOK, IdleInv, ApplyInv
  <2>4. AdvertInv'
    BY <1>1, <2>1 DEF IInv, ApplyInv, AdvertInv, history
  <2> QED
    BY <2>2, <2>3, <2>4 DEF IInv
<1>3. CASE ApplyBindFails
  <2>1. /\ apc = "bind" /\ apc' = "rollback"
        /\ UNCHANGED <<bound, ctrl, prev, ticker, service, history>>
    BY <1>3 DEF ApplyBindFails
  <2>2. TypeOK'
    BY <2>1 DEF IInv, TypeOK, ctrl, ticker, service, history
  <2>3. IdleInv' /\ ApplyInv' /\ AdvertInv'
    BY <2>1 DEF IInv, IdleInv, ApplyInv, AdvertInv, ctrl, history
  <2> QED
    BY <2>2, <2>3 DEF IInv
<1>4. CASE ApplyRollsBack
  <2>1. /\ apc = "rollback" /\ apc' = "idle"
        /\ bound' = [bound EXCEPT ![prev.port] = "ui"] /\ ln' = prev.port
        /\ cfg' = [cfg EXCEPT !.port = prev.port, !.name = prev.name]
        /\ srv' = [srv EXCEPT !.name = prev.name]
        /\ UNCHANGED <<running, zc, adverts, prev, ticker, service, history>>
    BY <1>4 DEF ApplyRollsBack, Bind
  <2>2. /\ cfg' \in Conf /\ cfg'.port = prev.port /\ AdvertOf(cfg)' = AdvertOf(prev)
    BY <2>1 DEF IInv, TypeOK, Conf, AdvertOf
  <2>3. srv' = ServerOf(cfg)' /\ srv' \in Server
    BY <2>1 DEF IInv, TypeOK, ApplyInv, Conf, Server, ServerOf
  <2>4. TypeOK'
    BY <1>1, <2>1, <2>2, <2>3 DEF IInv, TypeOK, ticker, service, history
  <2>5. IdleInv' /\ ApplyInv'
    BY <1>1, <2>1, <2>2, <2>3 DEF IInv, TypeOK, IdleInv, ApplyInv
  <2>6. AdvertInv'
    BY <2>1 DEF IInv, AdvertInv, history
  <2> QED
    BY <2>4, <2>5, <2>6 DEF IInv
<1>5. CASE ApplyGivesUp
  <2>1. /\ apc = "rollback" /\ apc' = "idle" /\ ln' = None
        /\ running' = FALSE /\ dropped' = TRUE
        /\ UNCHANGED <<bound, cfg, srv, zc, adverts, prev, ticker, service, left>>
    BY <1>5 DEF ApplyGivesUp
  <2>2. TypeOK'
    BY <2>1 DEF IInv, TypeOK, ticker, service
  <2>3. IdleInv' /\ ApplyInv' /\ AdvertInv'
    BY <2>1 DEF IInv, IdleInv, ApplyInv, AdvertInv
  <2> QED
    BY <2>2, <2>3 DEF IInv
<1> QED
  BY <1>2, <1>3, <1>4, <1>5 DEF Applying

-----------------------------------------------------------------------------
(* The theorems. *)

(* No step breaks the invariant. *)
LEMMA NextOK == IInv /\ [Next]_vars => IInv'
<1> SUFFICES ASSUME IInv, [Next]_vars PROVE IInv'
  OBVIOUS
<1>1. CASE UNCHANGED vars
  <2>1. UNCHANGED <<bound, ctrl, apply, ticker, service, history>>
    BY <1>1 DEF vars
  <2>2. TypeOK'
    BY <2>1 DEF IInv, TypeOK, ctrl, apply, ticker, service, history
  <2> QED
    BY <2>1, <2>2, CtrlUntouched DEF history
<1>2. CASE \E next \in Conf : ApplyBegin(next)
  BY <1>2, ApplyBeginStep
<1>3. CASE Applying
  BY <1>3, ApplyingStep
<1>4. CASE Ticking
  BY <1>4, LookStep, StartStep, StopStep DEF Ticking
<1>5. CASE Serves \/ ServiceStarts
  BY <1>5, ServesStep
<1>6. CASE ServiceStops \/ ReportsStopped \/ OldExits \/ Crashes
  BY <1>6, EndsStep
<1>7. CASE \E p \in Port : OtherTakes(p) \/ OtherReleases(p)
  BY <1>7, OtherStep
<1> QED
  BY <1>1, <1>2, <1>3, <1>4, <1>5, <1>6, <1>7 DEF Next

(* The invariant behind the theorems holds of every reachable state. *)
THEOREM Invariance == Spec => []IInv
  BY InitOK, NextOK, PTL DEF Spec

(* Every variable keeps its type. *)
THEOREM TypeCorrect == Spec => []TypeOK
<1>1. IInv => TypeOK
  BY DEF IInv
<1> QED
  BY <1>1, Invariance, PTL

(* Listener, password, name and announcement agree with the configuration  *)
(* whenever the mutex is free, whatever servingController.Apply ran into.   *)
THEOREM ConsistentHolds == Spec => []Consistent
<1>1. IInv => Consistent
  <2> SUFFICES ASSUME IInv, apc = "idle"
               PROVE  /\ {p \in Port : bound[p] = "ui"} = (IF running THEN {cfg.port} ELSE {})
                      /\ running => ln = cfg.port /\ srv = ServerOf(cfg)
                                      /\ zc \in {None, AdvertOf(cfg)}
    BY DEF Consistent
  <2>1. cfg.port \in Port
    BY ConfTypes DEF IInv, TypeOK
  <2> QED
    BY <2>1 DEF IInv, IdleInv
<1> QED
  BY <1>1, Invariance, PTL

(* The panel's announcements are the one servingController.zc can shut     *)
(* down, until an Apply has failed both binds.                              *)
THEOREM AdvertsOwnedHolds == Spec => []AdvertsOwned
<1>1. IInv => AdvertsOwned
  BY DEF IInv, AdvertInv, AdvertsOwned
<1> QED
  BY <1>1, Invariance, PTL

-----------------------------------------------------------------------------
(* The hand-over of the port. *)

(* The ticks that complete while the service tries to listen: the first    *)
(* may still be a Start decided earlier, the second is a Stop.              *)
HandoffInv ==
  /\ left["query"] <= Budget["query"]
  /\ NoQueryFailed /\ core = "retry" /\ scm = "running" =>
       /\ ticks >= 1 => tick # "start"
       /\ ticks >= 2 => ~running

(* No step breaks HandoffInv. *)
LEMMA HandoffStep == IInv /\ HandoffInv /\ [Next]_vars => HandoffInv'
<1> SUFFICES ASSUME IInv, HandoffInv, [Next]_vars PROVE HandoffInv'
  OBVIOUS
<1> USE DEF HandoffInv
<1>0. "query" \in Event /\ left \in [Event -> Nat] /\ Budget \in [Event -> Nat]
  BY ConstantsOK DEF IInv, TypeOK, Event
<1>a. UNCHANGED left => (left'["query"] <= Budget["query"]) /\ (NoQueryFailed' <=> NoQueryFailed)
  BY DEF NoQueryFailed
<1>1. CASE UNCHANGED vars
  BY <1>1, <1>a DEF vars, ctrl, ticker, service, history
<1>2. ASSUME NEW k \in Event, Spend(k)
      PROVE  /\ left'["query"] <= Budget["query"]
             /\ NoQueryFailed' => NoQueryFailed /\ k # "query"
  <2>1. CASE k = "query"
    <3>1. left'["query"] = left["query"] - 1
      BY <1>0, <1>2, <2>1 DEF Spend
    <3>2. left["query"] \in Nat /\ Budget["query"] \in Nat
      BY <1>0
    <3> QED
      BY <3>1, <3>2 DEF NoQueryFailed
  <2>2. CASE k # "query"
    <3>1. left'["query"] = left["query"]
      BY <1>0, <1>2, <2>2 DEF Spend
    <3> QED
      BY <3>1, <2>2 DEF NoQueryFailed
  <2> QED
    BY <2>1, <2>2
<1>3. CASE \E next \in Conf : ApplyBegin(next)
  BY <1>2, <1>3 DEF ApplyBegin, Event, ticker, service
<1>4. CASE Applying
  BY <1>4, <1>a DEF Applying, ApplyBinds, ApplyBindFails, ApplyRollsBack, ApplyGivesUp,
     ctrl, ticker, service, history
<1>5. CASE Look
  <2>2. CASE Spend("query")
    BY <1>0, <1>2, <2>2
  <2>3. CASE ~Spend("query")
    <3>1. /\ tick' = IF scm = "running" THEN "stop" ELSE "start"
          /\ UNCHANGED <<running, ticks, core, scm, left>>
      BY <1>5, <2>3 DEF Look, wantStandalone, ctrl, service, history
    <3> QED
      BY <3>1, <1>a
  <2> QED
    BY <2>2, <2>3
<1>6. CASE Start
  <2>1. /\ tick = "start" /\ tick' = "idle"
        /\ ticks' = IF core = "retry" /\ ticks < 2 THEN ticks + 1 ELSE ticks
        /\ UNCHANGED <<core, scm, left>>
    BY <1>6 DEF Start, TickDone, TicksWithinRetry, service, history
  <2> QED
    BY <2>1, <1>a DEF IInv, TypeOK, TicksWithinRetry
<1>7. CASE Stop
  BY <1>7, <1>a DEF Stop, TickDone, service, history
<1>8. CASE Serves \/ ServiceStarts
  BY <1>2, <1>a, <1>8 DEF Serves, ServiceStarts, PipeInUse, PipeListens, Listens, GivesUp,
     Event, ctrl, ticker, history
<1>9. CASE ServiceStops \/ ReportsStopped \/ OldExits \/ Crashes
  BY <1>2, <1>a, <1>9 DEF ServiceStops, ReportsStopped, OldExits, Crashes, Event, ctrl, ticker, history
<1>10. CASE \E p \in Port : OtherTakes(p) \/ OtherReleases(p)
  BY <1>2, <1>a, <1>10 DEF OtherTakes, OtherReleases, Event, ctrl, ticker, service, history
<1> QED
  BY <1>1, <1>3, <1>4, <1>5, <1>6, <1>7, <1>8, <1>9, <1>10 DEF Next, Ticking

(* Only GivesUp ends the attempts, and by then the panel has no port. *)
LEMMA GivesUpOK == IInv /\ HandoffInv /\ [Next]_vars => [GaveUpToPanel]_vars
<1> SUFFICES ASSUME IInv, HandoffInv, Next,
                    core = "retry", core' = "deaf", scm = "running", NoQueryFailed
             PROVE  bound[scfg.port] # "ui"
  BY DEF GaveUpToPanel
<1>1. GivesUp
  BY DEF Next, ApplyBegin, Applying, ApplyBinds, ApplyBindFails, ApplyRollsBack, ApplyGivesUp,
     Ticking, Look, Start, Stop, Serves, PipeInUse, PipeListens, Listens, ServiceStarts,
     ServiceStops, ReportsStopped, OldExits, Crashes, OtherTakes, OtherReleases, service
<1>2. ~running
  BY <1>1 DEF GivesUp, PatienceOver, TicksWithinRetry, HandoffInv, NoQueryFailed
<1>3. apc = "idle"
  BY <1>2 DEF IInv, ApplyInv
<1>4. scfg.port \in Port
  BY ConfTypes DEF IInv, TypeOK
<1> QED
  BY <1>2, <1>3, <1>4 DEF IInv, IdleInv

(* As long as no status query has failed, listenTCPRetry never gives up a  *)
(* port because the panel still holds it.                                   *)
THEOREM HandoffHolds == Spec => HandoffWorks
<1>1. Init => HandoffInv
  BY ConstantsOK DEF Init, HandoffInv, Event
<1>2. IInv /\ HandoffInv /\ [Next]_vars => HandoffInv' /\ [GaveUpToPanel]_vars
  BY HandoffStep, GivesUpOK
<1> QED
  BY <1>1, <1>2, Invariance, PTL DEF Spec, HandoffWorks

=============================================================================
