---------------------------- MODULE AgentMonitor ----------------------------
(***************************************************************************)
(* The desktop-follow monitor of the Windows service: server/              *)
(* service_windows.go (agentMonitor, Execute) with the pure planning code  *)
(* of desktop_windows.go and the start-up of runAgent (agent_windows.go).  *)
(*                                                                         *)
(* One goroutine reconciles, on every tick, the agent processes it has     *)
(* with the desktops the console session needs.  Its steps interleave with *)
(* the console (sessions switch, lock and unlock), with the agent          *)
(* processes (they dial, give up, die) and with the end of the service     *)
(* process itself, after which a new service process may start while       *)
(* agents of the old one are still alive.                                  *)
(*                                                                         *)
(* A pipe connection is named by the agent process at its far end: an      *)
(* agent makes at most one connection.  The pipe server (go-winio) takes   *)
(* one Accept call at a time, in the order of the calls, and lets a dialer *)
(* in only while some Accept is pending.                                   *)
(***************************************************************************)
EXTENDS Integers

CONSTANTS
  Proc,     (* agent processes the machine can run, bounding those alive    *)
  Session,  (* console sessions                                             *)
  None,     (* no process, no session, no desktop                           *)
  Budget    (* how many faults of each kind a behaviour may contain         *)

(* The kinds of event that are bounded: a change of the console, the death *)
(* of a connected agent, a failing system call, an agent that fails to     *)
(* connect within acceptWithTimeout's five seconds, an end of the service. *)
Fault == {"console", "death", "syscall", "slow", "exit"}

ASSUME ConstantsOK ==
  /\ None \notin Proc
  /\ None \notin Session
  /\ Budget \in [Fault -> Nat]

Desktop == {"Default", "Winlogon"}

VARIABLES
  session,   (* what activeConsoleSession returns; None for wtsNoSession    *)
  locked,    (* per session, whether its SessionFlags say WTS_SESSIONSTATE_LOCK *)
  svc,       (* the service process: running, stopping (stop closed), down  *)
  proc,      (* the agent processes                                         *)
  open,      (* connections whose service-side handle is open               *)
  orphans,   (* Accept calls still pending after their waiter timed out     *)
  pc,        (* where the monitor goroutine is                              *)
  sess,      (* reconcile's local sess                                      *)
  todo,      (* reconcile's want, then what is left of start                *)
  changed,   (* reconcile's local changed                                   *)
  cur,       (* spawnOne's h: the process whose connection is awaited       *)
  got,       (* the connection the awaited Accept call has returned         *)
  curSess,   (* agentMonitor.curSess                                        *)
  agents,    (* agentMonitor.agents                                         *)
  writers,   (* the fan-out the pipeInjector is bound to, {} for nil        *)
  clean,     (* history: no agent was dialing when this service started     *)
  left       (* what is left of Budget                                      *)

console == <<session, locked>>
locals  == <<sess, todo, changed, cur, got>>
mon     == <<curSess, agents, writers>>
vars    == <<console, svc, proc, open, orphans, pc, locals, mon, clean, left>>

-----------------------------------------------------------------------------
(* Types.                                                                   *)

Exited  == [st |-> "exited", desk |-> None, sess |-> None]
NoAgent == [h |-> None, conn |-> None]

ProcState == [st   : {"exited", "dialing", "connected"},
              desk : Desktop \cup {None},
              sess : Session \cup {None}]
AgentProc == [h : Proc \cup {None}, conn : Proc \cup {None}]

TypeOK ==
  /\ session \in Session \cup {None}
  /\ locked \in [Session -> BOOLEAN]
  /\ svc \in {"running", "stopping", "down"}
  /\ proc \in [Proc -> ProcState]
  /\ open \subseteq Proc
  /\ orphans \in Nat
  /\ pc \in {"idle", "flags", "session", "plan", "spawn", "accept", "done"}
  /\ sess \in Session \cup {None}
  /\ todo \subseteq Desktop
  /\ changed \in BOOLEAN
  /\ cur \in Proc \cup {None}
  /\ got \in Proc \cup {None}
  /\ curSess \in Session \cup {None}
  /\ agents \in [Desktop -> AgentProc]
  /\ writers \subseteq Proc
  /\ clean \in BOOLEAN
  /\ left \in [Fault -> Nat]

-----------------------------------------------------------------------------
(* The pure planning code of desktop_windows.go.                            *)

desktopForFlags(isLocked) == IF isLocked THEN "Winlogon" ELSE "Default"

(* Planted bug: the curtain of a locked session is forgotten. *)
desiredDesktopsPrimaryOnly(isLocked) == {desktopForFlags(isLocked)}

desiredDesktops(isLocked) ==
  IF isLocked THEN {"Default", desktopForFlags(isLocked)}
              ELSE {desktopForFlags(isLocked)}

PlanStop(alive, want) == alive \ want

(* Planted bug: what is alive already is started again. *)
PlanStartAll(alive, want) == want

PlanStart(alive, want) == want \ alive

(* want and start are slices, Default first: the next one of those left.    *)
First(desks) == IF "Default" \in desks THEN "Default" ELSE "Winlogon"

-----------------------------------------------------------------------------
(* Helpers.                                                                 *)

Live(p) == proc[p].st # "exited"

(* An agentProc's process handle and connection stay referenced until      *)
(* stopAgent, a writer until the next rebind: the system reuses neither.   *)
Referenced(p) ==
  \/ \E d \in Desktop : p \in {agents[d].h, agents[d].conn}
  \/ p \in writers \cup {cur, got}

(* Planted bug: an exited process still counts as alive. *)
procAliveByHandle(d) == agents[d].h # None

procAlive(d) == agents[d].h # None /\ Live(agents[d].h)

(* Planted bug: the nil check of rebindWriters is missing. *)
BoundConnsOrNil == {agents[d].conn : d \in Desktop}

BoundConns == {agents[d].conn : d \in Desktop} \ {None}

(* Every fault uses up one unit of its budget. *)
Spend(kind) ==
  /\ left[kind] > 0
  /\ left' = [left EXCEPT ![kind] = @ - 1]

(* stopAgent for each desktop of D: forget the agent, close its connection, *)
(* terminate its process.                                                   *)
stopAgents(D) ==
  /\ agents' = [d \in Desktop |-> IF d \in D THEN NoAgent ELSE agents[d]]
  /\ open' = open \ {agents[d].conn : d \in D}
  /\ proc' = [p \in Proc |-> IF \E d \in D : agents[d].h = p
                               THEN Exited ELSE proc[p]]

(* Planted bug: the agents are detached, not terminated. *)
killAllDetachesOnly == writers' = {} /\ UNCHANGED <<agents, open, proc>>

killAll == stopAgents(Desktop) /\ writers' = {}

(* Planted bug: the process that did not connect is left running. *)
terminateForgotten(p) == UNCHANGED proc

terminate(p) == proc' = [proc EXCEPT ![p] = Exited]

(* Planted bug: a reaped agent is no reason to rebind. *)
mustRebindUnlessReaped(dead, stop, start) == stop # {} \/ start # {}

mustRebind(dead, stop, start) == dead # {} \/ stop # {} \/ start # {}

-----------------------------------------------------------------------------
(* The monitor goroutine: run, reconcile, spawnOne, rebindWriters.          *)

Goto(from, to) ==
  /\ svc # "down"
  /\ pc = from
  /\ pc' = to

(* A tick (run's select may prefer it to a closed stop channel).            *)
ReadSession ==
  /\ Goto("idle", "flags")
  /\ sess' = session
  /\ UNCHANGED <<console, svc, proc, open, orphans, todo, changed, cur, got,
                 mon, clean, left>>

(* sessionLockState fails for wtsNoSession and when the query fails: the    *)
(* tick is over and nothing has been touched.                               *)
ReadFlagsFails ==
  /\ Goto("flags", "idle")
  /\ \/ sess = None /\ UNCHANGED left
     \/ sess # None /\ Spend("syscall")
  /\ sess' = None
  /\ UNCHANGED <<console, svc, proc, open, orphans, todo, changed, cur, got,
                 mon, clean>>

ReadFlags ==
  /\ Goto("flags", "session")
  /\ sess # None
  /\ todo' = desiredDesktops(locked[sess])
  /\ UNCHANGED <<console, svc, proc, open, orphans, sess, changed, cur, got,
                 mon, clean, left>>

(* The console moved to another session: every agent of the old one goes.   *)
CompareSession ==
  /\ Goto("session", "plan")
  /\ changed' = (sess # curSess)
  /\ curSess' = sess
  /\ IF sess # curSess THEN killAll
                       ELSE UNCHANGED <<proc, open, agents, writers>>
  /\ UNCHANGED <<console, svc, orphans, sess, todo, cur, got, clean, left>>

(* Reap the agents whose process has exited, stop those no longer wanted,   *)
(* and keep in todo the ones to start, Default first.                       *)
Plan ==
  LET alive == {d \in Desktop : procAlive(d)}
      dead  == {d \in Desktop : agents[d] # NoAgent} \ alive
      stop  == PlanStop(alive, todo)
      start == PlanStart(alive, todo)
  IN /\ Goto("plan", "spawn")
     /\ stopAgents(dead \cup stop)
     /\ todo' = start
     /\ changed' = (changed \/ mustRebind(dead, stop, start))
     /\ UNCHANGED <<console, svc, orphans, sess, cur, got, curSess, writers,
                    clean, left>>

(* No token for the desktop, or CreateProcessAsUser fails: skip it.         *)
SpawnFails ==
  /\ Goto("spawn", "spawn")
  /\ todo # {}
  /\ Spend("syscall")
  /\ todo' = todo \ {First(todo)}
  /\ UNCHANGED <<console, svc, proc, open, orphans, sess, changed, cur, got,
                 mon, clean>>

(* The process is launched and a goroutine calls Accept for it.             *)
Spawn(p) ==
  /\ Goto("spawn", "accept")
  /\ todo # {}
  /\ ~Live(p) /\ ~Referenced(p)
  /\ proc' = [proc EXCEPT ![p] =
                [st |-> "dialing", desk |-> First(todo), sess |-> sess]]
  /\ cur' = p
  /\ UNCHANGED <<console, svc, open, orphans, sess, todo, changed, got, mon,
                 clean, left>>

(* acceptWithTimeout returns a connection, whoever dialed it.               *)
Accepted ==
  /\ Goto("accept", "spawn")
  /\ got # None
  /\ agents' = [agents EXCEPT ![First(todo)] = [h |-> cur, conn |-> got]]
  /\ todo' = todo \ {First(todo)}
  /\ cur' = None
  /\ got' = None
  /\ UNCHANGED <<console, svc, proc, open, orphans, sess, changed, curSess,
                 writers, clean, left>>

(* Five seconds are over: the process is terminated.  An Accept call still  *)
(* pending is abandoned, not cancelled; a connection it has just returned   *)
(* is dropped (both cases of the select were ready).  The timer needs a     *)
(* slow agent when the agent could still connect or has just done so.       *)
AcceptTimeout ==
  /\ Goto("accept", "spawn")
  /\ IF proc[cur].st = "dialing" \/ got # None THEN Spend("slow")
                                               ELSE UNCHANGED left
  /\ terminate(cur)
  /\ orphans' = IF got = None THEN orphans + 1 ELSE orphans
  /\ todo' = todo \ {First(todo)}
  /\ cur' = None
  /\ got' = None
  /\ UNCHANGED <<console, svc, open, sess, changed, mon, clean>>

(* The end of reconcile: rebindWriters if anything changed.                 *)
Rebind ==
  /\ Goto("spawn", "idle")
  /\ todo = {}
  /\ writers' = IF changed THEN BoundConns ELSE writers
  /\ sess' = None
  /\ changed' = FALSE
  /\ UNCHANGED <<console, svc, proc, open, orphans, todo, cur, got, curSess,
                 agents, clean, left>>

(* run sees stop closed, between two ticks only.                            *)
MonitorStops ==
  /\ Goto("idle", "done")
  /\ svc = "stopping"
  /\ killAll
  /\ UNCHANGED <<console, svc, orphans, locals, curSess, clean, left>>

-----------------------------------------------------------------------------
(* The agent processes.                                                     *)

AcceptPending == svc # "down" /\ (orphans > 0 \/ (pc = "accept" /\ got = None))

(* A dial gets through to the oldest pending Accept: an abandoned one, if   *)
(* there is any, whose result nobody reads.                                 *)
Dial(p) ==
  /\ proc[p].st = "dialing"
  /\ AcceptPending
  /\ proc' = [proc EXCEPT ![p].st = "connected"]
  /\ open' = open \cup {p}
  /\ IF orphans > 0 THEN orphans' = orphans - 1 /\ UNCHANGED got
                    ELSE got' = p /\ UNCHANGED orphans
  /\ UNCHANGED <<console, svc, pc, sess, todo, changed, cur, mon, clean, left>>

(* Twenty attempts found no Accept pending.                                 *)
GiveUp(p) ==
  /\ proc[p].st = "dialing"
  /\ ~AcceptPending
  /\ proc' = [proc EXCEPT ![p] = Exited]
  /\ UNCHANGED <<console, svc, open, orphans, pc, locals, mon, clean, left>>

(* runAgentLoop ends when the service's end of the pipe is closed.          *)
AgentLoopEnds(p) ==
  /\ proc[p].st = "connected"
  /\ p \notin open
  /\ proc' = [proc EXCEPT ![p] = Exited]
  /\ UNCHANGED <<console, svc, open, orphans, pc, locals, mon, clean, left>>

(* The process dies: a crash, a log-off.                                    *)
Dies(p) ==
  /\ Live(p)
  /\ Spend(IF proc[p].st = "dialing" THEN "slow" ELSE "death")
  /\ proc' = [proc EXCEPT ![p] = Exited]
  /\ UNCHANGED <<console, svc, open, orphans, pc, locals, mon, clean>>

-----------------------------------------------------------------------------
(* The service process and the console.                                     *)

(* Execute closes stop and returns at once: nothing waits for killAll.      *)
StopRequested ==
  /\ svc = "running"
  /\ Spend("exit")
  /\ svc' = "stopping"
  /\ UNCHANGED <<console, proc, open, orphans, pc, locals, mon, clean>>

(* The process ends, after Execute has returned or by crashing.  The system *)
(* closes its handles; the agents live on.                                  *)
ProcessExits ==
  /\ \/ svc = "stopping" /\ UNCHANGED left
     \/ svc = "running" /\ Spend("exit")
  /\ svc' = "down"
  /\ open' = {}
  /\ orphans' = 0
  /\ pc' = "idle"
  /\ sess' = None /\ todo' = {} /\ changed' = FALSE
  /\ cur' = None /\ got' = None
  /\ curSess' = None
  /\ agents' = [d \in Desktop |-> NoAgent]
  /\ writers' = {}
  /\ UNCHANGED <<console, proc, clean>>

(* runServiceCore of a new service process: pipe, empty monitor, run.       *)
ServiceStarts ==
  /\ svc = "down"
  /\ svc' = "running"
  /\ clean' = \A p \in Proc : proc[p].st # "dialing"
  /\ UNCHANGED <<console, proc, open, orphans, pc, locals, mon, left>>

ConsoleSwitches ==
  /\ Spend("console")
  /\ \E s \in (Session \cup {None}) \ {session} : session' = s
  /\ UNCHANGED <<locked, svc, proc, open, orphans, pc, locals, mon, clean>>

LockToggles(s) ==
  /\ Spend("console")
  /\ locked' = [locked EXCEPT ![s] = ~@]
  /\ UNCHANGED <<session, svc, proc, open, orphans, pc, locals, mon, clean>>

-----------------------------------------------------------------------------

Init ==
  /\ session \in Session
  /\ locked \in [Session -> BOOLEAN]
  /\ svc = "running"
  /\ proc = [p \in Proc |-> Exited]
  /\ open = {} /\ orphans = 0
  /\ pc = "idle"
  /\ sess = None /\ todo = {} /\ changed = FALSE /\ cur = None /\ got = None
  /\ curSess = None
  /\ agents = [d \in Desktop |-> NoAgent]
  /\ writers = {}
  /\ clean = TRUE
  /\ left = Budget

Monitor ==
  \/ ReadSession \/ ReadFlagsFails \/ ReadFlags \/ CompareSession \/ Plan
  \/ SpawnFails \/ (\E p \in Proc : Spawn(p)) \/ Accepted \/ AcceptTimeout
  \/ Rebind \/ MonitorStops

Agent(p) == Dial(p) \/ GiveUp(p) \/ AgentLoopEnds(p) \/ Dies(p)

Environment ==
  \/ StopRequested \/ ProcessExits \/ ServiceStarts \/ ConsoleSwitches
  \/ \E s \in Session : LockToggles(s)

Next == Monitor \/ (\E p \in Proc : Agent(p)) \/ Environment

Spec == Init /\ [][Next]_vars

(* The goroutine keeps running, its five-second timer fires, a dial retries *)
(* until it gets through or gives up, a broken pipe ends its reader.        *)
Fairness ==
  /\ WF_vars(Monitor)
  /\ \A p \in Proc : WF_vars(Dial(p)) /\ WF_vars(GiveUp(p))
                                      /\ WF_vars(AgentLoopEnds(p))

FairSpec == Spec /\ Fairness

-----------------------------------------------------------------------------
(* Properties.                                                              *)

(* The connection kept for a desktop is the one dialed by the process kept *)
(* for it, although acceptWithTimeout takes whatever connection comes next *)
(* and a timed-out Accept stays behind: what service_windows.go:271 calls  *)
(* "the freshly spawned agent".  Provided no agent was dialing already     *)
(* when this service process started: such an agent can get in before the  *)
(* spawned one.                                                            *)
PairedConn ==
  clean => \A d \in Desktop : agents[d].conn = agents[d].h

(* Between two ticks the fan-out is exactly the set of connections of the  *)
(* agents the monitor keeps: rebindWriters ran whenever reconcile reaped,  *)
(* stopped, started or dropped any of them.                                *)
WritersMatchAgents ==
  pc \in {"idle", "done"} => writers = BoundConns

(* Injected events never reach an agent of another console session or of   *)
(* the wrong desktop: a writer that still works leads to an agent spawned  *)
(* for the monitor's session and filed under the desktop it runs on.       *)
WritersInSession ==
  clean => \A p \in writers \cap open :
             proc[p].st = "connected" =>
               /\ proc[p].sess = curSess
               /\ \E d \in Desktop : agents[d].conn = p /\ proc[p].desk = d

(* No agent process escapes the monitor: each one is filed in agents, or   *)
(* is the one being spawned, or was left by an earlier service process and *)
(* is about to see its pipe close.  (spawnOne terminates the agent it gave *)
(* up on, planAgents starts none that is alive.)                           *)
NoStrayAgent ==
  clean /\ svc # "down" =>
    \A p \in Proc : Live(p) =>
      \/ p \in {agents[d].h : d \in Desktop} \cup {cur}
      \/ proc[p].st = "connected" /\ p \notin open

(* Locking and unlocking never costs the Default agent: a bound agent of   *)
(* the Default desktop ends only by dying, with its session, or with the   *)
(* service (desiredDesktops keeps Default in both lock states).            *)
DefaultKept ==
  \A p \in Proc :
    clean /\ agents["Default"].h = p /\ Live(p) /\ proc'[p].st = "exited"
    => left' # left \/ curSess' # curSess \/ svc = "stopping"

(* DefaultKept of every step. *)
DefaultSurvives == [][DefaultKept]_vars

Following ==
  /\ \A d \in Desktop :
       IF d \in desiredDesktops(locked[session])
         THEN /\ agents[d].h # None /\ Live(agents[d].h)
              /\ agents[d].conn \in writers \cap open
         ELSE agents[d] = NoAgent
  /\ writers = BoundConns

(* Once the service stays up, with a console session, injection ends up    *)
(* bound to a live agent on exactly the desktops of that session's lock    *)
(* state, and stays bound: the design's "injection follows automatically". *)
FollowsDesktop ==
  <>[](svc = "running" /\ session # None) =>
    <>[](session # None => Following)

=============================================================================
