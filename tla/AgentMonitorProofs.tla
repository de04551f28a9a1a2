------------------------- MODULE AgentMonitorProofs -------------------------
(***************************************************************************)
(* What holds of the agent monitor for every set of processes and          *)
(* sessions and every budget of faults.                                    *)
(*                                                                         *)
(* The heart of the argument is that at most one agent is ever trying to   *)
(* connect: the one spawnOne waits for.  spawnOne either files it or       *)
(* terminates it, so whichever Accept call a connection reaches - the      *)
(* awaited one or one abandoned earlier - it is that agent's.              *)
(***************************************************************************)
EXTENDS AgentMonitor, TLAPS

(* Process p is referenced by the agents map or by the fan-out. *)
Filed(p) ==
  \/ \E d \in Desktop : p \in {agents[d].h, agents[d].conn}
  \/ p \in writers

(* A service process that is down holds nothing. *)
DownIsEmpty ==
  svc = "down" =>
    /\ pc = "idle" /\ open = {} /\ writers = {}
    /\ \A d \in Desktop : agents[d] = NoAgent

(* spawnOne's locals are set exactly while it waits; the process it waits  *)
(* for is new to the monitor and carries the desktop and session it is     *)
(* spawned for.                                                            *)
AwaitInv ==
  /\ pc # "accept" => cur = None /\ got = None
  /\ pc = "accept" =>
       /\ cur \in Proc
       /\ todo # {}
       /\ ~Filed(cur)
       /\ Live(cur) => proc[cur].desk = First(todo) /\ proc[cur].sess = sess

(* How far reconcile has got. *)
ReconcileInv ==
  /\ pc \in {"session", "plan"} => "Default" \in todo
  /\ pc \in {"plan", "spawn", "accept"} => sess = curSess
  /\ pc \in {"spawn", "accept"} => \A d \in todo : agents[d] = NoAgent

(* The fan-out is up to date, or will be when reconcile ends. *)
WritersInv ==
  /\ pc \in {"idle", "flags", "session", "done"} => writers = BoundConns
  /\ pc = "plan" => changed \/ writers = BoundConns
  /\ pc \in {"spawn", "accept"} =>
       changed \/ (writers = BoundConns /\ todo = {})

(* Only the awaited agent dials, so the awaited connection is its own. *)
DialInv ==
  /\ svc # "down" =>
       \A p \in Proc : proc[p].st = "dialing" => pc = "accept" /\ p = cur
  /\ got # None => got = cur /\ proc[cur].st # "dialing" /\ got \in open

(* What is filed under a desktop is one agent of that desktop and of the   *)
(* monitor's session, with its own open connection, and under no other.    *)
FiledInv ==
  /\ \A d \in Desktop :
       /\ agents[d].conn = agents[d].h
       /\ agents[d].h # None => agents[d].h \in open
       /\ agents[d].h # None /\ Live(agents[d].h) =>
            proc[agents[d].h].desk = d /\ proc[agents[d].h].sess = curSess
  /\ \A d, e \in Desktop : agents[d].h # None /\ agents[d].h = agents[e].h => d = e
  /\ writers \cap open \subseteq BoundConns

IInv ==
  /\ TypeOK
  /\ DownIsEmpty
  /\ AwaitInv
  /\ ReconcileInv
  /\ WritersInv
  /\ clean => DialInv /\ FiledInv /\ NoStrayAgent

-----------------------------------------------------------------------------
(* Type correctness.                                                        *)

LEMMA FaultTypes ==
  ASSUME TypeOK, NEW kind \in Fault, Spend(kind)
  PROVE  left' \in [Fault -> Nat] /\ left' # left
BY DEF TypeOK, Spend

LEMMA StopAgentsTypes ==
  ASSUME TypeOK, NEW D \in SUBSET Desktop, stopAgents(D)
  PROVE  /\ agents' \in [Desktop -> AgentProc]
         /\ open' \subseteq Proc
         /\ proc' \in [Proc -> ProcState]
BY DEF TypeOK, stopAgents, NoAgent, AgentProc, Exited, ProcState

LEMMA InitTypes == Init => TypeOK
<1> SUFFICES ASSUME Init PROVE TypeOK
  OBVIOUS
<1>1. proc \in [Proc -> ProcState]
  BY DEF Init, Exited, ProcState
<1>2. agents \in [Desktop -> AgentProc]
  BY DEF Init, NoAgent, AgentProc
<1>3. left \in [Fault -> Nat]
  BY ConstantsOK DEF ConstantsOK, Init
<1> QED
  BY <1>1, <1>2, <1>3 DEF Init, TypeOK

LEMMA StepTypes == TypeOK /\ [Next]_vars => TypeOK'
<1> SUFFICES ASSUME TypeOK, [Next]_vars PROVE TypeOK'
  OBVIOUS
<1> USE DEF TypeOK, Goto
<1>1. CASE ReadSession
  BY <1>1 DEF ReadSession, mon, console
<1>2. CASE ReadFlagsFails
  <2>1. left' \in [Fault -> Nat]
    BY <1>2, FaultTypes DEF ReadFlagsFails, Fault
  <2> QED BY <1>2, <2>1 DEF ReadFlagsFails, mon, console
<1>3. CASE ReadFlags
  BY <1>3 DEF ReadFlags, desiredDesktops, desktopForFlags, Desktop, mon, console
<1>4. CASE CompareSession
  <2>1. /\ agents' \in [Desktop -> AgentProc]
        /\ open' \subseteq Proc
        /\ proc' \in [Proc -> ProcState]
        /\ writers' \subseteq Proc
    BY <1>4, StopAgentsTypes DEF CompareSession, killAll
  <2> QED BY <1>4, <2>1 DEF CompareSession, console
<1>5. CASE Plan
  <2>1. PICK D \in SUBSET Desktop : stopAgents(D)
    BY <1>5 DEF Plan, PlanStop
  <2>2. /\ agents' \in [Desktop -> AgentProc]
        /\ open' \subseteq Proc
        /\ proc' \in [Proc -> ProcState]
    BY <2>1, StopAgentsTypes
  <2>3. todo' \subseteq Desktop /\ changed' \in BOOLEAN
    BY <1>5 DEF Plan, PlanStart, mustRebind
  <2>4. pc' = "spawn"
    BY <1>5 DEF Plan
  <2>5. UNCHANGED <<session, locked, svc, orphans, sess, cur, got, curSess,
                    writers, clean, left>>
    BY <1>5 DEF Plan, console
  <2> QED BY <2>2, <2>3, <2>4, <2>5
<1>6. CASE SpawnFails
  <2>1. left' \in [Fault -> Nat]
    BY <1>6, FaultTypes DEF SpawnFails, Fault
  <2> QED BY <1>6, <2>1 DEF SpawnFails, mon, console
<1>7. ASSUME NEW p \in Proc, Spawn(p) PROVE TypeOK'
  BY <1>7 DEF Spawn, First, Desktop, ProcState, mon, console
<1>8. CASE Accepted
  BY <1>8 DEF Accepted, AgentProc, console
<1>9. CASE AcceptTimeout
  <2>1. left' \in [Fault -> Nat]
    BY <1>9, FaultTypes DEF AcceptTimeout, Fault
  <2>2. proc' \in [Proc -> ProcState]
    BY <1>9 DEF AcceptTimeout, terminate, Exited, ProcState
  <2>3. orphans' \in Nat /\ todo' \subseteq Desktop
    BY <1>9 DEF AcceptTimeout
  <2> QED BY <1>9, <2>1, <2>2, <2>3 DEF AcceptTimeout, mon, console
<1>10. CASE Rebind
  <2>1. writers' \subseteq Proc
    BY <1>10 DEF Rebind, BoundConns, AgentProc
  <2> QED BY <1>10, <2>1 DEF Rebind, console
<1>11. CASE MonitorStops
  <2>1. /\ agents' \in [Desktop -> AgentProc]
        /\ open' \subseteq Proc
        /\ proc' \in [Proc -> ProcState]
    BY <1>11, StopAgentsTypes DEF MonitorStops, killAll
  <2> QED BY <1>11, <2>1 DEF MonitorStops, killAll, locals, console
<1>12. ASSUME NEW p \in Proc, Dial(p) PROVE TypeOK'
  BY <1>12 DEF Dial, ProcState, mon, console
<1>13. ASSUME NEW p \in Proc, GiveUp(p) \/ AgentLoopEnds(p) PROVE TypeOK'
  BY <1>13 DEF GiveUp, AgentLoopEnds, Exited, ProcState, mon, locals, console
<1>14. ASSUME NEW p \in Proc, Dies(p) PROVE TypeOK'
  <2>1. left' \in [Fault -> Nat]
    BY <1>14, FaultTypes DEF Dies, Fault
  <2> QED BY <1>14, <2>1 DEF Dies, Exited, ProcState, mon, locals, console
<1>15. CASE StopRequested
  <2>1. left' \in [Fault -> Nat]
    BY <1>15, FaultTypes DEF StopRequested, Fault
  <2> QED BY <1>15, <2>1 DEF StopRequested, mon, locals, console
<1>16. CASE ProcessExits
  <2>1. left' \in [Fault -> Nat]
    BY <1>16, FaultTypes DEF ProcessExits, Fault
  <2> QED BY <1>16, <2>1 DEF ProcessExits, NoAgent, AgentProc, console
<1>17. CASE ServiceStarts
  BY <1>17 DEF ServiceStarts, mon, locals, console
<1>18. CASE ConsoleSwitches
  <2>1. left' \in [Fault -> Nat]
    BY <1>18, FaultTypes DEF ConsoleSwitches, Fault
  <2> QED BY <1>18, <2>1 DEF ConsoleSwitches, mon, locals
<1>19. ASSUME NEW s \in Session, LockToggles(s) PROVE TypeOK'
  <2>1. left' \in [Fault -> Nat]
    BY <1>19, FaultTypes DEF LockToggles, Fault
  <2> QED BY <1>19, <2>1 DEF LockToggles, mon, locals
<1>20. CASE UNCHANGED vars
  BY <1>20 DEF vars, mon, locals, console
<1> QED
  BY <1>1, <1>2, <1>3, <1>4, <1>5, <1>6, <1>7, <1>8, <1>9, <1>10, <1>11, <1>12,
     <1>13, <1>14, <1>15, <1>16, <1>17, <1>18, <1>19, <1>20
  DEF Next, Monitor, Agent, Environment

(* Every variable of the monitor keeps its type: processes referenced by   *)
(* agents, by the fan-out and by spawnOne are processes, budgets stay      *)
(* natural numbers, abandoned Accept calls never go below none.            *)
THEOREM TypeCorrect == Spec => []TypeOK
BY InitTypes, StepTypes, PTL DEF Spec

-----------------------------------------------------------------------------
(* The inductive invariant.                                                 *)

LEMMA InitIInv == Init => IInv
<1> SUFFICES ASSUME Init PROVE IInv
  OBVIOUS
<1>1. TypeOK
  BY InitTypes
<1>2. BoundConns = {}
  BY DEF Init, BoundConns, NoAgent
<1>3. DownIsEmpty /\ AwaitInv /\ ReconcileInv /\ WritersInv
  BY <1>2 DEF Init, DownIsEmpty, AwaitInv, ReconcileInv, WritersInv
<1>4. DialInv /\ FiledInv /\ NoStrayAgent
  BY <1>2 DEF Init, DialInv, FiledInv, NoStrayAgent, Live, Exited, NoAgent
<1> QED
  BY <1>1, <1>3, <1>4 DEF IInv

LEMMA StepDown == IInv /\ [Next]_vars => DownIsEmpty'
<1> SUFFICES ASSUME DownIsEmpty, [Next]_vars PROVE DownIsEmpty'
  BY DEF IInv
<1> USE DEF DownIsEmpty, Goto
<1>1. CASE Monitor
  BY <1>1 DEF Monitor, ReadSession, ReadFlagsFails, ReadFlags, CompareSession, Plan,
     SpawnFails, Spawn, Accepted, AcceptTimeout, Rebind, MonitorStops, console
<1>2. ASSUME NEW p \in Proc, Agent(p) PROVE DownIsEmpty'
  BY <1>2 DEF Agent, Dial, GiveUp, AgentLoopEnds, Dies, AcceptPending, mon, console
<1>3. CASE Environment
  BY <1>3 DEF Environment, StopRequested, ProcessExits, ServiceStarts,
     ConsoleSwitches, LockToggles, mon, console
<1>4. CASE UNCHANGED vars
  BY <1>4 DEF vars, mon
<1> QED
  BY <1>1, <1>2, <1>3, <1>4 DEF Next

(* Stopping agents files no process anew. *)
LEMMA StopAgentsFiled ==
  ASSUME TypeOK, NEW D \in SUBSET Desktop, stopAgents(D), writers' \subseteq writers,
         NEW p \in Proc, Filed(p)'
  PROVE  Filed(p)
BY ConstantsOK DEF ConstantsOK, TypeOK, stopAgents, Filed, NoAgent, AgentProc

LEMMA StepAwait == IInv /\ [Next]_vars => AwaitInv'
<1> SUFFICES ASSUME IInv, [Next]_vars PROVE AwaitInv'
  OBVIOUS
<1>0. TypeOK /\ AwaitInv
  BY DEF IInv
<1> USE <1>0, ConstantsOK DEF ConstantsOK, Goto, AwaitInv
<1>1. CASE \/ ReadSession \/ ReadFlagsFails \/ ReadFlags \/ CompareSession \/ Plan
           \/ SpawnFails \/ Rebind \/ MonitorStops
  BY <1>1 DEF ReadSession, ReadFlagsFails, ReadFlags, CompareSession, Plan,
     SpawnFails, Rebind, MonitorStops, locals
<1>2. ASSUME NEW p \in Proc, Spawn(p) PROVE AwaitInv'
  <2>1. ~Filed(p)'
    BY <1>2 DEF Spawn, Filed, Referenced, mon
  <2>2. proc'[p].desk = First(todo') /\ proc'[p].sess = sess'
    BY <1>2 DEF Spawn, TypeOK
  <2> QED BY <1>2, <2>1, <2>2 DEF Spawn
<1>3. CASE Accepted \/ AcceptTimeout
  BY <1>3 DEF Accepted, AcceptTimeout
<1>4. ASSUME NEW p \in Proc, Dial(p) PROVE AwaitInv'
  <2>1. Live(cur)' => Live(cur)
    BY <1>4 DEF Dial, Live, TypeOK
  <2>2. \A q \in Proc : proc'[q].desk = proc[q].desk /\ proc'[q].sess = proc[q].sess
    BY <1>4 DEF Dial, TypeOK, ProcState
  <2>3. Filed(cur)' => Filed(cur)
    BY <1>4 DEF Dial, Filed, mon
  <2> QED BY <1>4, <2>1, <2>2, <2>3 DEF Dial, AcceptPending
<1>5. ASSUME NEW p \in Proc, GiveUp(p) \/ AgentLoopEnds(p) \/ Dies(p) PROVE AwaitInv'
  <2>1. UNCHANGED <<pc, locals, mon>> /\ proc' = [proc EXCEPT ![p] = Exited]
    BY <1>5 DEF GiveUp, AgentLoopEnds, Dies
  <2>2. Live(cur)' /\ cur \in Proc => proc'[cur] = proc[cur] /\ Live(cur)
    BY <2>1 DEF Live, TypeOK, Exited, locals
  <2> QED BY <2>1, <2>2 DEF Filed, mon, locals
<1>6. CASE Environment
  BY <1>6 DEF Environment, StopRequested, ProcessExits, ServiceStarts,
     ConsoleSwitches, LockToggles, mon, locals, Filed, Live
<1>7. CASE UNCHANGED vars
  BY <1>7 DEF vars, mon, locals, Filed, Live
<1> QED
  BY <1>1, <1>2, <1>3, <1>4, <1>5, <1>6, <1>7 DEF Next, Monitor, Agent

LEMMA StepReconcile == IInv /\ [Next]_vars => ReconcileInv'
<1> SUFFICES ASSUME IInv, [Next]_vars PROVE ReconcileInv'
  OBVIOUS
<1>0. TypeOK /\ ReconcileInv /\ AwaitInv
  BY DEF IInv
<1> USE <1>0 DEF Goto, ReconcileInv
<1>1. CASE \/ ReadSession \/ ReadFlagsFails \/ ReadFlags \/ CompareSession
           \/ SpawnFails \/ AcceptTimeout \/ Rebind \/ MonitorStops
  BY <1>1 DEF ReadSession, ReadFlagsFails, ReadFlags, CompareSession, SpawnFails,
     AcceptTimeout, Rebind, MonitorStops, desiredDesktops, desktopForFlags, mon, locals
<1>2. CASE Plan
  <2>1. \A d \in todo' : agents'[d] = NoAgent
    BY <1>2 DEF Plan, PlanStart, PlanStop, stopAgents, TypeOK
  <2> QED BY <1>2, <2>1 DEF Plan
<1>3. ASSUME NEW p \in Proc, Spawn(p) PROVE ReconcileInv'
  BY <1>3 DEF Spawn, mon
<1>4. CASE Accepted
  BY <1>4 DEF Accepted, AwaitInv, First, TypeOK, Desktop
<1>5. ASSUME NEW p \in Proc, Agent(p) PROVE ReconcileInv'
  BY <1>5 DEF Agent, Dial, GiveUp, AgentLoopEnds, Dies, mon, locals
<1>6. CASE Environment
  BY <1>6 DEF Environment, StopRequested, ProcessExits, ServiceStarts,
     ConsoleSwitches, LockToggles, mon, locals
<1>7. CASE UNCHANGED vars
  BY <1>7 DEF vars, mon, locals
<1> QED
  BY <1>1, <1>2, <1>3, <1>4, <1>5, <1>6, <1>7 DEF Next, Monitor

LEMMA StepWriters == IInv /\ [Next]_vars => WritersInv'
<1> SUFFICES ASSUME IInv, [Next]_vars PROVE WritersInv'
  OBVIOUS
<1>0. TypeOK /\ WritersInv
  BY DEF IInv
<1> USE <1>0 DEF Goto, WritersInv
<1>1. CASE ReadSession \/ ReadFlagsFails \/ ReadFlags \/ SpawnFails \/ AcceptTimeout
  BY <1>1 DEF ReadSession, ReadFlagsFails, ReadFlags, SpawnFails, AcceptTimeout,
     mon, BoundConns
<1>2. CASE CompareSession
  <2>1. changed' \/ UNCHANGED <<agents, writers>>
    BY <1>2 DEF CompareSession
  <2> QED BY <1>2, <2>1 DEF CompareSession, BoundConns
<1>3. CASE Plan
  <2>1. CASE changed'
    BY <1>3, <2>1 DEF Plan
  <2>2. CASE ~changed'
    <3>1. ~changed /\ todo' = {} /\ stopAgents({}) /\ UNCHANGED writers
      BY <1>3, <2>2 DEF Plan, mustRebind
    <3>2. agents' = agents
      BY <3>1 DEF stopAgents, TypeOK
    <3> QED BY <1>3, <3>1, <3>2 DEF Plan, BoundConns
  <2> QED BY <2>1, <2>2
<1>4. ASSUME NEW p \in Proc, Spawn(p) PROVE WritersInv'
  BY <1>4 DEF Spawn, mon, BoundConns
<1>5. CASE Accepted
  <2>1. todo # {}
    BY <1>5 DEF Accepted, IInv, AwaitInv
  <2> QED BY <1>5, <2>1 DEF Accepted
<1>6. CASE Rebind
  BY <1>6 DEF Rebind, BoundConns
<1>7. CASE MonitorStops
  <2>1. agents' = [d \in Desktop |-> NoAgent] /\ writers' = {}
    BY <1>7 DEF MonitorStops, killAll, stopAgents, TypeOK
  <2> QED BY <1>7, <2>1 DEF MonitorStops, BoundConns, NoAgent
<1>8. ASSUME NEW p \in Proc, Agent(p) PROVE WritersInv'
  BY <1>8 DEF Agent, Dial, GiveUp, AgentLoopEnds, Dies, mon, locals, BoundConns
<1>9. CASE ProcessExits
  BY <1>9 DEF ProcessExits, BoundConns, NoAgent
<1>10. CASE \/ StopRequested \/ ServiceStarts \/ ConsoleSwitches
            \/ \E s \in Session : LockToggles(s)
  <2>1. UNCHANGED <<pc, todo, changed, agents, writers>>
    BY <1>10 DEF StopRequested, ServiceStarts, ConsoleSwitches, LockToggles, mon, locals
  <2> QED BY <2>1 DEF BoundConns
<1>11. CASE UNCHANGED vars
  BY <1>11 DEF vars, mon, locals, BoundConns
<1> QED
  BY <1>1, <1>2, <1>3, <1>4, <1>5, <1>6, <1>7, <1>8, <1>9, <1>10, <1>11
  DEF Next, Monitor, Environment

LEMMA StepDial == IInv /\ [Next]_vars => (clean => DialInv)'
<1> SUFFICES ASSUME IInv, [Next]_vars, clean' PROVE DialInv'
  OBVIOUS
<1>0. TypeOK /\ AwaitInv /\ DownIsEmpty
  BY DEF IInv
<1>s. CASE ServiceStarts
  <2>1. /\ \A p \in Proc : proc'[p].st # "dialing"
        /\ got = None /\ UNCHANGED got
    BY <1>s, <1>0 DEF ServiceStarts, DownIsEmpty, AwaitInv, locals
  <2> QED BY <2>1, ConstantsOK DEF DialInv
<1> SUFFICES ASSUME ~ServiceStarts PROVE DialInv'
  BY <1>s
<1>c. clean
  BY DEF Next, Monitor, Agent, Environment, vars, ReadSession, ReadFlagsFails,
     ReadFlags, CompareSession, Plan, SpawnFails, Spawn, Accepted, AcceptTimeout,
     Rebind, MonitorStops, Dial, GiveUp, AgentLoopEnds, Dies, StopRequested,
     ProcessExits, ConsoleSwitches, LockToggles
<1>d. DialInv /\ FiledInv
  BY <1>c DEF IInv
<1> USE <1>0, <1>d DEF Goto, DialInv
<1>1. CASE \/ ReadSession \/ ReadFlagsFails \/ ReadFlags \/ SpawnFails \/ Rebind
  BY <1>1 DEF ReadSession, ReadFlagsFails, ReadFlags, SpawnFails, Rebind, locals
<1>2. CASE CompareSession \/ Plan \/ MonitorStops
  <2>1. got = None /\ UNCHANGED got /\ UNCHANGED svc /\ pc # "accept" /\ svc # "down"
    BY <1>2 DEF CompareSession, Plan, MonitorStops, AwaitInv, locals
  <2>2. \A p \in Proc : proc'[p].st = "dialing" => proc[p].st = "dialing"
    <3>1. CASE UNCHANGED proc
      BY <3>1
    <3>2. ASSUME NEW D \in SUBSET Desktop, stopAgents(D)
          PROVE  \A p \in Proc : proc'[p].st = "dialing" => proc[p].st = "dialing"
      BY <3>2 DEF stopAgents, Exited
    <3> QED BY <1>2, <3>1, <3>2 DEF CompareSession, Plan, PlanStop, MonitorStops, killAll
  <2> QED BY <2>1, <2>2
<1>3. ASSUME NEW p \in Proc, Spawn(p) PROVE DialInv'
  BY <1>3 DEF Spawn, AwaitInv, TypeOK
<1>4. CASE Accepted
  BY <1>4, ConstantsOK DEF ConstantsOK, Accepted, AwaitInv
<1>5. CASE AcceptTimeout
  BY <1>5, ConstantsOK DEF ConstantsOK, AcceptTimeout, terminate, TypeOK, Exited
<1>6. ASSUME NEW p \in Proc, Dial(p) PROVE DialInv'
  <2>1. svc # "down" /\ pc = "accept" /\ p = cur /\ UNCHANGED <<svc, pc, cur>>
    BY <1>6 DEF Dial, AcceptPending
  <2>2. proc'[p].st = "connected" /\ \A q \in Proc \ {p} : proc'[q] = proc[q]
    BY <1>6 DEF Dial, TypeOK, ProcState
  <2>3. got' \in {got, p} /\ open' = open \cup {p}
    BY <1>6 DEF Dial
  <2> QED BY <2>1, <2>2, <2>3
<1>7. ASSUME NEW p \in Proc, GiveUp(p) \/ AgentLoopEnds(p) \/ Dies(p) PROVE DialInv'
  <2>1. UNCHANGED <<svc, pc, cur, got, open>> /\ proc' = [proc EXCEPT ![p] = Exited]
    BY <1>7 DEF GiveUp, AgentLoopEnds, Dies, locals
  <2>2. \A q \in Proc : proc'[q].st = "dialing" => proc[q].st = "dialing"
    BY <2>1 DEF TypeOK, Exited
  <2> QED BY <2>1, <2>2, ConstantsOK DEF ConstantsOK, TypeOK
<1>8. CASE StopRequested \/ ConsoleSwitches \/ \E s \in Session : LockToggles(s)
  BY <1>8 DEF StopRequested, ConsoleSwitches, LockToggles, locals
<1>9. CASE ProcessExits
  BY <1>9 DEF ProcessExits
<1>10. CASE UNCHANGED vars
  BY <1>10 DEF vars, locals
<1> QED
  BY <1>1, <1>2, <1>3, <1>4, <1>5, <1>6, <1>7, <1>8, <1>9, <1>10
  DEF Next, Monitor, Agent, Environment

(* The history variable changes when a service starts, and never again. *)
LEMMA CleanKept == [Next]_vars /\ ~ServiceStarts => UNCHANGED clean
BY DEF Next, Monitor, Agent, Environment, vars, ReadSession, ReadFlagsFails,
   ReadFlags, CompareSession, Plan, SpawnFails, Spawn, Accepted, AcceptTimeout,
   Rebind, MonitorStops, Dial, GiveUp, AgentLoopEnds, Dies, StopRequested,
   ProcessExits, ConsoleSwitches, LockToggles

(* Stopping some of the agents leaves the others filed as they were. *)
LEMMA StopAgentsFiledInv ==
  ASSUME TypeOK, FiledInv, NEW D \in SUBSET Desktop, stopAgents(D),
         curSess' = curSess \/ D = Desktop,
         writers' = writers \/ writers' = {}
  PROVE  FiledInv'
<1>1. /\ \A d \in Desktop : agents'[d] = IF d \in D THEN NoAgent ELSE agents[d]
      /\ open' = open \ {agents[d].conn : d \in D}
  BY DEF stopAgents
<1>2. ASSUME NEW d \in Desktop, agents'[d].h # None
      PROVE  d \notin D /\ agents'[d] = agents[d] /\ agents[d].h \in Proc
  BY <1>1, <1>2 DEF NoAgent, TypeOK, AgentProc
<1>3. ASSUME NEW d \in Desktop
      PROVE  agents'[d].conn = agents'[d].h
  BY <1>1 DEF FiledInv, NoAgent
<1>4. ASSUME NEW d \in Desktop, NEW e \in Desktop,
             agents'[d].h # None, agents'[d].h = agents'[e].h
      PROVE  d = e
  BY <1>2, <1>4 DEF FiledInv
<1>5. ASSUME NEW d \in Desktop, agents'[d].h # None
      PROVE  /\ agents'[d].h \in open'
             /\ Live(agents[d].h)' =>
                  proc'[agents'[d].h].desk = d /\ proc'[agents'[d].h].sess = curSess'
  <2>1. /\ d \notin D /\ agents'[d] = agents[d]
        /\ agents[d].h # None /\ agents[d].h \in Proc
    BY <1>2, <1>5
  <2>2. \A e \in D : agents[e].conn # agents[d].h
    BY <2>1 DEF FiledInv
  <2>3. agents'[d].h \in open'
    BY <1>1, <2>1, <2>2 DEF FiledInv
  <2>4. proc'[agents[d].h] = proc[agents[d].h]
    BY <2>1, <2>2 DEF stopAgents, FiledInv
  <2>5. curSess' = curSess
    BY <2>1
  <2> QED BY <2>1, <2>3, <2>4, <2>5 DEF FiledInv, Live
<1>6. writers' \cap open' \subseteq BoundConns'
  <2> SUFFICES ASSUME NEW p \in writers' \cap open' PROVE p \in BoundConns'
    OBVIOUS
  <2>1. p \in writers /\ p \in open /\ p \in BoundConns
    BY <1>1 DEF FiledInv
  <2>2. PICK d \in Desktop : agents[d].conn = p /\ p # None
    BY <2>1 DEF BoundConns
  <2>3. d \notin D
    BY <1>1, <2>2
  <2> QED BY <1>1, <2>2, <2>3 DEF BoundConns
<1> QED
  BY <1>2, <1>3, <1>4, <1>5, <1>6 DEF FiledInv

LEMMA StepFiled == IInv /\ [Next]_vars => (clean => FiledInv)'
<1> SUFFICES ASSUME IInv, [Next]_vars, clean' PROVE FiledInv'
  OBVIOUS
<1>0. TypeOK /\ AwaitInv /\ DownIsEmpty /\ ReconcileInv
  BY DEF IInv
<1>s. CASE ServiceStarts
  BY <1>s, <1>0 DEF ServiceStarts, FiledInv, DownIsEmpty, NoAgent, BoundConns, mon
<1> SUFFICES ASSUME ~ServiceStarts PROVE FiledInv'
  BY <1>s
<1>d. DialInv /\ FiledInv
  BY CleanKept DEF IInv
<1> USE <1>0, <1>d DEF Goto
<1>1. CASE ReadSession \/ ReadFlagsFails \/ ReadFlags \/ SpawnFails
  <2>1. UNCHANGED <<proc, open, curSess, agents, writers>>
    BY <1>1 DEF ReadSession, ReadFlagsFails, ReadFlags, SpawnFails, mon
  <2> QED BY <2>1 DEF FiledInv, Live, BoundConns
<1>2. CASE CompareSession
  <2>1. CASE sess # curSess
    BY <1>2, <2>1, StopAgentsFiledInv DEF CompareSession, killAll
  <2>2. CASE sess = curSess
    BY <1>2, <2>2 DEF CompareSession, FiledInv, Live, BoundConns
  <2> QED BY <2>1, <2>2
<1>3. CASE Plan
  <2>1. PICK D \in SUBSET Desktop : stopAgents(D)
    BY <1>3 DEF Plan, PlanStop
  <2> QED BY <1>3, <2>1, StopAgentsFiledInv DEF Plan
<1>4. CASE MonitorStops
  BY <1>4, StopAgentsFiledInv DEF MonitorStops, killAll
<1>5. ASSUME NEW p \in Proc, Spawn(p) PROVE FiledInv'
  <2>1. \A d \in Desktop : agents[d].h # p
    BY <1>5 DEF Spawn, Referenced
  <2>2. \A d \in Desktop : agents[d].h # None => proc'[agents[d].h] = proc[agents[d].h]
    BY <1>5, <2>1 DEF Spawn, TypeOK, AgentProc
  <2>3. UNCHANGED <<agents, open, curSess, writers>>
    BY <1>5 DEF Spawn, mon
  <2> QED BY <2>2, <2>3 DEF FiledInv, Live, BoundConns
<1>6. CASE Accepted
  <2> DEFINE f == First(todo)
  <2>1. /\ f \in todo /\ f \in Desktop
        /\ cur \in Proc /\ got = cur /\ cur \in open /\ ~Filed(cur)
        /\ agents[f] = NoAgent
        /\ sess = curSess
        /\ Live(cur) => proc[cur].desk = f /\ proc[cur].sess = sess
    BY <1>6 DEF Accepted, AwaitInv, DialInv, ReconcileInv, First, TypeOK, Desktop
  <2>2. agents' = [agents EXCEPT ![f] = [h |-> cur, conn |-> cur]]
    BY <1>6, <2>1 DEF Accepted
  <2>3. UNCHANGED <<proc, open, curSess, writers>>
    BY <1>6 DEF Accepted
  <2>4. \A d \in Desktop \ {f} : agents'[d] = agents[d] /\ agents[d].h # cur
    BY <2>1, <2>2 DEF Filed, TypeOK
  <2>5. agents'[f].h = cur /\ agents'[f].conn = cur
    BY <2>1, <2>2 DEF TypeOK
  <2>6. BoundConns \subseteq BoundConns'
    BY <2>1, <2>4 DEF BoundConns, NoAgent
  <2> QED BY <2>1, <2>3, <2>4, <2>5, <2>6 DEF FiledInv, Live
<1>7. CASE AcceptTimeout
  <2>1. cur \in Proc /\ ~Filed(cur)
    BY <1>7 DEF AcceptTimeout, AwaitInv
  <2>2. \A d \in Desktop : agents[d].h # None => proc'[agents[d].h] = proc[agents[d].h]
    BY <1>7, <2>1 DEF AcceptTimeout, terminate, Filed, TypeOK, AgentProc
  <2>3. UNCHANGED <<agents, open, curSess, writers>>
    BY <1>7 DEF AcceptTimeout, mon
  <2> QED BY <2>2, <2>3 DEF FiledInv, Live, BoundConns
<1>8. CASE Rebind
  BY <1>8 DEF Rebind, FiledInv, Live, BoundConns
<1>9. ASSUME NEW p \in Proc, Dial(p) PROVE FiledInv'
  <2>1. p = cur /\ ~Filed(p)
    BY <1>9 DEF Dial, AcceptPending, DialInv, AwaitInv
  <2>2. \A d \in Desktop : agents[d].h # None => proc'[agents[d].h] = proc[agents[d].h]
    BY <1>9, <2>1 DEF Dial, Filed, TypeOK, AgentProc
  <2>3. UNCHANGED <<agents, curSess, writers>> /\ open' = open \cup {p}
    BY <1>9 DEF Dial, mon
  <2>4. p \notin writers
    BY <2>1 DEF Filed
  <2> QED BY <2>2, <2>3, <2>4 DEF FiledInv, Live, BoundConns
<1>10. ASSUME NEW p \in Proc, GiveUp(p) \/ AgentLoopEnds(p) \/ Dies(p) PROVE FiledInv'
  <2>1. UNCHANGED <<open, agents, curSess, writers>> /\ proc' = [proc EXCEPT ![p] = Exited]
    BY <1>10 DEF GiveUp, AgentLoopEnds, Dies, mon
  <2>2. \A q \in Proc : Live(q)' => Live(q) /\ proc'[q] = proc[q]
    BY <2>1 DEF TypeOK, Exited, Live
  <2> QED BY <2>1, <2>2 DEF FiledInv, BoundConns, TypeOK, AgentProc
<1>11. CASE StopRequested \/ ConsoleSwitches \/ \E s \in Session : LockToggles(s)
  <2>1. UNCHANGED <<proc, open, curSess, agents, writers>>
    BY <1>11 DEF StopRequested, ConsoleSwitches, LockToggles, mon
  <2> QED BY <2>1 DEF FiledInv, Live, BoundConns
<1>12. CASE ProcessExits
  BY <1>12 DEF ProcessExits, FiledInv, NoAgent, BoundConns
<1>13. CASE UNCHANGED vars
  BY <1>13 DEF vars, mon, FiledInv, Live, BoundConns
<1> QED
  BY <1>1, <1>2, <1>3, <1>4, <1>5, <1>6, <1>7, <1>8, <1>9, <1>10, <1>11, <1>12, <1>13
  DEF Next, Monitor, Agent, Environment

LEMMA StepStray == IInv /\ [Next]_vars => NoStrayAgent'
<1> SUFFICES ASSUME IInv, [Next]_vars, clean', svc' # "down",
                    NEW q \in Proc, Live(q)'
             PROVE  \/ \E d \in Desktop : q = agents'[d].h
                    \/ q = cur'
                    \/ proc'[q].st = "connected" /\ q \notin open'
  BY DEF NoStrayAgent
<1> DEFINE Kept == \/ \E d \in Desktop : q = agents'[d].h
                   \/ q = cur'
                   \/ proc'[q].st = "connected" /\ q \notin open'
<1>0. TypeOK /\ AwaitInv /\ DownIsEmpty /\ ReconcileInv
  BY DEF IInv
<1>s. CASE ServiceStarts
  <2>1. proc[q].st # "dialing" /\ proc' = proc /\ q \notin open'
    BY <1>s, <1>0 DEF ServiceStarts, DownIsEmpty
  <2> QED BY <2>1, <1>0 DEF Live, TypeOK, ProcState
<1> SUFFICES ASSUME ~ServiceStarts PROVE Kept
  BY <1>s
<1>u. svc # "down"
  BY DEF Next, Monitor, Agent, Environment, vars, ReadSession, ReadFlagsFails,
     ReadFlags, CompareSession, Plan, SpawnFails, Spawn, Accepted, AcceptTimeout,
     Rebind, MonitorStops, Dial, GiveUp, AgentLoopEnds, Dies, StopRequested,
     ProcessExits, ConsoleSwitches, LockToggles, Goto
<1>d. DialInv /\ NoStrayAgent
  BY CleanKept DEF IInv
<1>k. Live(q) => \/ \E d \in Desktop : q = agents[d].h
                 \/ q = cur
                 \/ proc[q].st = "connected" /\ q \notin open
  BY <1>u, <1>d, CleanKept DEF NoStrayAgent
<1> USE <1>0, <1>k DEF Goto
<1>1. ASSUME UNCHANGED <<agents, cur, proc, open>> PROVE Kept
  BY <1>1 DEF Live
<1>2. ASSUME NEW D \in SUBSET Desktop, stopAgents(D), UNCHANGED cur PROVE Kept
  <2>1. /\ \A d \in Desktop : agents'[d] = IF d \in D THEN NoAgent ELSE agents[d]
        /\ open' \subseteq open
        /\ proc'[q] = IF \E d \in D : agents[d].h = q THEN Exited ELSE proc[q]
    BY <1>2 DEF stopAgents
  <2>2. Live(q) /\ proc'[q] = proc[q] /\ \A d \in D : agents[d].h # q
    BY <2>1 DEF Live, Exited
  <2> QED BY <1>2, <2>1, <2>2
<1>3. CASE CompareSession \/ Plan \/ MonitorStops
  <2>1. UNCHANGED cur
    BY <1>3 DEF CompareSession, Plan, MonitorStops, locals
  <2>2. \/ UNCHANGED <<agents, proc, open>>
        \/ \E D \in SUBSET Desktop : stopAgents(D)
    BY <1>3 DEF CompareSession, Plan, PlanStop, MonitorStops, killAll
  <2> QED BY <1>1, <1>2, <2>1, <2>2
<1>4. ASSUME NEW p \in Proc, Spawn(p) PROVE Kept
  <2>1. q # p => proc'[q] = proc[q]
    BY <1>4 DEF Spawn, TypeOK
  <2>2. cur = None
    BY <1>4 DEF Spawn, AwaitInv
  <2> QED BY <1>4, <2>1, <2>2, ConstantsOK DEF ConstantsOK, Spawn, mon, Live
<1>5. CASE Accepted
  <2>1. /\ First(todo) \in Desktop
        /\ agents[First(todo)] = NoAgent
        /\ agents' = [agents EXCEPT ![First(todo)] = [h |-> cur, conn |-> got]]
        /\ UNCHANGED <<proc, open>>
    BY <1>5 DEF Accepted, AwaitInv, ReconcileInv, First, TypeOK, Desktop
  <2>2. \A d \in Desktop : q = agents[d].h => d # First(todo)
    BY <2>1, ConstantsOK DEF ConstantsOK, NoAgent
  <2>3. agents'[First(todo)].h = cur
        /\ \A d \in Desktop \ {First(todo)} : agents'[d] = agents[d]
    BY <2>1 DEF TypeOK
  <2> QED BY <2>1, <2>2, <2>3 DEF Live
<1>6. CASE AcceptTimeout
  <2>1. q # cur /\ proc'[q] = proc[q]
    BY <1>6 DEF AcceptTimeout, terminate, Live, TypeOK, Exited
  <2> QED BY <1>6, <2>1 DEF AcceptTimeout, mon, Live
<1>7. ASSUME NEW p \in Proc, Dial(p) PROVE Kept
  <2>1. p = cur /\ UNCHANGED <<cur, agents>> /\ open' = open \cup {p}
    BY <1>7, <1>u, <1>d DEF Dial, DialInv, mon
  <2>2. q # p => proc'[q] = proc[q]
    BY <1>7 DEF Dial, TypeOK
  <2> QED BY <2>1, <2>2 DEF Live
<1>8. ASSUME NEW p \in Proc, GiveUp(p) \/ AgentLoopEnds(p) \/ Dies(p) PROVE Kept
  <2>1. UNCHANGED <<cur, agents, open>> /\ proc' = [proc EXCEPT ![p] = Exited]
    BY <1>8 DEF GiveUp, AgentLoopEnds, Dies, mon, locals
  <2>2. q # p /\ proc'[q] = proc[q]
    BY <2>1 DEF TypeOK, Exited, Live
  <2> QED BY <2>1, <2>2 DEF Live
<1>9. CASE \/ ReadSession \/ ReadFlagsFails \/ ReadFlags \/ SpawnFails \/ Rebind
           \/ StopRequested \/ ConsoleSwitches \/ \E s \in Session : LockToggles(s)
           \/ UNCHANGED vars
  <2>1. UNCHANGED <<agents, cur, proc, open>>
    BY <1>9 DEF ReadSession, ReadFlagsFails, ReadFlags, SpawnFails, Rebind,
       StopRequested, ConsoleSwitches, LockToggles, vars, mon, locals
  <2> QED BY <1>1, <2>1
<1>10. ~ProcessExits
  BY DEF ProcessExits
<1> QED
  BY <1>3, <1>4, <1>5, <1>6, <1>7, <1>8, <1>9, <1>10
  DEF Next, Monitor, Agent, Environment

LEMMA StepIInv == IInv /\ [Next]_vars => IInv'
BY StepTypes, StepDown, StepAwait, StepReconcile, StepWriters, StepDial, StepFiled,
   StepStray
DEF IInv

LEMMA Invariance == Spec => []IInv
BY InitIInv, StepIInv, PTL DEF Spec

-----------------------------------------------------------------------------
(* The properties.                                                          *)

(* acceptWithTimeout pairs every agent process with its own connection,    *)
(* however many agents were late and however many Accept calls were        *)
(* abandoned, as long as no agent of an earlier service process was still  *)
(* dialing when this one started.                                          *)
THEOREM PairedConnHolds == Spec => []PairedConn
<1>1. IInv => PairedConn
  BY DEF IInv, FiledInv, PairedConn
<1> QED
  BY <1>1, Invariance, PTL

(* After every reconcile the fan-out is the set of the connections kept in *)
(* agents, with no condition on faults or restarts.                        *)
THEOREM WritersMatchAgentsHolds == Spec => []WritersMatchAgents
<1>1. IInv => WritersMatchAgents
  BY DEF IInv, WritersInv, WritersMatchAgents
<1> QED
  BY <1>1, Invariance, PTL

(* No event goes to an agent of another session or of the wrong desktop.   *)
THEOREM WritersInSessionHolds == Spec => []WritersInSession
<1>1. IInv => WritersInSession
  <2> SUFFICES ASSUME IInv, clean, NEW p \in writers \cap open,
                      proc[p].st = "connected"
               PROVE  /\ proc[p].sess = curSess
                      /\ \E d \in Desktop : agents[d].conn = p /\ proc[p].desk = d
    BY DEF WritersInSession
  <2>1. PICK d \in Desktop : agents[d].conn = p /\ p # None
    BY DEF IInv, FiledInv, BoundConns
  <2>2. agents[d].h = p /\ Live(p)
    BY <2>1 DEF IInv, FiledInv, Live
  <2> QED BY <2>1, <2>2 DEF IInv, FiledInv
<1> QED
  BY <1>1, Invariance, PTL

(* The monitor loses track of no agent process it has spawned.             *)
THEOREM NoStrayAgentHolds == Spec => []NoStrayAgent
<1>1. IInv => NoStrayAgent
  <2> SUFFICES ASSUME IInv, ~clean PROVE NoStrayAgent
    BY DEF IInv
  <2> QED BY DEF NoStrayAgent
<1> QED
  BY <1>1, Invariance, PTL

(* A step that ends a bound Default agent is a fault, a change of session, *)
(* or one of a stopping service: locking and unlocking is none of these.   *)
THEOREM DefaultSurvivesHolds == Spec => DefaultSurvives
<1>1. IInv /\ [Next]_vars => [DefaultKept]_vars
  <2> SUFFICES ASSUME IInv, Next, NEW p \in Proc,
                      clean, agents["Default"].h = p, Live(p),
                      proc'[p].st = "exited", left' = left,
                      curSess' = curSess, svc # "stopping"
               PROVE  FALSE
    BY DEF DefaultKept
  <2>0. TypeOK /\ AwaitInv /\ DownIsEmpty /\ ReconcileInv /\ DialInv /\ FiledInv
    BY DEF IInv
  <2>1. "Default" \in Desktop /\ p # None /\ Filed(p) /\ svc # "down"
    BY <2>0, ConstantsOK DEF ConstantsOK, Desktop, Filed, DownIsEmpty, NoAgent
  <2> USE <2>0, <2>1 DEF Goto
  <2>2. proc' # proc
    BY DEF Live
  <2>3. CASE CompareSession
    BY <2>2, <2>3 DEF CompareSession
  <2>4. CASE Plan
    <3>1. procAlive("Default") /\ "Default" \in todo
      BY <2>4 DEF Plan, procAlive, ReconcileInv
    <3>2. PICK D \in SUBSET Desktop : stopAgents(D) /\ "Default" \notin D
      BY <2>4, <3>1 DEF Plan, PlanStop
    <3>3. \A d \in D : agents[d].h # p
      BY <3>2 DEF FiledInv
    <3> QED BY <3>2, <3>3 DEF stopAgents, Live
  <2>5. CASE MonitorStops
    BY <2>5 DEF MonitorStops
  <2>6. ASSUME NEW q \in Proc, Spawn(q) PROVE FALSE
    <3>1. q # p
      BY <2>6 DEF Spawn, Live
    <3> QED BY <2>6, <3>1 DEF Spawn, Live, TypeOK
  <2>7. CASE AcceptTimeout
    <3>1. p # cur
      BY <2>7 DEF AcceptTimeout, AwaitInv
    <3> QED BY <2>7, <3>1 DEF AcceptTimeout, terminate, Live, TypeOK
  <2>8. ASSUME NEW q \in Proc, Dial(q) PROVE FALSE
    <3>1. proc'[p].st \in {proc[p].st, "connected"}
      BY <2>8 DEF Dial, TypeOK, ProcState
    <3> QED BY <3>1 DEF Live
  <2>9. ASSUME NEW q \in Proc, GiveUp(q) \/ AgentLoopEnds(q) PROVE FALSE
    <3>1. q = p
      BY <2>9 DEF GiveUp, AgentLoopEnds, Live, TypeOK
    <3>2. p \in open
      BY DEF FiledInv
    <3>3. proc[p].st # "dialing"
      BY DEF DialInv, AwaitInv
    <3> QED BY <2>9, <3>1, <3>2, <3>3 DEF GiveUp, AgentLoopEnds
  <2>10. ASSUME NEW q \in Proc, Dies(q) PROVE FALSE
    BY <2>10, FaultTypes DEF Dies, Fault
  <2>11. \/ ReadSession \/ ReadFlagsFails \/ ReadFlags \/ SpawnFails \/ Accepted
         \/ Rebind \/ Environment
         => proc' = proc
    BY DEF ReadSession, ReadFlagsFails, ReadFlags, SpawnFails, Accepted, Rebind,
       Environment, StopRequested, ProcessExits, ServiceStarts, ConsoleSwitches,
       LockToggles
  <2> QED
    BY <2>2, <2>3, <2>4, <2>5, <2>6, <2>7, <2>8, <2>9, <2>10, <2>11
    DEF Next, Monitor, Agent
<1> QED
  BY <1>1, Invariance, PTL DEF Spec, DefaultSurvives

=============================================================================
