----------------------------- MODULE InjectPipe -----------------------------
(***************************************************************************)
(* How events reach the agents: pipeInjector (server/pipe_inject.go) over  *)
(* fanoutWriter (fanout.go), fed by one goroutine per phone through        *)
(* applyEvent (inject_apply.go), read by runAgentLoop in each agent, and   *)
(* rebound by the agent monitor (stopAgent, killAll and rebindWriters of   *)
(* service_windows.go).                                                    *)
(*                                                                         *)
(* The injector's mutex is held across the whole fan-out write, which can  *)
(* block on an agent that does not read; the monitor needs the same mutex  *)
(* to change the fan-out.                                                  *)
(*                                                                         *)
(* Event number i is the i-th to be emitted.  A pipe holds whole lines and *)
(* the fragments left by writes that ran into their deadline.  Whether an  *)
(* agent reads is up to the agent: nothing here is assumed about it.       *)
(***************************************************************************)
EXTENDS Naturals, Sequences

CONSTANTS
  Client,       (* the phones' goroutines                                   *)
  Target,       (* the agents that can be spawned, each once                *)
  Free,         (* the owner of a mutex nobody holds                        *)
  PipeCap,      (* lines a pipe takes before a write blocks                 *)
  MaxEvents     (* bound on the events the phones send                      *)

ASSUME ConstantsOK ==
  /\ Free \notin Client
  /\ PipeCap \in Nat \ {0}
  /\ MaxEvents \in Nat

VARIABLES
  pend,      (* per phone, what is left to emit of the event in hand        *)
  cpc,       (* per phone: idle, wants the mutex, writes                    *)
  rest,      (* per phone, the targets its Write has still to serve         *)
  sent,      (* events received from the phones so far                      *)
  mu,        (* pipeInjector.mu                                             *)
  w,         (* pipeInjector.w: the fan-out's targets, {} for nil           *)
  emitted,   (* the emissions so far, in the order of the mutex             *)
  agents,    (* the monitor's agents                                        *)
  mpc,       (* the monitor: idle, about to detach, about to rebind         *)
  agent,     (* per target: fresh, live, gone                               *)
  open,      (* targets whose connection the service has not closed         *)
  pipe,      (* per target, what was written and not yet read               *)
  frag,      (* per target, whether the agent holds an unterminated line    *)
  last,      (* per target, the last emission its agent has applied, or the *)
             (* last one made when it was spawned                           *)
  applied,   (* history, per target: how many events its agent has applied  *)
  owed       (* history, per target: the phones a click of which it was     *)
             (* sent the press of, and was not offered the release yet      *)

phones  == <<pend, cpc, rest, sent>>
injector == <<mu, w, emitted>>
monitor == <<agents, mpc>>
ends    == <<agent, open, pipe, frag, last, applied>>
vars    == <<phones, injector, monitor, ends, owed>>

Kind == {"press", "release", "other"}

(* What applyEvent emits for one received event; a click is a press and a   *)
(* release, each an emission of its own.                                    *)
Expansions == {<<"press", "release">>, <<"other">>}

(* What a write leaves in a pipe: its line, or a fragment of it.            *)
Chunk == [ev : Nat, whole : BOOLEAN]

TypeOK ==
  /\ pend \in [Client -> Seq(Kind)]
  /\ cpc \in [Client -> {"idle", "lock", "write"}]
  /\ rest \in [Client -> SUBSET Target]
  /\ sent \in 0..MaxEvents
  /\ mu \in Client \cup {Free}
  /\ w \subseteq Target
  /\ emitted \in Nat
  /\ agents \subseteq Target
  /\ mpc \in {"idle", "detach", "rebind"}
  /\ agent \in [Target -> {"fresh", "live", "gone"}]
  /\ open \subseteq Target
  /\ pipe \in [Target -> Seq(Chunk)]
  /\ \A t \in Target : Len(pipe[t]) <= PipeCap + 1
  /\ frag \in [Target -> BOOLEAN]
  /\ last \in [Target -> Nat]
  /\ applied \in [Target -> Nat]
  /\ owed \in [Target -> SUBSET Client]

-----------------------------------------------------------------------------
(* A phone's goroutine.                                                     *)

Receive(c) ==
  /\ cpc[c] = "idle"
  /\ sent < MaxEvents
  /\ sent' = sent + 1
  /\ \E e \in Expansions : pend' = [pend EXCEPT ![c] = e]
  /\ cpc' = [cpc EXCEPT ![c] = "lock"]
  /\ UNCHANGED <<rest, injector, monitor, ends, owed>>

(* What follows an emission: the second half of a click, or the next event. *)
Emitted(c) ==
  /\ pend' = [pend EXCEPT ![c] = Tail(@)]
  /\ cpc' = [cpc EXCEPT ![c] = IF Len(pend[c]) = 1 THEN "idle" ELSE "lock"]

(* Planted bug: the early return without the unlock.                        *)
EmitNowhereStaysLocked(c) ==
  /\ cpc[c] = "lock" /\ mu = Free
  /\ w = {}
  /\ emitted' = emitted + 1
  /\ mu' = c
  /\ Emitted(c)
  /\ UNCHANGED <<rest, sent, w, monitor, ends, owed>>

(* emit takes the mutex; without a writer it drops the event.               *)
EmitNowhere(c) ==
  /\ cpc[c] = "lock" /\ mu = Free
  /\ w = {}
  /\ emitted' = emitted + 1
  /\ Emitted(c)
  /\ UNCHANGED <<rest, sent, mu, w, monitor, ends, owed>>

EmitLocks(c) ==
  /\ cpc[c] = "lock" /\ mu = Free
  /\ w # {}
  /\ emitted' = emitted + 1
  /\ mu' = c
  /\ cpc' = [cpc EXCEPT ![c] = "write"]
  /\ rest' = [rest EXCEPT ![c] = w]
  /\ UNCHANGED <<pend, sent, w, monitor, ends, owed>>

Served(c, t) ==
  /\ cpc[c] = "write"
  /\ t \in rest[c]
  /\ rest' = [rest EXCEPT ![c] = @ \ {t}]
  /\ UNCHANGED <<pend, cpc, sent, injector, monitor, agent, open, frag, last, applied>>

Writable(t) == t \in open /\ agent[t] = "live"

(* Planted bug: a line that went through is written again.                  *)
WriteLineRetried(c, t) ==
  /\ cpc[c] = "write" /\ t \in rest[c]
  /\ Writable(t) /\ Len(pipe[t]) < PipeCap
  /\ pipe' = [pipe EXCEPT ![t] = Append(@, [ev |-> emitted, whole |-> TRUE])]
  /\ UNCHANGED <<phones, injector, monitor, agent, open, frag, last, applied, owed>>

WriteLine(c, t) ==
  /\ Served(c, t)
  /\ Writable(t) /\ Len(pipe[t]) < PipeCap
  /\ pipe' = [pipe EXCEPT ![t] = Append(@, [ev |-> emitted, whole |-> TRUE])]
  /\ owed' = [owed EXCEPT ![t] = IF Head(pend[c]) = "press" THEN @ \cup {c} ELSE @ \ {c}]

(* Planted bug: no deadline, a full pipe blocks for good.                   *)
WriteDeadlineNever(c, t) == Served(c, t) /\ FALSE /\ UNCHANGED <<pipe, owed>>

(* Planted bug: what is left of a line is written however full the pipe is. *)
WriteDeadlinePilesUp(c, t) ==
  /\ Served(c, t)
  /\ Writable(t) /\ Len(pipe[t]) >= PipeCap
  /\ pipe' = [pipe EXCEPT ![t] = Append(@, [ev |-> emitted, whole |-> FALSE])]
  /\ UNCHANGED owed

(* Two seconds without room in the pipe: the error is swallowed, and part   *)
(* of the line may have gone through.                                       *)
WriteDeadline(c, t) ==
  /\ Served(c, t)
  /\ Writable(t) /\ Len(pipe[t]) >= PipeCap
  /\ \/ UNCHANGED pipe
     \/ /\ Len(pipe[t]) = PipeCap
        /\ pipe' = [pipe EXCEPT ![t] = Append(@, [ev |-> emitted, whole |-> FALSE])]
  /\ owed' = [owed EXCEPT ![t] = IF Head(pend[c]) = "press" THEN @ ELSE @ \ {c}]

(* The connection is closed or its agent is gone.                           *)
WriteError(c, t) ==
  /\ Served(c, t)
  /\ ~Writable(t)
  /\ UNCHANGED <<pipe, owed>>

EmitUnlocks(c) ==
  /\ cpc[c] = "write" /\ rest[c] = {}
  /\ mu' = Free
  /\ Emitted(c)
  /\ UNCHANGED <<rest, sent, w, emitted, monitor, ends, owed>>

-----------------------------------------------------------------------------
(* An agent.                                                                *)

(* runAgentLoop takes the next line.  What follows an unterminated fragment *)
(* makes one unreadable line with it, which is skipped.                     *)
Read(t) ==
  LET chunk == Head(pipe[t])
  IN /\ agent[t] = "live"
     /\ pipe[t] # <<>>
     /\ pipe' = [pipe EXCEPT ![t] = Tail(@)]
     /\ frag' = [frag EXCEPT ![t] = ~chunk.whole]
     /\ IF chunk.whole /\ ~frag[t]
          THEN /\ last' = [last EXCEPT ![t] = chunk.ev]
               /\ applied' = [applied EXCEPT ![t] = @ + 1]
          ELSE UNCHANGED <<last, applied>>
     /\ UNCHANGED <<phones, injector, monitor, agent, open, owed>>

Dies(t) ==
  /\ agent[t] = "live"
  /\ agent' = [agent EXCEPT ![t] = "gone"]
  /\ UNCHANGED <<phones, injector, monitor, open, pipe, frag, last, applied, owed>>

-----------------------------------------------------------------------------
(* The monitor, as far as it touches the pipes.                             *)

(* stopAgent closes the connection before anything else needs the mutex,    *)
(* and terminates the process.                                              *)
CloseAgents(S) ==
  /\ agents' = agents \ S
  /\ open' = open \ S
  /\ agent' = [t \in Target |-> IF t \in S THEN "gone" ELSE agent[t]]

Stop(t) ==
  /\ mpc \in {"idle", "rebind"}
  /\ t \in agents
  /\ CloseAgents({t})
  /\ mpc' = "rebind"
  /\ UNCHANGED <<phones, injector, pipe, frag, last, applied, owed>>

KillAll ==
  /\ mpc = "idle"
  /\ CloseAgents(agents)
  /\ mpc' = "detach"
  /\ UNCHANGED <<phones, injector, pipe, frag, last, applied, owed>>

(* killAll's setWriter(nil).                                                *)
Detach ==
  /\ mpc = "detach" /\ mu = Free
  /\ w' = {}
  /\ mpc' = "rebind"
  /\ UNCHANGED <<phones, mu, emitted, agents, ends, owed>>

(* spawnOne brings an agent's connection.                                   *)
Start(t) ==
  /\ mpc \in {"idle", "rebind"}
  /\ agent[t] = "fresh"
  /\ agent' = [agent EXCEPT ![t] = "live"]
  /\ open' = open \cup {t}
  /\ agents' = agents \cup {t}
  /\ last' = [last EXCEPT ![t] = emitted]
  /\ mpc' = "rebind"
  /\ UNCHANGED <<phones, injector, pipe, frag, applied, owed>>

(* Planted bug: one agent is bound, as before the fan-out.                  *)
RebindOne ==
  /\ mpc = "rebind" /\ mu = Free
  /\ w' \in {{t} : t \in agents}
  /\ mpc' = "idle"
  /\ UNCHANGED <<phones, mu, emitted, agents, ends, owed>>

(* rebindWriters' setWriter.                                                *)
Rebind ==
  /\ mpc = "rebind" /\ mu = Free
  /\ w' = agents
  /\ mpc' = "idle"
  /\ UNCHANGED <<phones, mu, emitted, agents, ends, owed>>

-----------------------------------------------------------------------------

Init ==
  /\ pend = [c \in Client |-> <<>>]
  /\ cpc = [c \in Client |-> "idle"]
  /\ rest = [c \in Client |-> {}]
  /\ sent = 0
  /\ mu = Free /\ w = {} /\ emitted = 0
  /\ agents = {} /\ mpc = "idle"
  /\ agent = [t \in Target |-> "fresh"]
  /\ open = {}
  /\ pipe = [t \in Target |-> <<>>]
  /\ frag = [t \in Target |-> FALSE]
  /\ last = [t \in Target |-> 0]
  /\ applied = [t \in Target |-> 0]
  /\ owed = [t \in Target |-> {}]

Write(c) == \E t \in Target : WriteLine(c, t) \/ WriteDeadline(c, t) \/ WriteError(c, t)

Emit(c) == EmitNowhere(c) \/ EmitLocks(c)

SetWriter == Detach \/ Rebind

Next ==
  \/ \E c \in Client : Receive(c) \/ Emit(c) \/ Write(c) \/ EmitUnlocks(c)
  \/ \E t \in Target : Read(t) \/ Dies(t) \/ Stop(t) \/ Start(t)
  \/ KillAll \/ SetWriter

Spec == Init /\ [][Next]_vars

(* A goroutine that can run runs, and a write ends at its deadline.  Go's   *)
(* mutex serves a waiter it has made wait, so taking it is strongly fair.   *)
Fairness ==
  /\ \A c \in Client : /\ SF_vars(Emit(c))
                       /\ WF_vars(Write(c) \/ EmitUnlocks(c))
  /\ SF_vars(SetWriter)

FairSpec == Spec /\ Fairness

-----------------------------------------------------------------------------
(* Properties.                                                              *)

(* Every agent applies the events in the order of the mutex, each at most  *)
(* once and none from before it was spawned, whatever was lost in between: *)
(* fragments, deadlines, rebinding and several phones do not reorder or    *)
(* repeat anything.                                                        *)
Broadcast == INSTANCE EventBroadcast
  WITH active <- {t \in Target : agent[t] = "live"}

InOrderAtMostOnce == Broadcast!Spec

(* Phone c still has to send the release of a click.                       *)
InClick(c) == pend[c] # <<>> /\ pend[c][Len(pend[c])] = "release"

(* An agent that was sent the press of a click is also offered its release *)
(* once the phone's goroutine is done with the click, although the two are *)
(* separate emissions and the monitor may rebind, or detach everything, in *)
(* between: only an agent that was let go or died, or one whose pipe took  *)
(* nothing for two seconds, can be left with a button down.                *)
ClickWhole ==
  \A t \in agents : agent[t] = "live" => \A c \in owed[t] : InClick(c)

(* A phone's goroutine gets through every event, though agents may hang:   *)
(* fanout.go's deadline bounds each write and so the time the mutex is     *)
(* held (fanout.go:16-17).                                                 *)
EventsGetThrough == \A c \in Client : cpc[c] # "idle" ~> cpc[c] = "idle"

(* The monitor is never wedged behind a write to a hung agent              *)
(* (service_windows.go:300-304).                                           *)
MonitorGetsThrough == mpc # "idle" ~> mpc = "idle"

=============================================================================
