-------------------------- MODULE InjectPipeProofs --------------------------
(***************************************************************************)
(* Proofs about InjectPipe, for any number of phones, agents and events    *)
(* and any capacity of the pipes: its types, that no agent is left with a  *)
(* button down, and that it implements EventBroadcast.                     *)
(***************************************************************************)
EXTENDS InjectPipe, SequenceTheorems, TLAPS

(* What a phone's goroutine can have in hand.                               *)
Pends == {<<>>, <<"other">>, <<"press", "release">>, <<"release">>}

(* A phone is idle when it has nothing in hand, and writes as long as it    *)
(* holds the mutex.                                                         *)
PhoneInv ==
  \A c \in Client :
    /\ pend[c] \in Pends
    /\ cpc[c] = "idle" <=> pend[c] = <<>>
    /\ cpc[c] = "write" <=> mu = c

(* The fan-out is not changed under a write.                                *)
WriteInv == \A c \in Client : cpc[c] = "write" => rest[c] \subseteq w

(* Nobody knows an agent that was not spawned.                              *)
FreshInv ==
  \A t \in Target : agent[t] = "fresh" =>
    /\ t \notin w /\ t \notin agents
    /\ pipe[t] = <<>>
    /\ owed[t] = {}

AgentsInv ==
  /\ agents \subseteq open
  /\ mpc = "detach" => agents = {}

(* What waits in a pipe is newer than what its agent has applied, in order, *)
(* and older than what is being written to it.                              *)
PipeInv ==
  \A t \in Target :
    /\ last[t] <= emitted
    /\ \A i \in 1..Len(pipe[t]) : last[t] < pipe[t][i].ev /\ pipe[t][i].ev <= emitted
    /\ \A i, j \in 1..Len(pipe[t]) : i < j => pipe[t][i].ev < pipe[t][j].ev
    /\ \A c \in Client : cpc[c] = "write" /\ t \in rest[c] =>
         /\ last[t] < emitted
         /\ \A i \in 1..Len(pipe[t]) : pipe[t][i].ev < emitted

(* The agent of a click in progress is bound, and while the release is      *)
(* being written its turn is still to come.                                 *)
OwedInv ==
  \A t \in agents : agent[t] = "live" => \A c \in owed[t] :
    /\ t \in w
    /\ InClick(c)
    /\ cpc[c] = "write" /\ Head(pend[c]) = "release" => t \in rest[c]

IInv == TypeOK /\ PhoneInv /\ WriteInv /\ FreshInv /\ AgentsInv /\ PipeInv /\ OwedInv

-----------------------------------------------------------------------------
(* The three things a phone can have in hand, spelt out.                    *)
LEMMA Tuples ==
  /\ <<>> \in Seq(Kind) /\ Len(<<>>) = 0
  /\ <<"other">> \in Seq(Kind) /\ Len(<<"other">>) = 1 /\ <<"other">>[1] = "other"
  /\ <<"release">> \in Seq(Kind) /\ Len(<<"release">>) = 1 /\ <<"release">>[1] = "release"
  /\ <<"press", "release">> \in Seq(Kind) /\ Len(<<"press", "release">>) = 2
  /\ <<"press", "release">>[1] = "press" /\ <<"press", "release">>[2] = "release"
<1>1. <<>> \in Seq(Kind) /\ Len(<<>>) = 0
  OBVIOUS
<1>2. <<"other">> \in Seq(Kind) /\ Len(<<"other">>) = 1 /\ <<"other">>[1] = "other"
  BY DEF Kind
<1>3. <<"release">> \in Seq(Kind) /\ Len(<<"release">>) = 1 /\ <<"release">>[1] = "release"
  BY DEF Kind
<1>4. <<"press", "release">> \in Seq(Kind) /\ Len(<<"press", "release">>) = 2
  BY DEF Kind
<1>5. <<"press", "release">>[1] = "press" /\ <<"press", "release">>[2] = "release"
  OBVIOUS
<1> QED
  BY <1>1, <1>2, <1>3, <1>4, <1>5

(* Emitting the only emission in hand leaves nothing, emitting a press      *)
(* leaves its release.                                                      *)
LEMMA Tails ==
  /\ Tail(<<"other">>) = <<>> /\ Tail(<<"release">>) = <<>>
  /\ Tail(<<"press", "release">>) = <<"release">>
<1>1. Tail(<<"other">>) = <<>>
  OBVIOUS
<1>2. Tail(<<"release">>) = <<>>
  OBVIOUS
<1>3. Tail(<<"press", "release">>) = <<"release">>
  <2> DEFINE p == <<"press", "release">>
  <2>1. Tail(p) \in Seq(Kind) /\ Len(Tail(p)) = 1 /\ Tail(p)[1] = "release"
    BY Tuples, HeadTailProperties
  <2> QED
    BY <2>1, Tuples, SeqEqual
<1> QED
  BY <1>1, <1>2, <1>3

(* What a phone receives.                                                   *)
LEMMA Received ==
  ASSUME NEW e \in Expansions
  PROVE  e \in Pends /\ e # <<>> /\ e \in Seq(Kind)
<1>1. CASE e = <<"other">>
  BY <1>1, Tuples DEF Pends
<1>2. CASE e = <<"press", "release">>
  BY <1>2, Tuples DEF Pends
<1> QED
  BY <1>1, <1>2 DEF Expansions

(* What an emission leaves in hand.                                         *)
LEMMA Emitting ==
  ASSUME NEW p \in Pends, p # <<>>
  PROVE  /\ p \in Seq(Kind) /\ Tail(p) \in Pends /\ Tail(p) \in Seq(Kind)
         /\ Len(p) = 1 <=> Tail(p) = <<>>
<1>1. CASE p = <<"other">>
  BY <1>1, Tuples, Tails DEF Pends
<1>2. CASE p = <<"release">>
  BY <1>2, Tuples, Tails DEF Pends
<1>3. CASE p = <<"press", "release">>
  BY <1>3, Tuples, Tails DEF Pends
<1> QED
  BY <1>1, <1>2, <1>3 DEF Pends

(* A click in progress is at its press or at its release.                   *)
LEMMA Clicking ==
  ASSUME NEW p \in Pends, p # <<>>, p[Len(p)] = "release"
  PROVE  /\ Head(p) # "press" => Head(p) = "release" /\ Tail(p) = <<>>
         /\ Head(p) # "release" => Tail(p) = <<"release">>
<1>1. CASE p = <<"other">>
  BY <1>1, Tuples
<1>2. CASE p = <<"release">>
  BY <1>2, Tuples, Tails
<1>3. CASE p = <<"press", "release">>
  BY <1>3, Tuples, Tails
<1> QED
  BY <1>1, <1>2, <1>3 DEF Pends

(* A press in hand has its release behind it.                               *)
LEMMA Pressing ==
  ASSUME NEW p \in Pends, p # <<>>, Head(p) = "press"
  PROVE  p[Len(p)] = "release"
<1>1. p # <<"other">> /\ p # <<"release">>
  BY Tuples
<1> QED
  BY <1>1, Tuples DEF Pends

(* Appending to a pipe and taking from it.                                  *)
LEMMA Appended ==
  ASSUME NEW q \in Seq(Chunk), NEW x \in Chunk
  PROVE  /\ Append(q, x) \in Seq(Chunk)
         /\ Len(Append(q, x)) = Len(q) + 1
         /\ \A i \in 1..Len(Append(q, x)) :
              Append(q, x)[i] = IF i <= Len(q) THEN q[i] ELSE x
  OBVIOUS

LEMMA Taken ==
  ASSUME NEW q \in Seq(Chunk), q # <<>>
  PROVE  /\ Head(q) = q[1] /\ Head(q) \in Chunk
         /\ Tail(q) \in Seq(Chunk)
         /\ Len(q) \in Nat \ {0}
         /\ Len(Tail(q)) = Len(q) - 1
         /\ \A i \in 1..Len(Tail(q)) : Tail(q)[i] = q[i + 1]
  BY HeadTailProperties

(* The initial state satisfies the invariant.                               *)
LEMMA InitOK == Init => IInv
<1> SUFFICES ASSUME Init PROVE IInv
  OBVIOUS
<1> USE ConstantsOK DEF ConstantsOK, Init
<1>1. TypeOK
  BY Tuples DEF TypeOK
<1>2. PhoneInv
  BY DEF PhoneInv, Pends
<1>3. WriteInv /\ FreshInv /\ AgentsInv /\ PipeInv /\ OwedInv
  BY Tuples DEF WriteInv, FreshInv, AgentsInv, PipeInv, OwedInv
<1> QED
  BY <1>1, <1>2, <1>3 DEF IInv

-----------------------------------------------------------------------------
(* The three ends of a write to one agent.                                  *)
WriteTo(c, t) == WriteLine(c, t) \/ WriteDeadline(c, t) \/ WriteError(c, t)

(* A write leaves at most one chunk in the pipe, of the event being emitted.*)
LEMMA WriteEffect ==
  ASSUME IInv, NEW c \in Client, NEW t \in Target, WriteTo(c, t)
  PROVE  \/ UNCHANGED pipe
         \/ \E x \in Chunk : /\ x.ev = emitted
                             /\ Writable(t) /\ Len(pipe[t]) <= PipeCap
                             /\ pipe' = [pipe EXCEPT ![t] = Append(@, x)]
<1>1. emitted \in Nat /\ Len(pipe[t]) \in Nat /\ PipeCap \in Nat
  BY ConstantsOK DEF ConstantsOK, IInv, TypeOK
<1>2. \A b \in BOOLEAN : [ev |-> emitted, whole |-> b] \in Chunk
  BY <1>1 DEF Chunk
<1>3. CASE WriteLine(c, t)
  <2> DEFINE x == [ev |-> emitted, whole |-> TRUE]
  <2>1. x \in Chunk /\ x.ev = emitted
    BY <1>2
  <2>2. /\ Writable(t) /\ Len(pipe[t]) <= PipeCap
        /\ pipe' = [pipe EXCEPT ![t] = Append(@, x)]
    BY <1>1, <1>3 DEF WriteLine
  <2> QED
    BY <2>1, <2>2
<1>4. CASE WriteDeadline(c, t)
  <2> DEFINE x == [ev |-> emitted, whole |-> FALSE]
  <2>1. x \in Chunk /\ x.ev = emitted
    BY <1>2
  <2>2. CASE Len(pipe[t]) = PipeCap /\ pipe' = [pipe EXCEPT ![t] = Append(@, x)]
    <3>1. Writable(t) /\ Len(pipe[t]) <= PipeCap
      BY <1>1, <1>4, <2>2 DEF WriteDeadline
    <3> QED
      BY <2>1, <2>2, <3>1
  <2> QED
    BY <1>4, <2>2 DEF WriteDeadline
<1>5. CASE WriteError(c, t)
  BY <1>5 DEF WriteError
<1> QED
  BY <1>3, <1>4, <1>5 DEF WriteTo

(* What a write leaves owed: the release of a press that went through, and  *)
(* nothing after a release.                                                 *)
LEMMA WriteOwes ==
  ASSUME IInv, NEW c \in Client, NEW t \in Target, WriteTo(c, t)
  PROVE  /\ Served(c, t)
         /\ owed' \in [Target -> SUBSET Client]
         /\ \A u \in Target : u # t => owed'[u] = owed[u]
         /\ owed'[t] \subseteq owed[t] \cup {c}
         /\ Writable(t) /\ Head(pend[c]) # "press" => c \notin owed'[t]
         /\ Writable(t) \/ owed' = owed
<1>1. owed \in [Target -> SUBSET Client]
  BY DEF IInv, TypeOK
<1>2. CASE WriteLine(c, t)
  BY <1>1, <1>2 DEF WriteLine
<1>3. CASE WriteDeadline(c, t)
  BY <1>1, <1>3 DEF WriteDeadline
<1>4. CASE WriteError(c, t)
  BY <1>1, <1>4 DEF WriteError
<1> QED
  BY <1>2, <1>3, <1>4 DEF WriteTo

-----------------------------------------------------------------------------
(* Every step keeps the types.                                              *)
LEMMA TypeStep == IInv /\ [Next]_vars => TypeOK'
<1> SUFFICES ASSUME IInv, [Next]_vars PROVE TypeOK'
  OBVIOUS
<1> USE ConstantsOK DEF ConstantsOK, IInv, TypeOK, phones, injector, monitor, ends
<1>1. ASSUME NEW c \in Client, Receive(c) PROVE TypeOK'
  BY <1>1, Received DEF Receive
<1>2. ASSUME NEW c \in Client, cpc[c] # "idle", Emitted(c)
      PROVE  /\ pend' \in [Client -> Seq(Kind)]
             /\ cpc' \in [Client -> {"idle", "lock", "write"}]
  BY <1>2, Emitting DEF Emitted, PhoneInv
<1>3. ASSUME NEW c \in Client, EmitNowhere(c) PROVE TypeOK'
  BY <1>3, <1>2 DEF EmitNowhere
<1>4. ASSUME NEW c \in Client, EmitLocks(c) PROVE TypeOK'
  BY <1>4 DEF EmitLocks
<1>5. ASSUME NEW c \in Client, NEW t \in Target, WriteTo(c, t) PROVE TypeOK'
  <2>1. Served(c, t) /\ owed' \in [Target -> SUBSET Client]
    BY <1>5, WriteOwes
  <2>2. CASE UNCHANGED pipe
    BY <2>1, <2>2 DEF Served
  <2>3. ASSUME NEW x \in Chunk, Len(pipe[t]) <= PipeCap,
               pipe' = [pipe EXCEPT ![t] = Append(@, x)]
        PROVE  pipe' \in [Target -> Seq(Chunk)] /\ \A u \in Target : Len(pipe'[u]) <= PipeCap + 1
    <3> DEFINE q == Append(pipe[t], x)
    <3>1. q \in Seq(Chunk) /\ Len(q) <= PipeCap + 1
      BY <2>3, Appended
    <3>2. pipe' = [pipe EXCEPT ![t] = q]
      BY <2>3
    <3> HIDE DEF q
    <3> QED
      BY <3>1, <3>2
  <2> QED
    BY <1>5, <2>1, <2>2, <2>3, WriteEffect DEF Served
<1>8. ASSUME NEW c \in Client, EmitUnlocks(c) PROVE TypeOK'
  BY <1>8, <1>2 DEF EmitUnlocks
<1>9. ASSUME NEW t \in Target, Read(t) PROVE TypeOK'
  <2> DEFINE q == pipe[t]
  <2>0. q \in Seq(Chunk) /\ q # <<>> /\ pipe' = [pipe EXCEPT ![t] = Tail(q)]
    BY <1>9 DEF Read
  <2>1. pipe' \in [Target -> Seq(Chunk)] /\ \A u \in Target : Len(pipe'[u]) <= PipeCap + 1
    <3>1. Tail(q) \in Seq(Chunk) /\ Len(Tail(q)) <= Len(q) /\ Len(q) <= PipeCap + 1
      BY <2>0, Taken
    <3> QED
      BY <2>0, <3>1
  <2>2. Head(pipe[t]).ev \in Nat /\ Head(pipe[t]).whole \in BOOLEAN
    BY <1>9, Taken DEF Read, Chunk
  <2>3. last' \in [Target -> Nat] /\ applied' \in [Target -> Nat] /\ frag' \in [Target -> BOOLEAN]
    BY <1>9, <2>2 DEF Read
  <2> QED
    BY <1>9, <2>1, <2>3 DEF Read
<1>10. ASSUME NEW t \in Target, Dies(t) PROVE TypeOK'
  BY <1>10 DEF Dies
<1>11. ASSUME NEW t \in Target, Stop(t) PROVE TypeOK'
  BY <1>11 DEF Stop, CloseAgents
<1>12. CASE KillAll
  BY <1>12 DEF KillAll, CloseAgents
<1>13. ASSUME NEW t \in Target, Start(t) PROVE TypeOK'
  BY <1>13 DEF Start
<1>14. CASE SetWriter
  BY <1>14 DEF SetWriter, Detach, Rebind
<1>15. CASE UNCHANGED vars
  BY <1>15 DEF vars
<1> QED
  BY <1>1, <1>3, <1>4, <1>5, <1>8, <1>9, <1>10, <1>11, <1>12, <1>13, <1>14, <1>15
     DEF Next, Emit, Write, WriteTo

(* The phones and the mutex.                                                *)
LEMMA PhoneStep == IInv /\ [Next]_vars => PhoneInv'
<1> SUFFICES ASSUME IInv, [Next]_vars PROVE PhoneInv'
  OBVIOUS
<1> USE ConstantsOK DEF ConstantsOK, IInv, PhoneInv
<1>1. /\ pend \in [Client -> Seq(Kind)]
      /\ cpc \in [Client -> {"idle", "lock", "write"}]
      /\ mu \in Client \cup {Free}
  BY DEF TypeOK
<1>2. ASSUME NEW c \in Client, Receive(c) PROVE PhoneInv'
  BY <1>1, <1>2, Received DEF Receive, injector
<1>3. ASSUME NEW c \in Client, cpc[c] # "idle", Emitted(c)
      PROVE  /\ pend'[c] \in Pends
             /\ cpc'[c] = "idle" <=> pend'[c] = <<>>
             /\ cpc'[c] # "write"
             /\ \A d \in Client : d # c => pend'[d] = pend[d] /\ cpc'[d] = cpc[d]
  BY <1>1, <1>3, Emitting DEF Emitted
<1>4. ASSUME NEW c \in Client, EmitNowhere(c) PROVE PhoneInv'
  BY <1>3, <1>4 DEF EmitNowhere
<1>5. ASSUME NEW c \in Client, EmitLocks(c) PROVE PhoneInv'
  BY <1>1, <1>5 DEF EmitLocks
<1>6. ASSUME NEW c \in Client, EmitUnlocks(c) PROVE PhoneInv'
  BY <1>3, <1>6 DEF EmitUnlocks
<1>7. CASE UNCHANGED <<pend, cpc, mu>>
  BY <1>7
<1>8. ASSUME NEW c \in Client, Write(c) PROVE UNCHANGED <<pend, cpc, mu>>
  BY <1>8, WriteOwes DEF Write, WriteTo, Served, injector
<1> QED
  BY <1>2, <1>4, <1>5, <1>6, <1>7, <1>8
     DEF Next, Emit, Read, Dies, Stop, Start, KillAll, SetWriter, Detach, Rebind, vars, phones, injector

(* A writer holds the mutex, so that nobody changes the fan-out.            *)
LEMMA WriteStep == IInv /\ [Next]_vars => WriteInv'
<1> SUFFICES ASSUME IInv, [Next]_vars, NEW c \in Client, cpc'[c] = "write"
             PROVE  rest'[c] \subseteq w'
  BY DEF WriteInv
<1> USE ConstantsOK DEF ConstantsOK, IInv
<1>1. /\ cpc \in [Client -> {"idle", "lock", "write"}]
      /\ rest \in [Client -> SUBSET Target]
      /\ mu \in Client \cup {Free}
  BY DEF TypeOK
<1>2. mu' = c
  BY PhoneStep DEF PhoneInv
<1>3. CASE UNCHANGED <<cpc, rest, w>>
  BY <1>3 DEF WriteInv
<1>4. ASSUME NEW d \in Client, Receive(d) \/ EmitNowhere(d) \/ EmitUnlocks(d)
      PROVE  rest'[c] \subseteq w'
  <2>1. UNCHANGED <<rest, w>> /\ (d # c => cpc'[c] = cpc[c]) /\ cpc'[d] # "write"
    BY <1>1, <1>4 DEF Receive, EmitNowhere, EmitUnlocks, Emitted, injector
  <2> QED
    BY <2>1 DEF WriteInv
<1>5. ASSUME NEW d \in Client, EmitLocks(d) PROVE rest'[c] \subseteq w'
  BY <1>1, <1>2, <1>5 DEF EmitLocks
<1>6. ASSUME NEW d \in Client, NEW t \in Target, WriteTo(d, t) PROVE rest'[c] \subseteq w'
  BY <1>1, <1>6, WriteOwes DEF Served, injector, WriteInv
<1>7. CASE SetWriter
  BY <1>1, <1>2, <1>7 DEF SetWriter, Detach, Rebind, phones
<1> QED
  BY <1>3, <1>4, <1>5, <1>6, <1>7
     DEF Next, Emit, Write, WriteTo, Read, Dies, Stop, Start, KillAll, vars, phones, injector

(* Only agents that were spawned are known to anybody.                      *)
LEMMA FreshStep == IInv /\ [Next]_vars => FreshInv'
<1> SUFFICES ASSUME IInv, [Next]_vars, NEW t \in Target, agent'[t] = "fresh"
             PROVE  t \notin w' /\ t \notin agents' /\ pipe'[t] = <<>> /\ owed'[t] = {}
  BY DEF FreshInv
<1> USE DEF IInv, FreshInv
<1>1. /\ agent \in [Target -> {"fresh", "live", "gone"}]
      /\ pipe \in [Target -> Seq(Chunk)]
  BY DEF TypeOK
<1>2. CASE UNCHANGED <<w, agents, agent, pipe, owed>>
  BY <1>2
<1>3. ASSUME NEW c \in Client, NEW u \in Target, WriteTo(c, u)
      PROVE  t \notin w' /\ t \notin agents' /\ pipe'[t] = <<>> /\ owed'[t] = {}
  <2>1. UNCHANGED <<w, agents, agent>>
    BY <1>3, WriteOwes DEF Served, injector, monitor
  <2>2. pipe'[t] = pipe[t] /\ owed'[t] = owed[t]
    BY <1>1, <1>3, <2>1, WriteEffect, WriteOwes DEF Writable
  <2> QED
    BY <2>1, <2>2
<1>4. ASSUME NEW u \in Target, Read(u) \/ Dies(u) \/ Start(u)
      PROVE  t \notin w' /\ t \notin agents' /\ pipe'[t] = <<>> /\ owed'[t] = {}
  BY <1>1, <1>4 DEF Read, Dies, Start, injector, monitor
<1>5. ASSUME (\E u \in Target : Stop(u)) \/ KillAll
      PROVE  t \notin w' /\ t \notin agents' /\ pipe'[t] = <<>> /\ owed'[t] = {}
  BY <1>1, <1>5 DEF Stop, KillAll, CloseAgents, injector
<1>6. CASE SetWriter
  BY <1>6 DEF SetWriter, Detach, Rebind, ends
<1> QED
  BY <1>2, <1>3, <1>4, <1>5, <1>6
     DEF Next, Emit, Write, WriteTo, Receive, EmitNowhere, EmitLocks, EmitUnlocks, vars,
         injector, monitor, ends

(* The monitor's agents are connected, and none are left when it detaches.  *)
LEMMA AgentsStep == IInv /\ [Next]_vars => AgentsInv'
<1> SUFFICES ASSUME IInv, [Next]_vars PROVE AgentsInv'
  OBVIOUS
<1> USE DEF IInv, AgentsInv
<1>1. CASE UNCHANGED <<agents, open, mpc>>
  BY <1>1
<1>2. ASSUME NEW t \in Target, Stop(t) \/ Start(t) PROVE AgentsInv'
  BY <1>2 DEF Stop, Start, CloseAgents
<1>3. CASE KillAll
  BY <1>3 DEF KillAll, CloseAgents
<1>4. CASE SetWriter
  BY <1>4 DEF SetWriter, Detach, Rebind, ends
<1>5. ASSUME NEW c \in Client, Write(c) PROVE UNCHANGED <<agents, open, mpc>>
  BY <1>5, WriteOwes DEF Write, WriteTo, Served, monitor
<1> QED
  BY <1>1, <1>2, <1>3, <1>4, <1>5
     DEF Next, Emit, Receive, EmitNowhere, EmitLocks, EmitUnlocks, Read, Dies, vars, monitor, ends

(* What waits in the pipes stays in order and newer than what was applied.  *)
LEMMA PipeStep == IInv /\ [Next]_vars => PipeInv'
<1> SUFFICES ASSUME IInv, [Next]_vars PROVE PipeInv'
  OBVIOUS
<1> USE ConstantsOK DEF ConstantsOK, IInv, PipeInv
<1>1. /\ cpc \in [Client -> {"idle", "lock", "write"}]
      /\ rest \in [Client -> SUBSET Target]
      /\ mu \in Client \cup {Free}
      /\ emitted \in Nat /\ last \in [Target -> Nat]
      /\ agent \in [Target -> {"fresh", "live", "gone"}]
      /\ pipe \in [Target -> Seq(Chunk)]
  BY DEF TypeOK
<1>2. \A t \in Target : /\ Len(pipe[t]) \in Nat
                        /\ \A i \in 1..Len(pipe[t]) : pipe[t][i].ev \in Nat
  <2> SUFFICES ASSUME NEW t \in Target
               PROVE  /\ Len(pipe[t]) \in Nat
                      /\ \A i \in 1..Len(pipe[t]) : pipe[t][i].ev \in Nat
    OBVIOUS
  <2>1. pipe[t] \in Seq(Chunk)
    BY <1>1
  <2>2. Len(pipe[t]) \in Nat /\ \A i \in 1..Len(pipe[t]) : pipe[t][i] \in Chunk
    BY <2>1, LenProperties, ElementOfSeq
  <2> QED
    BY <2>2 DEF Chunk
<1>3. \A c \in Client : cpc'[c] = "write" <=> mu' = c
  BY PhoneStep DEF PhoneInv
<1>4. CASE UNCHANGED <<cpc, rest, emitted, pipe, last>>
  BY <1>4
<1>5. ASSUME NEW c \in Client, Receive(c) \/ EmitUnlocks(c) PROVE PipeInv'
  <2>1. /\ UNCHANGED <<rest, emitted, pipe, last>>
        /\ \A d \in Client : cpc'[d] = "write" => cpc[d] = "write"
    BY <1>1, <1>5 DEF Receive, EmitUnlocks, Emitted, injector, ends
  <2> QED
    BY <2>1
<1>6. ASSUME NEW c \in Client, Emit(c) PROVE PipeInv'
  <2>1. emitted' = emitted + 1 /\ UNCHANGED <<pipe, last>>
    BY <1>6 DEF Emit, EmitNowhere, EmitLocks, ends
  <2> QED
    BY <1>1, <1>2, <2>1
<1>7. ASSUME NEW c \in Client, NEW t \in Target, WriteTo(c, t) PROVE PipeInv'
  <2>1. /\ cpc[c] = "write" /\ mu = c /\ t \in rest[c]
        /\ UNCHANGED <<cpc, emitted, last, mu>>
        /\ rest' = [rest EXCEPT ![c] = @ \ {t}]
    BY <1>7, WriteOwes DEF Served, injector, PhoneInv
  <2>2. CASE UNCHANGED pipe
    BY <1>1, <2>1, <2>2
  <2>3. ASSUME NEW x \in Chunk, x.ev = emitted, pipe' = [pipe EXCEPT ![t] = Append(@, x)]
        PROVE  PipeInv'
    <3> SUFFICES ASSUME NEW u \in Target
                 PROVE  /\ last[u] <= emitted
                        /\ \A i \in 1..Len(pipe'[u]) : last[u] < pipe'[u][i].ev /\ pipe'[u][i].ev <= emitted
                        /\ \A i, j \in 1..Len(pipe'[u]) : i < j => pipe'[u][i].ev < pipe'[u][j].ev
                        /\ \A d \in Client : cpc[d] = "write" /\ u \in rest'[d] =>
                             /\ last[u] < emitted
                             /\ \A i \in 1..Len(pipe'[u]) : pipe'[u][i].ev < emitted
      BY <2>1
    <3>1. CASE u # t
      BY <1>1, <2>1, <2>3, <3>1
    <3>2. CASE u = t
      <4> DEFINE q == pipe[t]
                 r == Append(q, x)
      <4>1. \A d \in Client : cpc[d] = "write" => u \notin rest'[d]
        BY <1>1, <2>1, <3>2 DEF PhoneInv
      <4>2. /\ pipe'[u] = r /\ Len(r) = Len(q) + 1
            /\ \A i \in 1..Len(r) : r[i] = IF i <= Len(q) THEN q[i] ELSE x
        BY <1>1, <2>3, <3>2, Appended
      <4>3. /\ last[t] < emitted
            /\ \A i \in 1..Len(q) : /\ q[i].ev \in Nat /\ last[t] < q[i].ev /\ q[i].ev < emitted
                                    /\ \A j \in 1..Len(q) : i < j => q[i].ev < q[j].ev
        <5>1. last[t] < emitted /\ \A i \in 1..Len(q) : q[i].ev < emitted
          BY <2>1
        <5>2. \A i \in 1..Len(q) : q[i].ev \in Nat
          BY <1>2
        <5>3. \A i \in 1..Len(q) : last[t] < q[i].ev
          OBVIOUS
        <5>4. \A i, j \in 1..Len(q) : i < j => q[i].ev < q[j].ev
          OBVIOUS
        <5> QED
          BY <5>1, <5>2, <5>3, <5>4
      <4>4. Len(q) \in Nat /\ emitted \in Nat /\ last[t] \in Nat
        BY <1>1, <1>2
      <4> HIDE DEF q, r
      <4>5. \A i \in 1..Len(r) : \/ i \in 1..Len(q) /\ r[i] = q[i]
                                 \/ i = Len(q) + 1 /\ r[i] = x
        BY <4>2, <4>4
      <4>6. \A i \in 1..Len(r) : last[t] < r[i].ev /\ r[i].ev <= emitted
        BY <2>3, <4>3, <4>4, <4>5
      <4>7. \A i, j \in 1..Len(r) : i < j => r[i].ev < r[j].ev
        BY <2>3, <4>3, <4>4, <4>5
      <4> QED
        BY <3>2, <4>1, <4>2, <4>3, <4>4, <4>6, <4>7
    <3> QED
      BY <3>1, <3>2
  <2> QED
    BY <1>7, <2>2, <2>3, WriteEffect
<1>8. ASSUME NEW t \in Target, Read(t) PROVE PipeInv'
  <2> DEFINE q == pipe[t]
             r == Tail(q)
             k == last'[t]
  <2>1. UNCHANGED <<cpc, rest, emitted>>
    BY <1>8 DEF Read, phones, injector
  <2>2. /\ q \in Seq(Chunk) /\ q # <<>>
        /\ pipe' = [pipe EXCEPT ![t] = r]
        /\ \A u \in Target : u # t => last'[u] = last[u]
        /\ k \in {last[t], Head(q).ev}
    BY <1>1, <1>8 DEF Read
  <2>3. /\ Head(q) = q[1] /\ Len(q) \in Nat \ {0} /\ Len(r) = Len(q) - 1
        /\ \A i \in 1..Len(r) : r[i] = q[i + 1]
    BY <2>2, Taken
  <2>4. /\ last[t] <= emitted
        /\ \A i \in 1..Len(q) : /\ q[i].ev \in Nat /\ last[t] < q[i].ev /\ q[i].ev <= emitted
                                /\ \A j \in 1..Len(q) : i < j => q[i].ev < q[j].ev
    BY <1>2
  <2>5. ASSUME NEW c \in Client, cpc[c] = "write", t \in rest[c]
        PROVE  last[t] < emitted /\ \A i \in 1..Len(q) : q[i].ev < emitted
    BY <2>5
  <2>6. emitted \in Nat /\ last[t] \in Nat
    BY <1>1
  <2>7. \A u \in Target : u # t => pipe'[u] = pipe[u]
    BY <1>1, <2>2
  <2>8. pipe'[t] = r
    BY <1>1, <2>2
  <2> HIDE DEF q, r, k
  <2>9. /\ 1 \in 1..Len(q) /\ Len(r) \in Nat
        /\ \A i \in 1..Len(r) : i \in Nat /\ i + 1 \in 1..Len(q) /\ i + 1 > 1 /\ r[i] = q[i + 1]
    BY <2>3
  <2>10. k <= emitted /\ \A i \in 1..Len(r) : k < r[i].ev /\ r[i].ev <= emitted
    <3>1. /\ q[1].ev \in Nat /\ last[t] < q[1].ev /\ q[1].ev <= emitted
          /\ k = last[t] \/ k = q[1].ev
      BY <2>2, <2>3, <2>4, <2>9
    <3>2. ASSUME NEW i \in 1..Len(r) PROVE k < r[i].ev /\ r[i].ev <= emitted
      <4>1. r[i] = q[i + 1] /\ i + 1 \in 1..Len(q) /\ 1 < i + 1
        BY <2>9
      <4>2. /\ q[i + 1].ev \in Nat /\ q[i + 1].ev <= emitted /\ q[1].ev < q[i + 1].ev
        BY <2>4, <2>9, <4>1
      <4> QED BY <2>6, <3>1, <4>1, <4>2
    <3> QED BY <2>6, <3>1, <3>2
  <2>11. \A i, j \in 1..Len(r) : i < j => r[i].ev < r[j].ev
    <3>1. ASSUME NEW i \in 1..Len(r), NEW j \in 1..Len(r), i < j PROVE r[i].ev < r[j].ev
      <4>1. /\ r[i] = q[i + 1] /\ i + 1 \in 1..Len(q)
            /\ r[j] = q[j + 1] /\ j + 1 \in 1..Len(q)
        BY <2>9
      <4>2. i + 1 < j + 1
        BY <2>9, <3>1
      <4> QED BY <2>4, <4>1, <4>2
    <3> QED BY <3>1
  <2>12. ASSUME NEW c \in Client, cpc[c] = "write", t \in rest[c]
         PROVE  k < emitted /\ \A i \in 1..Len(r) : r[i].ev < emitted
    BY <2>2, <2>3, <2>5, <2>9, <2>12
  <2>13. ASSUME NEW u \in Target
         PROVE  /\ last'[u] <= emitted
                /\ \A i \in 1..Len(pipe'[u]) : last'[u] < pipe'[u][i].ev /\ pipe'[u][i].ev <= emitted
                /\ \A i, j \in 1..Len(pipe'[u]) : i < j => pipe'[u][i].ev < pipe'[u][j].ev
                /\ \A c \in Client : cpc[c] = "write" /\ u \in rest[c] =>
                     /\ last'[u] < emitted
                     /\ \A i \in 1..Len(pipe'[u]) : pipe'[u][i].ev < emitted
    <3>1. CASE u = t
      BY <2>8, <2>10, <2>11, <2>12, <3>1 DEF k
    <3>2. CASE u # t
      BY <2>2, <2>7, <3>2
    <3> QED
      BY <3>1, <3>2
  <2> QED
    BY <2>1, <2>13
<1>9. ASSUME NEW t \in Target, Start(t) PROVE PipeInv'
  <2>1. /\ UNCHANGED <<cpc, rest, emitted, pipe>>
        /\ last' = [last EXCEPT ![t] = emitted]
        /\ agent[t] = "fresh"
    BY <1>9 DEF Start, phones, injector
  <2>2. pipe[t] = <<>> /\ Len(pipe[t]) = 0 /\ \A c \in Client : cpc[c] = "write" => t \notin rest[c]
    BY <2>1, Tuples DEF FreshInv, WriteInv
  <2> QED
    BY <1>1, <2>1, <2>2
<1> QED
  BY <1>4, <1>5, <1>6, <1>7, <1>8, <1>9
     DEF Next, Write, WriteTo, Dies, Stop, KillAll, SetWriter, Detach, Rebind, vars, phones,
         injector, ends

(* The agents of the clicks in progress stay bound until the release is     *)
(* offered.                                                                 *)
LEMMA OwedStep == IInv /\ [Next]_vars => OwedInv'
<1> SUFFICES ASSUME IInv, [Next]_vars,
                    NEW t \in agents', agent'[t] = "live", NEW c \in owed'[t]
             PROVE  /\ t \in w'
                    /\ InClick(c)'
                    /\ cpc'[c] = "write" /\ Head(pend'[c]) = "release" => t \in rest'[c]
  BY DEF OwedInv
<1> DEFINE Goal == /\ t \in w'
                   /\ InClick(c)'
                   /\ cpc'[c] = "write" /\ Head(pend'[c]) = "release" => t \in rest'[c]
<1> USE ConstantsOK DEF ConstantsOK, IInv
<1>1. /\ cpc \in [Client -> {"idle", "lock", "write"}]
      /\ pend \in [Client -> Seq(Kind)]
      /\ rest \in [Client -> SUBSET Target]
      /\ mu \in Client \cup {Free}
      /\ agents \subseteq Target
      /\ agent \in [Target -> {"fresh", "live", "gone"}]
      /\ owed \in [Target -> SUBSET Client]
  BY DEF TypeOK
<1>2. t \in Target /\ c \in Client
  BY TypeStep DEF TypeOK
<1>3. ASSUME t \in agents, agent[t] = "live", c \in owed[t]
      PROVE  /\ t \in w
             /\ pend[c] \in Pends /\ pend[c] # <<>> /\ pend[c][Len(pend[c])] = "release"
             /\ cpc[c] # "idle"
             /\ cpc[c] = "write" /\ Head(pend[c]) = "release" => t \in rest[c]
  BY <1>2, <1>3 DEF OwedInv, InClick, PhoneInv
<1>4. CASE UNCHANGED <<w, pend, cpc, rest, owed>> /\ t \in agents /\ agent[t] = "live"
  BY <1>3, <1>4 DEF InClick
<1>5. ASSUME NEW d \in Client, Receive(d) PROVE Goal
  <2>1. t \in agents /\ agent[t] = "live" /\ c \in owed[t] /\ w' = w /\ rest' = rest
    BY <1>5 DEF Receive, injector, monitor, ends
  <2>2. d # c
    BY <1>3, <1>5, <2>1 DEF Receive
  <2>3. pend'[c] = pend[c] /\ cpc'[c] = cpc[c]
    BY <1>1, <1>2, <1>5, <2>2 DEF Receive
  <2> QED
    BY <1>3, <2>1, <2>3 DEF InClick
<1>6. ASSUME NEW d \in Client, EmitNowhere(d) PROVE Goal
  <2>1. t \in agents /\ agent[t] = "live" /\ c \in owed[t] /\ w = {}
    BY <1>6 DEF EmitNowhere, monitor, ends
  <2> QED
    BY <1>3, <2>1
<1>7. ASSUME NEW d \in Client, EmitLocks(d) PROVE Goal
  <2>1. t \in agents /\ agent[t] = "live" /\ c \in owed[t] /\ w' = w /\ pend' = pend
    BY <1>7 DEF EmitLocks, monitor, ends
  <2>2. CASE d = c
    BY <1>1, <1>2, <1>3, <1>7, <2>1, <2>2 DEF EmitLocks, InClick
  <2>3. CASE d # c
    BY <1>1, <1>2, <1>3, <1>7, <2>1, <2>3 DEF EmitLocks, InClick
  <2> QED
    BY <2>2, <2>3
<1>8. ASSUME NEW d \in Client, NEW u \in Target, WriteTo(d, u) PROVE Goal
  <2>1. /\ t \in agents /\ agent[t] = "live" /\ w' = w /\ pend' = pend /\ cpc' = cpc
        /\ cpc[d] = "write" /\ u \in rest[d] /\ rest' = [rest EXCEPT ![d] = @ \ {u}]
    BY <1>8, WriteOwes DEF Served, injector, monitor
  <2>2. Writable(t)
    BY <2>1 DEF AgentsInv, Writable
  <2>3. CASE c \in owed[t] /\ (u = t /\ d = c => Head(pend[c]) = "press")
    <3>1. cpc[c] = "write" /\ Head(pend[c]) = "release" => t \in rest'[c]
      BY <1>1, <1>2, <1>3, <2>1, <2>3
    <3> QED
      BY <1>3, <2>1, <2>3, <3>1 DEF InClick
  <2>4. CASE u = t /\ d = c /\ Head(pend[c]) = "press"
    <3>1. pend[c] \in Pends /\ pend[c] # <<>> /\ rest[c] \subseteq w
      BY <1>1, <1>2, <2>1, <2>4 DEF PhoneInv, WriteInv
    <3> QED
      BY <2>1, <2>4, <3>1, Pressing DEF InClick
  <2> QED
    BY <1>2, <1>8, <2>2, <2>3, <2>4, WriteOwes
<1>9. ASSUME NEW d \in Client, EmitUnlocks(d) PROVE Goal
  <2>1. t \in agents /\ agent[t] = "live" /\ c \in owed[t] /\ w' = w /\ rest' = rest
    BY <1>9 DEF EmitUnlocks, monitor, ends
  <2>2. CASE d # c
    BY <1>1, <1>2, <1>3, <1>9, <2>1, <2>2 DEF EmitUnlocks, Emitted, InClick
  <2>3. CASE d = c
    <3>1. Head(pend[c]) # "release"
      BY <1>3, <1>9, <2>1, <2>3 DEF EmitUnlocks
    <3>2. Tail(pend[c]) = <<"release">>
      BY <1>3, <2>1, <3>1, Clicking
    <3>3. pend'[c] = <<"release">> /\ cpc'[c] # "write"
      BY <1>1, <1>2, <1>9, <2>3, <3>2 DEF EmitUnlocks, Emitted
    <3> QED
      BY <1>3, <2>1, <3>3, Tuples DEF InClick
  <2> QED
    BY <2>2, <2>3
<1>10. ASSUME NEW u \in Target, Start(u) PROVE Goal
  <2>1. u # t
    BY <1>2, <1>10 DEF Start, FreshInv
  <2>2. /\ t \in agents /\ agent[t] = "live"
        /\ UNCHANGED <<w, pend, cpc, rest, owed>>
    BY <1>1, <1>2, <1>10, <2>1 DEF Start, phones, injector
  <2> QED
    BY <1>4, <2>2
<1>11. ASSUME NEW u \in Target, Dies(u) PROVE Goal
  <2>1. /\ t \in agents /\ agent[t] = "live"
        /\ UNCHANGED <<w, pend, cpc, rest, owed>>
    BY <1>1, <1>2, <1>11 DEF Dies, phones, injector, monitor
  <2> QED
    BY <1>4, <2>1
<1>12. ASSUME (\E u \in Target : Stop(u)) \/ KillAll PROVE Goal
  <2>1. /\ t \in agents /\ agent[t] = "live"
        /\ UNCHANGED <<w, pend, cpc, rest, owed>>
    BY <1>1, <1>2, <1>12 DEF Stop, KillAll, CloseAgents, phones, injector
  <2> QED
    BY <1>4, <2>1
<1>13. CASE SetWriter
  <2>1. t \in agents /\ agent[t] = "live" /\ c \in owed[t] /\ UNCHANGED <<pend, cpc, rest>>
    BY <1>13 DEF SetWriter, Detach, Rebind, phones, ends
  <2>2. t \in w'
    BY <1>13, <2>1 DEF SetWriter, Detach, Rebind, AgentsInv
  <2> QED
    BY <1>3, <2>1, <2>2 DEF InClick
<1>14. CASE UNCHANGED vars \/ \E u \in Target : Read(u)
  BY <1>4, <1>14 DEF Read, vars, phones, injector, monitor, ends
<1> QED
  BY <1>5, <1>6, <1>7, <1>8, <1>9, <1>10, <1>11, <1>12, <1>13, <1>14 DEF Next, Emit, Write, WriteTo

(* The invariant, and what it says of the types and the clicks.             *)
THEOREM Invariance == Spec => []IInv
<1>1. IInv /\ [Next]_vars => IInv'
  BY TypeStep, PhoneStep, WriteStep, FreshStep, AgentsStep, PipeStep, OwedStep DEF IInv
<1> QED
  BY InitOK, <1>1, PTL DEF Spec

(* Every variable keeps its type, and a pipe never holds more than it takes *)
(* and one fragment.                                                        *)
THEOREM TypeCorrect == Spec => []TypeOK
  BY Invariance, PTL DEF IInv

(* An agent that was sent the press of a click is offered its release:      *)
(* pipeInjector's two emissions of a click and rebindWriters in between.    *)
THEOREM ClickWholeHolds == Spec => []ClickWhole
<1>1. IInv => ClickWhole
  BY DEF IInv, OwedInv, ClickWhole
<1> QED
  BY Invariance, <1>1, PTL

-----------------------------------------------------------------------------
(* InjectPipe implements EventBroadcast: the agents that may apply events   *)
(* are the live ones, whether or not the fan-out reaches them.              *)

LEMMA BroadcastInit == Init => Broadcast!Init
  BY DEF Init, Broadcast!Init

(* An emission is one whether it finds agents or not.                       *)
LEMMA EmitRefines ==
  ASSUME IInv, NEW c \in Client, Emit(c)
  PROVE  Broadcast!Emit
  BY DEF Emit, EmitNowhere, EmitLocks, monitor, ends, Broadcast!Emit

(* What a read applies was waiting in the pipe: it is newer than what was   *)
(* applied before, and was emitted.                                         *)
LEMMA ReadRefines ==
  ASSUME IInv, NEW t \in Target, Read(t)
  PROVE  Broadcast!Apply(t) \/ UNCHANGED Broadcast!vars
<1> DEFINE q == pipe[t]
<1>1. /\ q \in Seq(Chunk) /\ q # <<>>
      /\ last \in [Target -> Nat] /\ emitted \in Nat
  BY DEF IInv, TypeOK, Read
<1>2. Head(q) = q[1] /\ Head(q).ev \in Nat /\ 1 \in 1..Len(q)
  BY <1>1, Taken DEF Chunk
<1>3. last[t] < Head(q).ev /\ Head(q).ev <= emitted
  BY <1>2 DEF IInv, PipeInv
<1>4. Head(q).ev \in (last[t] + 1)..emitted
  BY <1>1, <1>2, <1>3
<1>5. UNCHANGED <<emitted, agent>> /\ agent[t] = "live"
  BY DEF Read, injector
<1>6. CASE Head(q).whole /\ ~frag[t]
  <2>1. /\ last' = [last EXCEPT ![t] = Head(q).ev]
        /\ applied' = [applied EXCEPT ![t] = @ + 1]
    BY <1>6 DEF Read
  <2> QED
    BY <1>4, <1>5, <2>1 DEF Broadcast!Apply
<1>7. CASE ~(Head(q).whole /\ ~frag[t])
  BY <1>5, <1>7 DEF Read, Broadcast!vars
<1> QED
  BY <1>6, <1>7

(* A spawned agent joins with what is emitted from then on.                 *)
LEMMA StartRefines ==
  ASSUME IInv, NEW t \in Target, Start(t)
  PROVE  Broadcast!Join(t)
<1>1. agent \in [Target -> {"fresh", "live", "gone"}]
  BY DEF IInv, TypeOK
<1> QED
  BY <1>1 DEF Start, injector, Broadcast!Join

(* Agents that stop being live leave.                                       *)
LEMMA LeaveRefines ==
  ASSUME IInv, UNCHANGED <<emitted, last, applied>>,
         \A t \in Target : agent'[t] = "live" => agent[t] = "live"
  PROVE  (\E S \in SUBSET Target : Broadcast!Leave(S)) \/ UNCHANGED Broadcast!vars
<1> DEFINE left == {t \in Target : agent[t] = "live" /\ agent'[t] # "live"}
<1>1. CASE left = {}
  BY <1>1 DEF Broadcast!vars
<1>2. CASE left # {}
  <2>1. Broadcast!Leave(left) /\ left \in SUBSET Target
    BY <1>2 DEF Broadcast!Leave
  <2> HIDE DEF left
  <2> QED
    BY <2>1 DEF Broadcast!Leave
<1> QED
  BY <1>1, <1>2

LEMMA StepRefines == IInv /\ [Next]_vars => [Broadcast!Next]_(Broadcast!vars)
<1> SUFFICES ASSUME IInv, [Next]_vars
             PROVE  Broadcast!Next \/ UNCHANGED Broadcast!vars
  OBVIOUS
<1>1. CASE UNCHANGED <<emitted, last, applied, agent>>
  BY <1>1 DEF Broadcast!vars
<1>2. ASSUME NEW c \in Client, Emit(c) PROVE Broadcast!Next
  BY <1>2, EmitRefines DEF Broadcast!Next
<1>3. ASSUME NEW c \in Client, Write(c) PROVE UNCHANGED <<emitted, last, applied, agent>>
  BY <1>3, WriteOwes DEF Write, WriteTo, Served, injector
<1>4. ASSUME NEW t \in Target, Read(t) PROVE Broadcast!Next \/ UNCHANGED Broadcast!vars
  BY <1>4, ReadRefines DEF Broadcast!Next
<1>5. ASSUME NEW t \in Target, Start(t) PROVE Broadcast!Next
  BY <1>5, StartRefines DEF Broadcast!Next
<1>6. ASSUME (\E t \in Target : Dies(t) \/ Stop(t)) \/ KillAll
      PROVE  Broadcast!Next \/ UNCHANGED Broadcast!vars
  <2>1. agent \in [Target -> {"fresh", "live", "gone"}]
    BY DEF IInv, TypeOK
  <2>2. /\ UNCHANGED <<emitted, last, applied>>
        /\ \A t \in Target : agent'[t] = "live" => agent[t] = "live"
    BY <1>6, <2>1 DEF Dies, Stop, KillAll, CloseAgents, injector
  <2> QED
    BY <2>2, LeaveRefines DEF Broadcast!Next
<1> QED
  BY <1>1, <1>2, <1>3, <1>4, <1>5, <1>6
     DEF Next, Receive, EmitUnlocks, SetWriter, Detach, Rebind, vars, injector, ends

(* Every agent applies the events in the order of the injector's mutex,     *)
(* each at most once and none from before it was spawned, whatever was lost *)
(* in between.                                                              *)
THEOREM ImplementsBroadcast == Spec => InOrderAtMostOnce
<1>1. Init => Broadcast!Init
  BY BroadcastInit
<1>2. IInv /\ [Next]_vars => [Broadcast!Next]_(Broadcast!vars)
  BY StepRefines
<1> QED
  BY <1>1, <1>2, Invariance, PTL DEF Spec, InOrderAtMostOnce, Broadcast!Spec

=============================================================================
