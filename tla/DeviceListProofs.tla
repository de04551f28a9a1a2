--------------------------- MODULE DeviceListProofs ---------------------------
(***************************************************************************)
(* What the runs of DeviceList show of two sessions holds of any number of *)
(* them, and whatever the bounds: the list on the window is never of a     *)
(* past that the window has been told is over.                             *)
(*                                                                         *)
(* Three invariants carry the proof.  Registries says that a registry is   *)
(* exactly the sessions that are authenticated and not yet deregistered    *)
(* with its process.  Standalone says what may lie between the registry    *)
(* and the screen of the stand-alone window: a posted refresh, or a        *)
(* session that has yet to notify.  Freshness counts the paints that the   *)
(* panel has yet to draw: those that come early enough to be of the past   *)
(* are the first "behind" of them, and all others show the truth.          *)
(***************************************************************************)
EXTENDS DeviceList, FiniteSetTheorems, SequenceTheorems, TLAPS

USE DEF Process

-----------------------------------------------------------------------------
(* The invariants.                                                         *)

InRegistry == {"joining", "serving", "dropped"}

Registries ==
  /\ \A p \in Process : \A i \in DOMAIN reg[p] :
       at[reg[p][i]] = p /\ phase[reg[p][i]] \in InRegistry
  /\ \A s \in Session : phase[s] \in InRegistry =>
       \E i \in DOMAIN reg[at[s]] : reg[at[s]][i] = s

Standalone ==
  mode = "standalone" =>
    /\ port = "window" /\ ~svc.running /\ tick.at = "idle"
    /\ \A s \in Session : at[s] = "window"
    /\ \A i \in DOMAIN gui : gui[i].do = "refresh"
    /\ populated => watched
    /\ StandaloneLive

(* Where a paint stands among the paints posted.                           *)
Rank(q, i) == Cardinality({j \in Paints(q) : j <= i})

(* What the tick in progress takes with it is the truth.                   *)
TickFresh ==
  /\ tick.at = "snapshot" => port = "window"
  /\ tick.at = "post" => tick.devices = Source

Freshness ==
  mode = "panel" =>
    /\ populated
    /\ tick.at = "query" => port # "window"
    /\ behind = 0 => shown = Source
    /\ \A i \in Paints(gui) : behind <= Rank(gui, i) => gui[i].devices = Source
    /\ behind <= Cardinality(Paints(gui)) + 1 => TickFresh

IInv == TypeOK /\ Registries /\ Standalone /\ Freshness


-----------------------------------------------------------------------------
(* Lemmas about the operators of the model.                                *)

Distinct(q) == \A i, j \in DOMAIN q : q[i] = q[j] => i = j

(* A deregistered session is gone from the registry; everybody else stays, *)
(* and nobody is there twice.                                              *)
LEMMA WithoutRemoves ==
  ASSUME NEW q \in Seq(Session), NEW s \in Session, Distinct(q)
  PROVE  /\ Without(q, s) \in Seq(Session)
         /\ Distinct(Without(q, s))
         /\ \A i \in DOMAIN Without(q, s) :
              Without(q, s)[i] # s /\ \E j \in DOMAIN q : Without(q, s)[i] = q[j]
         /\ \A j \in DOMAIN q : q[j] # s =>
              \E i \in DOMAIN Without(q, s) : Without(q, s)[i] = q[j]
<1>1. CASE \E i \in DOMAIN q : q[i] = s
  <2> DEFINE k == CHOOSE i \in DOMAIN q : q[i] = s
             a == SubSeq(q, 1, k - 1)
             b == SubSeq(q, k + 1, Len(q))
             w == a \o b
  <2>1. k \in 1..Len(q) /\ q[k] = s
    BY <1>1
  <2>2. Without(q, s) = w
    BY <1>1 DEF Without
  <2> HIDE DEF k
  <2>a. /\ a \in Seq(Session) /\ Len(a) = k - 1
        /\ \A i \in 1..(k - 1) : a[i] = q[i]
    <3>1. \A i \in 1..(k - 1) : q[i] \in Session
      BY <2>1
    <3> QED  BY <3>1, <2>1, SubSeqProperties
  <2>b. /\ b \in Seq(Session) /\ Len(b) = Len(q) - k
        /\ \A i \in 1..(Len(q) - k) : b[i] = q[k + i]
    <3>1. \A i \in (k + 1)..Len(q) : q[i] \in Session
      BY <2>1
    <3> QED  BY <3>1, <2>1, SubSeqProperties
  <2> HIDE DEF a, b
  <2>3. w \in Seq(Session) /\ Len(w) = Len(q) - 1
    BY <2>1, <2>a, <2>b, ConcatProperties
  <2>4. \A i \in 1..(Len(q) - 1) : w[i] = IF i < k THEN q[i] ELSE q[i + 1]
    <3> SUFFICES ASSUME NEW i \in 1..(Len(q) - 1)
                 PROVE  w[i] = IF i < k THEN q[i] ELSE q[i + 1]
      OBVIOUS
    <3>1. w[i] = IF i <= k - 1 THEN a[i] ELSE b[i - (k - 1)]
      BY <2>1, <2>a, <2>b, ConcatProperties
    <3> QED  BY <3>1, <2>1, <2>a, <2>b
  <2> HIDE DEF w
  <2>c. DOMAIN w = 1..(Len(q) - 1) /\ DOMAIN q = 1..Len(q) /\ Len(q) \in Nat
    BY <2>3
  <2>5. \A j \in 1..Len(q) : q[j] # s =>
          \E i \in DOMAIN w : w[i] = q[j]
    <3> SUFFICES ASSUME NEW j \in 1..Len(q), q[j] # s
                 PROVE  \E i \in DOMAIN w : w[i] = q[j]
      OBVIOUS
    <3>1. CASE j < k
      BY <3>1, <2>1, <2>3, <2>4
    <3>2. CASE j > k
      <4>1. j - 1 \in DOMAIN w /\ w[j - 1] = q[j]
        BY <3>2, <2>1, <2>3, <2>4
      <4> QED  BY <4>1
    <3> QED  BY <3>1, <3>2, <2>1
  <2>6. ASSUME NEW i \in DOMAIN w
        PROVE  w[i] # s /\ \E j \in DOMAIN q : w[i] = q[j]
    <3>1. CASE i < k
      BY <3>1, <2>1, <2>c, <2>4 DEF Distinct
    <3>2. CASE i >= k
      <4>1. i + 1 \in DOMAIN q /\ w[i] = q[i + 1] /\ i + 1 # k
        BY <3>2, <2>1, <2>c, <2>4
      <4> QED  BY <4>1, <2>1, <2>c DEF Distinct
    <3> QED  BY <3>1, <3>2, <2>1, <2>c
  <2>7. Distinct(w)
    <3> SUFFICES ASSUME NEW i \in 1..(Len(q) - 1), NEW j \in 1..(Len(q) - 1), w[i] = w[j]
                 PROVE  i = j
      BY <2>c DEF Distinct
    <3> DEFINE pos(n) == IF n < k THEN n ELSE n + 1
    <3>1. /\ pos(i) \in DOMAIN q /\ w[i] = q[pos(i)]
          /\ pos(j) \in DOMAIN q /\ w[j] = q[pos(j)]
      BY <2>1, <2>c, <2>4
    <3>2. pos(i) = pos(j)
      BY <3>1 DEF Distinct
    <3> QED  BY <3>2, <2>1
  <2> QED  BY <2>2, <2>3, <2>5, <2>6, <2>7
<1>2. CASE ~\E i \in DOMAIN q : q[i] = s
  <2>1. Without(q, s) = q
    BY <1>2 DEF Without
  <2> QED  BY <2>1, <1>2
<1> QED  BY <1>1, <1>2

(* A session that is in no registry can be registered.                     *)
LEMMA DistinctAppend ==
  ASSUME NEW q \in Seq(Session), NEW s \in Session, Distinct(q),
         \A i \in DOMAIN q : q[i] # s
  PROVE  Distinct(Append(q, s))
<1>1. /\ DOMAIN Append(q, s) = 1..(Len(q) + 1) /\ Append(q, s)[Len(q) + 1] = s
      /\ \A i \in 1..Len(q) : Append(q, s)[i] = q[i]
      /\ DOMAIN q = 1..Len(q) /\ Len(q) \in Nat
  OBVIOUS
<1> QED  BY <1>1 DEF Distinct

(* Posting a refresh posts nothing else.                                   *)
LEMMA OnlyRefreshes ==
  ASSUME NEW g \in Seq(Closure), NEW c \in Closure, c.do = "refresh",
         \A i \in DOMAIN g : g[i].do = "refresh"
  PROVE  /\ \A i \in DOMAIN Append(g, c) : Append(g, c)[i].do = "refresh"
         /\ Append(g, c) # <<>>
<1>1. /\ DOMAIN Append(g, c) = 1..(Len(g) + 1) /\ Append(g, c)[Len(g) + 1] = c
      /\ \A i \in 1..Len(g) : Append(g, c)[i] = g[i]
      /\ DOMAIN g = 1..Len(g) /\ Len(g) \in Nat /\ Append(g, c) # <<>>
  OBVIOUS
<1> QED  BY <1>1

(* The positions of the paints are finitely many, and so are those up to   *)
(* one of them.                                                            *)
LEMMA PaintsFinite ==
  ASSUME NEW q \in Seq(Closure)
  PROVE  IsFiniteSet(Paints(q)) /\ Cardinality(Paints(q)) \in Nat
<1>1. IsFiniteSet(1..Len(q))
  BY FS_Interval
<1>2. Paints(q) \subseteq 1..Len(q)
  BY DEF Paints
<1> QED  BY <1>1, <1>2, FS_Subset, FS_CardinalityType

LEMMA RankType ==
  ASSUME NEW q \in Seq(Closure), NEW i \in Int
  PROVE  /\ IsFiniteSet({j \in Paints(q) : j <= i})
         /\ Rank(q, i) \in Nat /\ Rank(q, i) <= Cardinality(Paints(q))
<1>1. {j \in Paints(q) : j <= i} \in SUBSET Paints(q)
  OBVIOUS
<1>2. /\ IsFiniteSet({j \in Paints(q) : j <= i})
      /\ Rank(q, i) <= Cardinality(Paints(q))
  BY PaintsFinite, <1>1, FS_Subset DEF Rank
<1>3. Rank(q, i) \in Nat
  BY <1>2, FS_CardinalityType DEF Rank
<1> QED  BY <1>2, <1>3

(* Posting changes no rank; a paint posted has the last one.               *)
LEMMA RankAppend ==
  ASSUME NEW q \in Seq(Closure), NEW c \in Closure
  PROVE  /\ \A i \in 1..Len(q) : Rank(Append(q, c), i) = Rank(q, i)
         /\ c.do = "paint" =>
              /\ Paints(Append(q, c)) = Paints(q) \cup {Len(q) + 1}
              /\ Cardinality(Paints(Append(q, c))) = Cardinality(Paints(q)) + 1
              /\ Rank(Append(q, c), Len(q) + 1) = Cardinality(Paints(q)) + 1
         /\ c.do # "paint" => Paints(Append(q, c)) = Paints(q)
<1> DEFINE r == Append(q, c)
<1>1. /\ DOMAIN r = 1..(Len(q) + 1) /\ r[Len(q) + 1] = c
      /\ \A i \in 1..Len(q) : r[i] = q[i]
  OBVIOUS
<1>2. DOMAIN q = 1..Len(q) /\ Len(q) \in Nat
  OBVIOUS
<1> HIDE DEF r
<1>3. ASSUME NEW i \in 1..Len(q)
      PROVE  Rank(r, i) = Rank(q, i)
  <2>1. {j \in Paints(r) : j <= i} = {j \in Paints(q) : j <= i}
    BY <1>1, <1>2 DEF Paints
  <2> QED  BY <2>1 DEF Rank
<1>4. CASE c.do = "paint"
  <2>1. Paints(r) = Paints(q) \cup {Len(q) + 1}
    BY <1>1, <1>2, <1>4 DEF Paints
  <2>2. Len(q) + 1 \notin Paints(q)
    BY <1>2 DEF Paints
  <2>3. Cardinality(Paints(r)) = Cardinality(Paints(q)) + 1
    <3>1. IsFiniteSet(Paints(q))
      BY PaintsFinite
    <3> QED  BY <2>1, <2>2, <3>1, FS_AddElement
  <2>4. {j \in Paints(r) : j <= Len(q) + 1} = Paints(r)
    BY <1>1, <1>2 DEF Paints
  <2> QED  BY <1>3, <1>4, <2>1, <2>3, <2>4 DEF Rank, r
<1>5. CASE c.do # "paint"
  <2>1. Paints(r) = Paints(q)
    BY <1>1, <1>2, <1>5 DEF Paints
  <2> QED  BY <1>3, <1>5, <2>1 DEF r
<1> QED  BY <1>4, <1>5

(* Running the first closure moves every paint up by one when it was a     *)
(* paint itself.                                                           *)
LEMMA RankTail ==
  ASSUME NEW q \in Seq(Closure), q # <<>>
  PROVE  LET done == IF Head(q).do = "paint" THEN 1 ELSE 0
         IN  /\ \A i \in Paints(Tail(q)) :
                  /\ i + 1 \in Paints(q) /\ Tail(q)[i] = q[i + 1]
                  /\ Rank(Tail(q), i) = Rank(q, i + 1) - done
             /\ Cardinality(Paints(Tail(q))) = Cardinality(Paints(q)) - done
<1> DEFINE t == Tail(q)
           done == IF Head(q).do = "paint" THEN 1 ELSE 0
<1>1. /\ t \in Seq(Closure) /\ DOMAIN t = 1..(Len(q) - 1) /\ Head(q) = q[1]
      /\ \A i \in 1..(Len(q) - 1) : t[i] = q[i + 1]
      /\ DOMAIN q = 1..Len(q) /\ Len(q) \in Nat \ {0}
  OBVIOUS
<1> HIDE DEF t
<1>2. ASSUME NEW n \in Int,
             NEW S, S = {j \in Paints(t) : j <= n},
             NEW T, T = {j \in Paints(q) : j <= n + 1}, n >= 0
      PROVE  Cardinality(S) = Cardinality(T) - done
  <2> DEFINE U == T \ {1}
             f == [j \in S |-> j + 1]
  <2>1. IsFiniteSet(S) /\ IsFiniteSet(T)
    BY <1>1, <1>2, RankType
  <2>2. \A j \in S : j \in 1..(Len(q) - 1)
    BY <1>1, <1>2 DEF Paints
  <2>3. \A j \in S : j + 1 \in U
    BY <1>1, <1>2, <2>2 DEF Paints
  <2>4. \A u \in U : u \in 2..Len(q) /\ u - 1 \in S
    BY <1>1, <1>2 DEF Paints
  <2>5. f \in Bijection(S, U)
    <3>a. f \in [S -> U]
      BY <2>3
    <3>b. \A i, j \in S : f[i] = f[j] => i = j
      BY <2>2
    <3>1. f \in Injection(S, U)
      BY <3>a, <3>b DEF Injection, IsInjective
    <3>2. \A u \in U : u - 1 \in S /\ f[u - 1] = u
      BY <2>4
    <3> QED  BY <3>1, <3>2 DEF Bijection, Surjection, Injection
  <2>6. Cardinality(U) = Cardinality(S)
    BY <2>1, <2>5, FS_Bijection DEF ExistsBijection
  <2>7. 1 \in T <=> Head(q).do = "paint"
    BY <1>1, <1>2 DEF Paints
  <2>8. Cardinality(U) = IF 1 \in T THEN Cardinality(T) - 1 ELSE Cardinality(T)
    BY <2>1, FS_RemoveElement
  <2>9. Cardinality(T) \in Int
    BY <2>1, FS_CardinalityType
  <2> QED  BY <2>6, <2>7, <2>8, <2>9
<1>3. ASSUME NEW i \in Paints(t)
      PROVE  /\ i + 1 \in Paints(q) /\ t[i] = q[i + 1]
             /\ Rank(t, i) = Rank(q, i + 1) - done
  <2>1. i \in 1..(Len(q) - 1)
    BY <1>1 DEF Paints
  <2>2. i + 1 \in Paints(q) /\ t[i] = q[i + 1]
    BY <1>1, <2>1 DEF Paints
  <2>3. Rank(t, i) = Rank(q, i + 1) - done
    BY <2>1, <1>2 DEF Rank
  <2> QED  BY <2>2, <2>3
<1>4. Cardinality(Paints(t)) = Cardinality(Paints(q)) - done
  <2>1. Paints(t) = {j \in Paints(t) : j <= Len(q)}
    BY <1>1 DEF Paints
  <2>2. Paints(q) = {j \in Paints(q) : j <= Len(q) + 1}
    BY <1>1 DEF Paints
  <2> QED  BY <1>1, <1>2, <2>1, <2>2
<1> QED  BY <1>3, <1>4 DEF t
-----------------------------------------------------------------------------
(* Type correctness and the registries: one step per action.  The history  *)
(* variable is looked at on its own.                                       *)

LEMMA ClosureType ==
  /\ [do |-> "refresh"] \in Closure
  /\ \A d \in Seq(Session) : [do |-> "paint", devices |-> d] \in Closure
  /\ \A c \in Closure : c.do \in {"refresh", "paint"}
  /\ \A c \in Closure : c.do = "paint" => c.devices \in Seq(Session)
  BY DEF Closure

(* The part of TypeOK that does not look at the history.                   *)
Typed ==
  /\ mode \in {"panel", "standalone"}
  /\ port \in Process \cup {"free", "other"}
  /\ svc \in [running : BOOLEAN, pipe : BOOLEAN]
  /\ phase \in [Session -> {"new", "accepted", "joining", "serving", "dropped", "leaving", "gone"}]
  /\ at \in [Session -> Process]
  /\ reg \in [Process -> Seq(Session)]
  /\ watched \in BOOLEAN /\ populated \in BOOLEAN
  /\ gui \in Seq(Closure) /\ shown \in Seq(Session)
  /\ tick \in [at : {"idle", "arbitrate", "choose", "snapshot", "query", "post"},
               running : BOOLEAN, devices : Seq(Session)]
  /\ faults \in 0..MaxFaults /\ switches \in 0..MaxSwitches

LEMMA SessionTyped ==
  ASSUME Typed, Registries, \A p \in Process : Distinct(reg[p]),
         NEW s \in Session, Handle(s) \/ Phone(s)
  PROVE  Typed'
<1> USE DEF Typed
<1>1. CASE Register(s)
  BY <1>1 DEF Register, window, bounds
<1>2. CASE Registered(s) \/ Deregistered(s)
  <2>1. PICK then \in {"serving", "gone"} : Notify(s, then)
    BY <1>2 DEF Registered, Deregistered
  <2>2. gui' \in Seq(Closure)
    BY <2>1, ClosureType DEF Notify
  <2>3. phase' \in [Session -> {"new", "accepted", "joining", "serving", "dropped", "leaving", "gone"}]
    BY <2>1 DEF Notify
  <2> QED  BY <2>1, <2>2, <2>3 DEF Notify, window, bounds
<1>3. CASE Deregister(s)
  <2>1. Without(reg[at[s]], s) \in Seq(Session)
    BY WithoutRemoves
  <2> QED  BY <1>3, <2>1 DEF Deregister, window, bounds
<1>4. CASE Phone(s)
  BY <1>4 DEF Phone, Accept, Refused, Drops, window, bounds
<1> QED  BY <1>1, <1>2, <1>3, <1>4 DEF Handle

LEMMA ServiceTyped ==
  ASSUME Typed, Service \/ ApplyGivesUp \/ OtherReleases
  PROVE  Typed'
<1> USE DEF Typed, sessions, window, bounds
<1>1. CASE ServiceStarts
  BY <1>1, ConstantsOK DEF ServiceStarts
<1>5. CASE PipeListens
  BY <1>5 DEF PipeListens
<1>2. CASE PortListens \/ OtherReleases
  BY <1>2 DEF PortListens, OtherReleases
<1>3. CASE ServiceStops
  <2>1. <<>> \in Seq(Session)
    OBVIOUS
  <2>2. reg' \in [Process -> Seq(Session)]
    BY <1>3, <2>1 DEF ServiceStops
  <2>3. phase' \in [Session -> {"new", "accepted", "joining", "serving", "dropped", "leaving", "gone"}]
    BY <1>3 DEF ServiceStops
  <2> QED  BY <1>3, <2>2, <2>3, ConstantsOK DEF ServiceStops
<1>4. CASE ApplyGivesUp
  BY <1>4, ConstantsOK DEF ApplyGivesUp, Fault
<1> QED  BY <1>1, <1>2, <1>3, <1>4, <1>5 DEF Service

LEMMA WindowTyped ==
  ASSUME Typed, Subscribe \/ Populate \/ RunGui
  PROVE  Typed'
<1> USE DEF Typed, sessions, window, bounds
<1>1. CASE Subscribe
  BY <1>1 DEF Subscribe
<1>2. CASE Populate
  BY <1>2 DEF Populate
<1>3. CASE RunGui
  <2>1. Head(gui) \in Closure /\ Tail(gui) \in Seq(Closure)
    BY <1>3 DEF RunGui
  <2>2. shown' \in Seq(Session)
    BY <1>3, <2>1, ClosureType DEF RunGui, Refresh
  <2> QED  BY <1>3, <2>1, <2>2 DEF RunGui
<1> QED  BY <1>1, <1>2, <1>3

LEMMA TickTyped ==
  ASSUME Typed, Tick
  PROVE  Typed'
<1> USE DEF Typed, Ticks, sessions, window, bounds, Unfaulted, Fault
<1>1. CASE Look
  <2>1. tick' \in [at : {"arbitrate"}, running : BOOLEAN, devices : Seq(Session)]
    BY <1>1 DEF Look
  <2>2. faults' \in 0..MaxFaults /\ switches' = switches
    BY <1>1, ConstantsOK DEF Look
  <2>3. UNCHANGED <<mode, port, svc, phase, at, reg, watched, populated, shown, gui>>
    BY <1>1 DEF Look
  <2> QED  BY <2>1, <2>2, <2>3
<1>2. CASE Arbitrate
  BY <1>2 DEF Arbitrate
<1>3. CASE Choose
  BY <1>3 DEF Choose
<1>4. CASE TakeSnapshot
  BY <1>4 DEF TakeSnapshot
<1>5. CASE QueryPipe
  <2>1. <<>> \in Seq(Session) /\ reg["service"] \in Seq(Session)
    OBVIOUS
  <2>2. PICK d \in {<<>>, reg["service"]} : tick' = [tick EXCEPT !.at = "post", !.devices = d]
    BY <1>5 DEF QueryPipe
  <2>3. tick' \in [at : {"post"}, running : BOOLEAN, devices : Seq(Session)]
    BY <2>1, <2>2
  <2>4. faults' \in 0..MaxFaults /\ switches' = switches
    BY <1>5, ConstantsOK DEF QueryPipe
  <2>5. UNCHANGED <<mode, port, svc, phase, at, reg, watched, populated, shown, gui>>
    BY <1>5 DEF QueryPipe
  <2> QED  BY <2>3, <2>4, <2>5
<1>6. CASE Post
  BY <1>6, ClosureType DEF Post
<1> QED  BY <1>1, <1>2, <1>3, <1>4, <1>5, <1>6 DEF Tick
-----------------------------------------------------------------------------

NobodyTwice == \A p \in Process : Distinct(reg[p])

(* A session enters the registry of its process once, when it was in none, *)
(* and Deregister takes out that one entry; the end of the service ends    *)
(* its sessions with its registry.                                         *)
LEMMA RegistriesStep ==
  ASSUME Typed, NobodyTwice, Registries, Step
  PROVE  Registries' /\ NobodyTwice'
<1> USE DEF Typed
<1>0. ASSUME NEW p \in Process, NEW i \in DOMAIN reg[p]
      PROVE  reg[p][i] \in Session
  OBVIOUS
<1>1. CASE \E s \in Session : Register(s)
  <2>1. PICK s \in Session : Register(s)
    BY <1>1
  <2> DEFINE q == reg[at[s]]
  <2>2. /\ phase[s] = "accepted" /\ at' = at
        /\ phase' = [phase EXCEPT ![s] = "joining"]
        /\ reg' = [reg EXCEPT ![at[s]] = Append(q, s)]
    BY <2>1 DEF Register
  <2>3. \A p \in Process : p # at[s] => reg'[p] = reg[p]
    BY <2>2
  <2>4. /\ DOMAIN reg'[at[s]] = 1..(Len(q) + 1) /\ reg'[at[s]][Len(q) + 1] = s
        /\ \A i \in 1..Len(q) : reg'[at[s]][i] = q[i]
        /\ DOMAIN q = 1..Len(q) /\ Len(q) \in Nat
    BY <2>2
  <2>5. \A p \in Process : \A i \in DOMAIN reg[p] : reg[p][i] # s /\ reg[p][i] \in Session
    <3> HIDE DEF Typed
    <3> QED  BY <2>2, <1>0 DEF Registries, InRegistry
  <2>6. \A p \in Process : \A i \in DOMAIN reg'[p] :
          at'[reg'[p][i]] = p /\ phase'[reg'[p][i]] \in InRegistry
    BY <2>2, <2>3, <2>4, <2>5 DEF Registries, InRegistry
  <2>7. ASSUME NEW t \in Session, phase'[t] \in InRegistry
        PROVE  \E i \in DOMAIN reg'[at'[t]] : reg'[at'[t]][i] = t
    <3>1. CASE t = s
      <4>1. Len(q) + 1 \in DOMAIN reg'[at'[t]] /\ reg'[at'[t]][Len(q) + 1] = t
        BY <3>1, <2>2, <2>4
      <4> QED  BY <4>1
    <3>2. CASE t # s
      <4>1. PICK i \in DOMAIN reg[at[t]] : reg[at[t]][i] = t
        BY <3>2, <2>2, <2>7 DEF Registries
      <4>2. i \in DOMAIN reg'[at'[t]] /\ reg'[at'[t]][i] = t
        BY <4>1, <2>2, <2>3, <2>4
      <4> QED  BY <4>2
    <3> QED  BY <3>1, <3>2
  <2>8. ASSUME NEW p \in Process
        PROVE  Distinct(reg'[p])
    <3>1. CASE p = at[s]
      <4>1. q \in Seq(Session) /\ Distinct(q) /\ reg'[p] = Append(q, s)
        BY <2>2, <3>1 DEF NobodyTwice
      <4>2. \A i \in DOMAIN q : q[i] # s
        BY <2>5
      <4> QED  BY <4>1, <4>2, DistinctAppend
    <3>2. CASE p # at[s]
      BY <3>2, <2>3 DEF NobodyTwice
    <3> QED  BY <3>1, <3>2
  <2> QED  BY <2>6, <2>7, <2>8 DEF Registries, NobodyTwice
<1>2. CASE \E s \in Session : Deregister(s)
  <2>1. PICK s \in Session : Deregister(s)
    BY <1>2
  <2> DEFINE q == reg[at[s]]
             w == Without(q, s)
  <2>2. /\ phase[s] = "dropped" /\ at' = at
        /\ phase' = [phase EXCEPT ![s] = "leaving"]
        /\ reg' = [reg EXCEPT ![at[s]] = w]
    BY <2>1 DEF Deregister
  <2>3. \A p \in Process : p # at[s] => reg'[p] = reg[p]
    BY <2>2
  <2>4. q \in Seq(Session) /\ Distinct(q)
    BY DEF NobodyTwice
  <2>5. /\ Distinct(w)
        /\ \A i \in DOMAIN w : w[i] # s /\ \E j \in DOMAIN q : w[i] = q[j]
        /\ \A j \in DOMAIN q : q[j] # s => \E i \in DOMAIN w : w[i] = q[j]
    BY <2>4, WithoutRemoves
  <2> HIDE DEF w
  <2>6. reg'[at[s]] = w
    BY <2>2
  <2>7. \A p \in Process : \A i \in DOMAIN reg'[p] :
          at'[reg'[p][i]] = p /\ phase'[reg'[p][i]] \in InRegistry
    <3> SUFFICES ASSUME NEW p \in Process, NEW i \in DOMAIN reg'[p]
                 PROVE  at'[reg'[p][i]] = p /\ phase'[reg'[p][i]] \in InRegistry
      OBVIOUS
    <3>1. reg'[p][i] # s /\ \E j \in DOMAIN reg[p] : reg'[p][i] = reg[p][j]
      <4>1. CASE p = at[s]
        BY <4>1, <2>5, <2>6
      <4>2. CASE p # at[s]
        BY <4>2, <2>3 DEF Registries
      <4> QED  BY <4>1, <4>2
    <3>2. PICK j \in DOMAIN reg[p] : reg'[p][i] = reg[p][j]
      BY <3>1
    <3>3. reg[p][j] \in Session
      OBVIOUS
    <3> QED  BY <3>1, <3>2, <3>3, <2>2 DEF Registries, InRegistry
  <2>8. ASSUME NEW t \in Session, phase'[t] \in InRegistry
        PROVE  \E i \in DOMAIN reg'[at'[t]] : reg'[at'[t]][i] = t
    <3>1. t # s /\ phase'[t] = phase[t]
      BY <2>8, <2>2 DEF InRegistry
    <3>2. PICK j \in DOMAIN reg[at[t]] : reg[at[t]][j] = t
      BY <3>1, <2>8 DEF Registries
    <3>3. CASE at[t] = at[s]
      BY <3>1, <3>2, <3>3, <2>2, <2>5, <2>6
    <3>4. CASE at[t] # at[s]
      BY <3>2, <3>4, <2>2, <2>3
    <3> QED  BY <3>3, <3>4
  <2>9. NobodyTwice'
    BY <2>3, <2>5, <2>6 DEF NobodyTwice
  <2> QED  BY <2>7, <2>8, <2>9 DEF Registries
<1>3. CASE \E s \in Session : Registered(s) \/ Deregistered(s) \/ Drops(s) \/ Refused(s)
  <2>1. PICK s \in Session : Registered(s) \/ Deregistered(s) \/ Drops(s) \/ Refused(s)
    BY <1>3
  <2>2. /\ UNCHANGED <<at, reg>>
        /\ \A t \in Session : phase'[t] \in InRegistry <=> phase[t] \in InRegistry
    BY <2>1 DEF Registered, Deregistered, Notify, Drops, Refused, InRegistry
  <2> QED  BY <2>2 DEF Registries, NobodyTwice
<1>4. CASE \E s \in Session : Accept(s)
  <2>1. PICK s \in Session : Accept(s)
    BY <1>4
  <2>2. /\ UNCHANGED reg /\ phase[s] = "new" /\ phase'[s] = "accepted"
        /\ \A t \in Session : t # s => phase'[t] = phase[t] /\ at'[t] = at[t]
    BY <2>1 DEF Accept
  <2>3. \A p \in Process : \A i \in DOMAIN reg[p] : reg[p][i] # s
    <3> HIDE DEF Typed
    <3> QED  BY <2>2, <1>0 DEF Registries, InRegistry
  <2>4. \A p \in Process : \A i \in DOMAIN reg'[p] :
          at'[reg'[p][i]] = p /\ phase'[reg'[p][i]] \in InRegistry
    BY <2>2, <2>3, <1>0 DEF Registries
  <2>5. ASSUME NEW t \in Session, phase'[t] \in InRegistry
        PROVE  \E i \in DOMAIN reg'[at'[t]] : reg'[at'[t]][i] = t
    <3>1. t # s
      BY <2>2, <2>5 DEF InRegistry
    <3>2. phase[t] \in InRegistry /\ at'[t] = at[t]
      BY <3>1, <2>2, <2>5
    <3> HIDE DEF Typed
    <3> QED  BY <3>2, <2>2 DEF Registries
  <2> QED  BY <2>2, <2>4, <2>5 DEF Registries, NobodyTwice
<1>5. CASE ServiceStops
  <2>1. /\ at' = at /\ reg' = [reg EXCEPT !["service"] = <<>>]
        /\ \A t \in Session :
             phase'[t] = IF at[t] = "service" /\ phase[t] # "new" THEN "gone" ELSE phase[t]
    BY <1>5 DEF ServiceStops
  <2>2. reg'["window"] = reg["window"] /\ reg'["service"] = <<>>
    BY <2>1
  <2>3. \A i \in DOMAIN reg["window"] : reg["window"][i] \in Session
    OBVIOUS
  <2>4. \A p \in Process : \A i \in DOMAIN reg'[p] :
          at'[reg'[p][i]] = p /\ phase'[reg'[p][i]] \in InRegistry
    BY <2>1, <2>2, <2>3 DEF Registries
  <2>5. \A t \in Session : phase'[t] \in InRegistry =>
          at[t] = "window" /\ phase'[t] = phase[t]
    BY <2>1 DEF InRegistry
  <2>6. NobodyTwice'
    BY <2>2 DEF NobodyTwice, Distinct
  <2> QED  BY <2>1, <2>2, <2>4, <2>5, <2>6 DEF Registries
<1>6. CASE UNCHANGED sessions
  BY <1>6 DEF Registries, NobodyTwice, sessions
<1> QED
  BY <1>1, <1>2, <1>3, <1>4, <1>5, <1>6
     DEF Step, Handle, Phone, Service, ServiceStarts, PipeListens, PortListens,
         ApplyGivesUp, OtherReleases, Subscribe, Populate, RunGui, Tick, Ticks, Look,
         Arbitrate, Choose, TakeSnapshot, QueryPipe, Post
-----------------------------------------------------------------------------

(* In the stand-alone server nothing but refreshes is posted, and a        *)
(* refresh that is run draws the registry as it is then.                   *)
LEMMA StandaloneStep ==
  ASSUME Typed, Standalone, Step
  PROVE  Standalone'
<1> SUFFICES ASSUME mode = "standalone", mode' = mode
             PROVE  Standalone'
  BY DEF Standalone, Step, Handle, Phone, Accept, Refused, Register, Registered, Drops,
         Deregister, Deregistered, Notify, Service, ServiceStarts, PipeListens, PortListens,
         ServiceStops, ApplyGivesUp, OtherReleases, Subscribe, Populate, RunGui,
         Tick, Ticks, Look, Arbitrate, Choose, TakeSnapshot, QueryPipe, Post
<1> USE DEF Typed, window, bounds
<1>0. /\ port = "window" /\ ~svc.running /\ tick.at = "idle"
      /\ \A s \in Session : at[s] = "window"
      /\ \A i \in DOMAIN gui : gui[i].do = "refresh"
      /\ populated => watched
      /\ StandaloneLive
  BY DEF Standalone
<1>1. ASSUME NEW s \in Session, Accept(s) \/ Refused(s) \/ Drops(s)
      PROVE  Standalone'
  <2>1. /\ UNCHANGED <<port, svc, reg, watched, populated, shown, gui, tick>>
        /\ \A t \in Session : at'[t] = "window"
        /\ \A t \in Session : phase'[t] \in {"joining", "leaving"} <=> phase[t] \in {"joining", "leaving"}
    BY <1>1, <1>0 DEF Accept, Refused, Drops
  <2> QED  BY <2>1, <1>0 DEF Standalone, StandaloneLive
<1>2. ASSUME NEW s \in Session, Register(s) \/ Deregister(s)
      PROVE  Standalone'
  <2>1. /\ UNCHANGED <<port, svc, at, watched, populated, shown, gui, tick>>
        /\ phase'[s] \in {"joining", "leaving"}
    BY <1>2 DEF Register, Deregister
  <2> QED  BY <2>1, <1>0 DEF Standalone, StandaloneLive
<1>3. ASSUME NEW s \in Session, Registered(s) \/ Deregistered(s)
      PROVE  Standalone'
  <2>1. /\ UNCHANGED <<port, svc, at, watched, populated, shown, tick>>
        /\ gui' = IF watched THEN Append(gui, [do |-> "refresh"]) ELSE gui
    BY <1>3, <1>0 DEF Registered, Deregistered, Notify
  <2>2. (\A i \in DOMAIN gui' : gui'[i].do = "refresh") /\ (populated => gui' # <<>>)
    <3> DEFINE c == [do |-> "refresh"]
    <3>1. c.do = "refresh" /\ c \in Closure
      BY ClosureType
    <3> HIDE DEF c
    <3>2. CASE gui' = gui
      BY <3>2, <2>1, <1>0
    <3>3. CASE gui' = Append(gui, c)
      BY <3>1, <3>3, <1>0, OnlyRefreshes
    <3> QED  BY <3>2, <3>3, <2>1 DEF c
  <2> QED  BY <2>1, <2>2, <1>0 DEF Standalone, StandaloneLive
<1>4. CASE Subscribe
  BY <1>4, <1>0 DEF Subscribe, sessions, Standalone, StandaloneLive
<1>5. CASE Populate
  BY <1>5, <1>0 DEF Populate, sessions, Standalone, StandaloneLive
<1>6. CASE RunGui
  <2>1. /\ UNCHANGED <<port, svc, phase, at, reg, watched, populated, tick>>
        /\ gui' = Tail(gui) /\ gui # <<>>
        /\ shown' = IF Head(gui).do = "refresh" THEN Refresh ELSE Head(gui).devices
    BY <1>6 DEF RunGui, sessions
  <2>2. Head(gui).do = "refresh"
    BY <2>1, <1>0
  <2>3. shown' = reg'["window"]
    BY <2>1, <2>2 DEF Refresh
  <2>4. \A i \in DOMAIN gui' : gui'[i].do = "refresh"
    BY <2>1, <1>0
  <2> QED  BY <2>1, <2>3, <2>4, <1>0 DEF Standalone, StandaloneLive
<1> QED
  BY <1>0, <1>1, <1>2, <1>3, <1>4, <1>5, <1>6
     DEF Step, Handle, Phone, Service, ServiceStarts, PipeListens, PortListens, ServiceStops,
         ApplyGivesUp, OtherReleases, Tick, Ticks, Look, Arbitrate, Choose, TakeSnapshot,
         QueryPipe, Post

-----------------------------------------------------------------------------
(* The panel.                                                              *)

LEMMA TickAt ==
  ASSUME Typed
  PROVE  /\ Look => tick'.at = "arbitrate"
         /\ Arbitrate => tick'.at = "choose"
         /\ Choose => tick'.at = IF port = "window" THEN "snapshot" ELSE "query"
         /\ TakeSnapshot => tick'.at = "post" /\ tick'.devices = reg["window"]
         /\ QueryPipe => tick'.at = "post" /\
              (\/ svc.pipe /\ tick'.devices = reg["service"]
               \/ ~svc.pipe /\ tick'.devices = <<>>
               \/ faults' # faults)
         /\ Post => tick'.at = "idle"
<1> USE DEF Typed
<1>1. Look => tick'.at = "arbitrate"
  <2> SUFFICES ASSUME Look  PROVE tick'.at = "arbitrate"
    OBVIOUS
  <2>1. PICK running \in BOOLEAN : tick' = [tick EXCEPT !.at = "arbitrate", !.running = running]
    BY DEF Look
  <2> QED  BY <2>1
<1>2. Arbitrate => tick'.at = "choose"
  BY DEF Arbitrate
<1>3. Choose => tick'.at = IF port = "window" THEN "snapshot" ELSE "query"
  BY DEF Choose
<1>4. TakeSnapshot => tick'.at = "post" /\ tick'.devices = reg["window"]
  BY DEF TakeSnapshot
<1>5. QueryPipe => tick'.at = "post" /\
        (\/ svc.pipe /\ tick'.devices = reg["service"]
         \/ ~svc.pipe /\ tick'.devices = <<>>
         \/ faults' # faults)
  <2> SUFFICES ASSUME QueryPipe
               PROVE  /\ tick'.at = "post"
                      /\ \/ svc.pipe /\ tick'.devices = reg["service"]
                         \/ ~svc.pipe /\ tick'.devices = <<>>
                         \/ faults' # faults
    OBVIOUS
  <2>1. PICK d : /\ tick' = [tick EXCEPT !.at = "post", !.devices = d]
                 /\ \/ svc.pipe /\ d = reg["service"]
                    \/ ~svc.pipe /\ d = <<>>
                    \/ Fault
    BY DEF QueryPipe
  <2>2. tick'.at = "post" /\ tick'.devices = d
    BY <2>1
  <2>3. Fault => faults' # faults
    BY DEF Fault
  <2> QED  BY <2>1, <2>2, <2>3
<1>6. Post => tick'.at = "idle"
  BY DEF Post
<1> QED  BY <1>1, <1>2, <1>3, <1>4, <1>5, <1>6

(* A tick asks the service only when the panel does not serve, and only    *)
(* the ticker makes it serve.                                              *)
LEMMA QueryElsewhere ==
  ASSUME Typed, mode = "panel", tick.at = "query" => port # "window", Step
  PROVE  tick'.at = "query" => port' # "window"
<1> USE DEF Typed
<1>1. CASE Tick
  <2>1. CASE Choose
    BY <2>1 DEF Choose
  <2>2. CASE ~Choose
    <3>1. tick'.at # "query"
      BY <1>1, <2>2, TickAt DEF Tick
    <3> QED  BY <3>1
  <2> QED  BY <2>1, <2>2
<1>2. CASE ~Tick
  <2>1. tick' = tick /\ (port' = "window" => port = "window")
    BY <1>2 DEF Step, Handle, Phone, Accept, Refused, Register, Registered, Drops,
         Deregister, Deregistered, Notify, Service, ServiceStarts, PipeListens, PortListens,
         ServiceStops, ApplyGivesUp, OtherReleases, Subscribe, Populate, RunGui, Fault
  <2> QED  BY <2>1
<1> QED  BY <1>1, <1>2

(* After a change nothing on its way counts, whatever it is.               *)
LEMMA AfterChange ==
  ASSUME Typed', populated', tick'.at = "query" => port' # "window",
         behind' = Cardinality(Paints(gui')) + (IF tick'.at = "idle" THEN 0 ELSE 1) + 1
  PROVE  Freshness'
<1>1. Cardinality(Paints(gui')) \in Nat
  BY PaintsFinite DEF Typed
<1>2. ASSUME NEW i \in Paints(gui')
      PROVE  Rank(gui', i) \in Nat /\ Rank(gui', i) <= Cardinality(Paints(gui'))
  <2>1. i \in Int
    BY DEF Typed, Paints
  <2> QED  BY <2>1, RankType DEF Typed
<1> QED  BY <1>1, <1>2 DEF Freshness, TickFresh

(* Steps that post nothing and run nothing.                                *)
LEMMA NothingPosted ==
  ASSUME Freshness, mode = "panel",
         UNCHANGED <<Source, shown, gui, tick, behind>>,
         port = "window" <=> port' = "window", populated'
  PROVE  Freshness'
  BY DEF Freshness, TickFresh

(* A refresh that is posted is not counted.                                *)
LEMMA RefreshPosted ==
  ASSUME Typed, Freshness, mode = "panel",
         UNCHANGED <<Source, shown, tick, behind, port, populated>>,
         gui' = Append(gui, [do |-> "refresh"])
  PROVE  Freshness'
<1> DEFINE c == [do |-> "refresh"]
<1> USE DEF Typed
<1>1. /\ \A i \in 1..Len(gui) : Rank(gui', i) = Rank(gui, i)
      /\ Paints(gui') = Paints(gui)
  <2>1. c \in Closure /\ c.do # "paint"
    BY ClosureType
  <2> HIDE DEF c
  <2>2. gui' = Append(gui, c)
    BY DEF c
  <2> QED  BY <2>1, <2>2, RankAppend
<1>2. \A i \in Paints(gui) : i \in 1..Len(gui) /\ gui'[i] = gui[i]
  BY DEF Paints
<1> QED  BY <1>1, <1>2 DEF Freshness, TickFresh
(* A refresh that is run draws the truth or nothing; a paint that is run   *)
(* is one less to wait for, and the one waited for draws the truth.        *)
LEMMA ClosureRun ==
  ASSUME Typed, Freshness, mode = "panel", behind \in Nat, RunGui,
         UNCHANGED Source,
         behind' = IF Head(gui).do = "paint" /\ behind > 0 THEN behind - 1 ELSE behind
  PROVE  Freshness'
<1> USE DEF Typed
<1> DEFINE done == IF Head(gui).do = "paint" THEN 1 ELSE 0
<1>1. /\ gui # <<>> /\ gui' = Tail(gui) /\ UNCHANGED <<port, svc, reg, tick, populated>>
      /\ shown' = IF Head(gui).do = "refresh" THEN Refresh ELSE Head(gui).devices
  BY DEF RunGui, sessions
<1>2. Head(gui) \in Closure /\ Head(gui).do \in {"refresh", "paint"} /\ Head(gui) = gui[1]
      /\ 1 \in DOMAIN gui
  BY <1>1, ClosureType
<1>3. /\ \A i \in Paints(gui') :
           /\ i + 1 \in Paints(gui) /\ gui'[i] = gui[i + 1]
           /\ Rank(gui', i) = Rank(gui, i + 1) - done
      /\ Cardinality(Paints(gui')) = Cardinality(Paints(gui)) - done
  BY <1>1, RankTail
<1>4. Cardinality(Paints(gui)) \in Nat
  BY PaintsFinite
<1>5. ASSUME NEW i \in Paints(gui)
      PROVE  i \in Int /\ Rank(gui, i) \in Nat
  <2>1. i \in Int
    BY DEF Paints
  <2> QED  BY <2>1, RankType
<1>6. behind' = 0 => shown' = Source'
  <2>1. CASE Head(gui).do = "refresh"
    BY <2>1, <1>1 DEF Freshness, Refresh, Source, Whose
  <2>2. CASE Head(gui).do = "paint"
    <3>1. 1 \in Paints(gui)
      BY <1>2, <2>2 DEF Paints
    <3>2. Rank(gui, 1) >= 1
      <4>1. 1 \in {j \in Paints(gui) : j <= 1}
        BY <3>1
      <4>2. IsFiniteSet({j \in Paints(gui) : j <= 1})
        BY RankType
      <4>3. Rank(gui, 1) # 0
        BY <4>1, <4>2, FS_EmptySet DEF Rank
      <4> QED  BY <4>3, <3>1, <1>5
    <3>3. behind' = 0 => behind <= 1
      BY <2>2
    <3>4. behind' = 0 => gui[1].devices = Source
      BY <3>1, <3>2, <3>3, <1>5 DEF Freshness
    <3> QED  BY <3>4, <1>1, <1>2, <2>2
  <2> QED  BY <1>2, <2>1, <2>2
<1>7. ASSUME NEW i \in Paints(gui'), behind' <= Rank(gui', i)
      PROVE  gui'[i].devices = Source'
  <2>1. i + 1 \in Paints(gui) /\ gui'[i] = gui[i + 1] /\ Rank(gui', i) = Rank(gui, i + 1) - done
    BY <1>3
  <2>2. Rank(gui, i + 1) \in Nat
    BY <2>1, <1>5
  <2>3. behind <= Rank(gui, i + 1)
    BY <1>7, <2>1, <2>2
  <2> QED  BY <2>1, <2>3 DEF Freshness
<1>8. behind' <= Cardinality(Paints(gui')) + 1 => TickFresh'
  <2>1. behind' <= Cardinality(Paints(gui')) + 1 => behind <= Cardinality(Paints(gui)) + 1
    BY <1>3, <1>4
  <2> QED  BY <2>1, <1>1 DEF Freshness, TickFresh
<1> QED  BY <1>1, <1>6, <1>7, <1>8 DEF Freshness

(* The ticker's own steps: what it posts stands after all paints posted.   *)
LEMMA TickFreshStep ==
  ASSUME Typed, Freshness, mode = "panel", behind \in Nat, Tick,
         UNCHANGED <<Source, behind>>, port = "window" <=> port' = "window",
         tick.at = "query" => faults' = faults
  PROVE  Freshness'
<1> USE DEF Typed
<1>1. UNCHANGED <<mode, svc, phase, at, reg, watched, populated, shown>>
  BY DEF Tick, Ticks, Look, Arbitrate, Choose, TakeSnapshot, QueryPipe, Post, sessions, window
<1>2. tick.at = "query" => port # "window"
  BY DEF Freshness
<1>3. CASE Look \/ Arbitrate \/ Choose \/ TakeSnapshot \/ QueryPipe
  <2>1. gui' = gui /\ (tick'.at = "query" => port' # "window")
    BY <1>3, TickAt DEF Look, Arbitrate, Choose, TakeSnapshot, QueryPipe
  <2>2. tick'.at = "snapshot" => port' = "window"
    BY <1>3, TickAt DEF Choose
  <2>3. ASSUME behind <= Cardinality(Paints(gui)) + 1, tick'.at = "post"
        PROVE  tick'.devices = Source
    <3>1. CASE TakeSnapshot
      <4>1. tick'.devices = reg["window"] /\ tick.at = "snapshot"
        BY <3>1, TickAt DEF TakeSnapshot, Ticks
      <4>2. port = "window"
        BY <4>1, <2>3 DEF Freshness, TickFresh
      <4> QED  BY <4>1, <4>2 DEF Source, Whose
    <3>2. CASE QueryPipe
      <4>1. tick.at = "query" /\ port # "window" /\ faults' = faults
        BY <3>2, <1>2 DEF QueryPipe, Ticks
      <4>2. \/ svc.pipe /\ tick'.devices = reg["service"]
            \/ ~svc.pipe /\ tick'.devices = <<>>
        BY <3>2, <4>1, TickAt
      <4> QED  BY <4>1, <4>2 DEF Source, Whose
    <3>3. ~(Look \/ Arbitrate \/ Choose)
      BY <2>3, TickAt
    <3> QED  BY <1>3, <3>1, <3>2, <3>3
  <2> QED  BY <1>1, <2>1, <2>2, <2>3 DEF Freshness, TickFresh
<1>4. CASE Post
  <2> DEFINE c == [do |-> "paint", devices |-> tick.devices]
  <2>1. c \in Closure /\ c.do = "paint" /\ c.devices = tick.devices
    BY ClosureType
  <2>2. tick.at = "post" /\ tick'.at = "idle" /\ gui' = Append(gui, c)
    BY <1>4 DEF Post, Ticks
  <2> HIDE DEF c
  <2>3. /\ \A i \in 1..Len(gui) : Rank(gui', i) = Rank(gui, i)
        /\ Paints(gui') = Paints(gui) \cup {Len(gui) + 1}
        /\ Rank(gui', Len(gui) + 1) = Cardinality(Paints(gui)) + 1
    BY <2>1, <2>2, RankAppend
  <2>4. /\ \A i \in 1..Len(gui) : gui'[i] = gui[i]
        /\ gui'[Len(gui) + 1] = c
        /\ \A i \in Paints(gui) : i \in 1..Len(gui)
    BY <2>1, <2>2 DEF Paints
  <2>5. ASSUME NEW i \in Paints(gui'), behind <= Rank(gui', i)
        PROVE  gui'[i].devices = Source
    <3>1. CASE i \in Paints(gui)
      BY <3>1, <2>3, <2>4, <2>5 DEF Freshness
    <3>2. CASE i = Len(gui) + 1
      <4>1. TickFresh
        BY <3>2, <2>3, <2>5 DEF Freshness
      <4> QED  BY <4>1, <3>2, <2>1, <2>2, <2>4 DEF TickFresh
    <3> QED  BY <2>3, <3>1, <3>2
  <2> QED  BY <1>1, <2>2, <2>5 DEF Freshness, TickFresh
<1> QED  BY <1>3, <1>4 DEF Tick
Lagging == <<Whose, Source>>' # <<Whose, Source>> \/ (tick.at = "query" /\ faults' # faults)

LEMMA WatchType ==
  ASSUME Typed, Typed', behind \in Nat, Watch
  PROVE  behind' \in Nat
<1>1. Cardinality(Paints(gui')) \in Nat
  BY PaintsFinite DEF Typed
<1> QED  BY <1>1 DEF Watch

LEMMA FreshnessStep ==
  ASSUME Typed, Typed', behind \in Nat, Freshness, Step, Watch
  PROVE  Freshness'
<1> USE DEF Typed
<1>1. /\ mode' = mode /\ (populated => populated')
      /\ Len(gui') < Len(gui) => RunGui
      /\ \/ UNCHANGED <<shown, gui, tick>>
         \/ \E s \in Session : Registered(s) \/ Deregistered(s)
         \/ Populate \/ RunGui \/ Tick
  <2>1. ASSUME NEW s \in Session, Accept(s) \/ Refused(s) \/ Drops(s) \/ Register(s) \/ Deregister(s)
        PROVE  UNCHANGED <<mode, populated, shown, gui, tick>>
    BY <2>1 DEF Accept, Refused, Drops, Register, Deregister, window
  <2>2. ASSUME NEW s \in Session, Registered(s) \/ Deregistered(s)
        PROVE  UNCHANGED <<mode, populated>> /\ Len(gui') >= Len(gui)
    <3>1. UNCHANGED <<mode, populated>> /\ gui' \in {gui, Append(gui, [do |-> "refresh"])}
      BY <2>2 DEF Registered, Deregistered, Notify, window
    <3> QED  BY <3>1
  <2>3. CASE Service \/ ApplyGivesUp \/ OtherReleases \/ Subscribe
    BY <2>3 DEF Service, ServiceStarts, PipeListens, PortListens, ServiceStops,
                ApplyGivesUp, OtherReleases, Subscribe, window
  <2>4. CASE Populate
    BY <2>4 DEF Populate
  <2>5. CASE RunGui
    BY <2>5 DEF RunGui
  <2>6. CASE Tick
    <3>1. UNCHANGED <<mode, populated>>
      BY <2>6 DEF Tick, Look, Arbitrate, Choose, TakeSnapshot, QueryPipe, Post, Ticks, window
    <3>2. gui' = gui \/ \E d : gui' = Append(gui, d)
      BY <2>6 DEF Tick, Look, Arbitrate, Choose, TakeSnapshot, QueryPipe, Post
    <3>3. Len(gui') >= Len(gui)
      BY <3>2
    <3> QED  BY <2>6, <3>1, <3>3
  <2> QED  BY <2>1, <2>2, <2>3, <2>4, <2>5, <2>6 DEF Step, Handle, Phone
<1> SUFFICES ASSUME mode = "panel"
             PROVE  Freshness'
  BY <1>1 DEF Freshness
<1>2. populated /\ populated' /\ (tick.at = "query" => port # "window")
  BY <1>1 DEF Freshness
<1>3. tick'.at = "query" => port' # "window"
  BY <1>2, QueryElsewhere
<1>4. CASE Lagging
  <2>1. behind' = Cardinality(Paints(gui')) + (IF tick'.at = "idle" THEN 0 ELSE 1) + 1
    BY <1>4 DEF Lagging, Watch
  <2> QED  BY <2>1, <1>2, <1>3, AfterChange
<1>5. CASE ~Lagging
  <2>1. /\ UNCHANGED <<Whose, Source>> /\ (tick.at = "query" => faults' = faults)
        /\ port = "window" <=> port' = "window"
    BY <1>5 DEF Lagging, Whose
  <2>2. behind' = IF Len(gui') < Len(gui) /\ Head(gui).do = "paint" /\ behind > 0
                    THEN behind - 1 ELSE behind
    BY <1>5 DEF Lagging, Watch
  <2>3. CASE RunGui
    <3>1. Len(gui') < Len(gui)
      BY <2>3 DEF RunGui
    <3> QED  BY <2>1, <2>2, <2>3, <3>1, ClosureRun
  <2>4. CASE ~RunGui
    <3>1. behind' = behind
      BY <2>2, <2>4, <1>1
    <3>2. CASE UNCHANGED <<shown, gui, tick>>
      BY <3>1, <3>2, <2>1, <1>2, NothingPosted
    <3>3. CASE \E s \in Session : Registered(s) \/ Deregistered(s)
      <4>1. /\ gui' \in {gui, Append(gui, [do |-> "refresh"])}
            /\ UNCHANGED <<shown, tick, port, populated>>
        BY <3>3 DEF Registered, Deregistered, Notify, window
      <4>2. CASE gui' = gui
        BY <4>1, <4>2, <3>1, <2>1, <1>2, NothingPosted
      <4>3. CASE gui' = Append(gui, [do |-> "refresh"])
        BY <4>1, <4>3, <3>1, <2>1, RefreshPosted
      <4> QED  BY <4>1, <4>2, <4>3
    <3>4. CASE Tick
      BY <3>1, <3>4, <2>1, TickFreshStep
    <3>5. ~Populate
      BY <1>2 DEF Populate
    <3> QED  BY <1>1, <2>4, <3>2, <3>3, <3>4, <3>5
  <2> QED  BY <2>3, <2>4
<1> QED  BY <1>4, <1>5

-----------------------------------------------------------------------------
(* The theorems.                                                           *)

LEMMA TypeOKParts == TypeOK <=> Typed /\ behind \in Nat /\ NobodyTwice
  BY DEF TypeOK, Typed, NobodyTwice, Distinct

LEMMA InitHolds == Init => IInv
<1> SUFFICES ASSUME Init  PROVE IInv
  OBVIOUS
<1>1. <<>> \in Seq(Session) /\ <<>> \in Seq(Closure) /\ DOMAIN <<>> = {}
  OBVIOUS
<1>2. \A p \in Process : reg[p] = <<>>
  BY DEF Init
<1>3. svc \in [running : BOOLEAN, pipe : BOOLEAN] /\ (mode = "standalone" => ~svc.running)
  <2>1. PICK r \in IF mode = "panel" THEN BOOLEAN ELSE {FALSE} :
               svc = [running |-> r, pipe |-> r]
    BY DEF Init
  <2> QED  BY <2>1 DEF Init
<1>4. TypeOK
  BY <1>1, <1>2, <1>3, ConstantsOK DEF Init, TypeOK
<1>5. Registries
  BY <1>1, <1>2 DEF Init, Registries, InRegistry
<1>6. Standalone
  BY <1>1, <1>2, <1>3 DEF Init, Standalone, StandaloneLive
<1>7. Freshness
  <2>1. tick.at = "idle" /\ behind = 1 /\ gui = <<>> /\ (mode = "panel" => populated)
    BY DEF Init
  <2>2. Paints(gui) = {}
    BY <1>1, <2>1 DEF Paints
  <2> QED  BY <2>1, <2>2 DEF Freshness, TickFresh
<1> QED  BY <1>4, <1>5, <1>6, <1>7 DEF IInv

LEMMA NextHolds == IInv /\ [Next]_vars => IInv'
<1> SUFFICES ASSUME IInv, [Next]_vars  PROVE IInv'
  OBVIOUS
<1>1. CASE Next
  <2>1. Step /\ Watch
    BY <1>1 DEF Next
  <2>2. Typed /\ behind \in Nat /\ NobodyTwice /\ Registries /\ Standalone /\ Freshness
    BY TypeOKParts DEF IInv
  <2>3. Typed'
    BY <2>1, <2>2, SessionTyped, ServiceTyped, WindowTyped, TickTyped DEF Step, NobodyTwice
  <2>4. behind' \in Nat
    BY <2>1, <2>2, <2>3, WatchType
  <2>5. Registries' /\ NobodyTwice'
    BY <2>1, <2>2, RegistriesStep
  <2>6. Standalone'
    BY <2>1, <2>2, StandaloneStep
  <2>7. Freshness'
    BY <2>1, <2>2, <2>3, FreshnessStep
  <2>8. TypeOK'
    BY <2>3, <2>4, <2>5 DEF TypeOK, Typed, NobodyTwice, Distinct
  <2> QED  BY <2>5, <2>6, <2>7, <2>8 DEF IInv
<1>2. CASE UNCHANGED vars
  BY <1>2 DEF IInv, vars, sessions, window, bounds, TypeOK, Registries, Standalone, StandaloneLive,
              Freshness, TickFresh, Source, Whose
<1> QED  BY <1>1, <1>2

LEMMA Inductive == Spec => []IInv
  BY InitHolds, NextHolds, PTL DEF Spec

(* Every variable keeps its type, and no session is twice in a registry.   *)
THEOREM TypeCorrect == Spec => []TypeOK
<1>1. IInv => TypeOK
  BY DEF IInv
<1> QED  BY <1>1, Inductive, PTL

(* A process's registry is exactly the sessions that are authenticated     *)
(* with it and not yet deregistered, across stops of the service.          *)
THEOREM RegistriesHold == Spec => []Registries
<1>1. IInv => Registries
  BY DEF IInv
<1> QED  BY <1>1, Inductive, PTL

(* The stand-alone window, when it has drawn what was posted and nobody is *)
(* about to notify it, shows its registry, for any number of sessions.     *)
THEOREM StandaloneLiveHolds == Spec => []StandaloneLive
<1>1. IInv => StandaloneLive
  BY DEF IInv, Standalone, StandaloneLive
<1> QED  BY <1>1, Inductive, PTL

(* When a tick begun after the last change has been painted, the panel     *)
(* shows the phones of who serves, however many sessions linger, and       *)
(* however far the window's thread lags behind.                            *)
THEOREM UpToDateHolds == Spec => []UpToDate
<1>1. IInv => UpToDate
  BY DEF IInv, Freshness, UpToDate
<1> QED  BY <1>1, Inductive, PTL

=============================================================================
