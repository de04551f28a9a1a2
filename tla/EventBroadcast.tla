--------------------------- MODULE EventBroadcast ---------------------------
(***************************************************************************)
(* What event injection promises to the agents: the emitted events have    *)
(* one order, and every agent applies some of them, in that order, each at *)
(* most once, beginning with the ones emitted after it was bound and       *)
(* ending when it is let go.  Events may be lost, and different agents may *)
(* lose different ones.                                                    *)
(***************************************************************************)
EXTENDS Naturals

CONSTANT Target   (* the agents that may ever be bound *)

VARIABLES
  emitted,   (* how many events have been emitted                           *)
  last,      (* per agent, the number of the last event it has applied, or  *)
             (* of the last one emitted before it joined                    *)
  applied,   (* per agent, how many events it has applied                   *)
  active     (* the agents that may apply events                            *)

vars == <<emitted, last, applied, active>>

Init ==
  /\ emitted = 0
  /\ last = [t \in Target |-> 0]
  /\ applied = [t \in Target |-> 0]
  /\ active = {}

Emit ==
  /\ emitted' = emitted + 1
  /\ UNCHANGED <<last, applied, active>>

Apply(t) ==
  /\ t \in active
  /\ \E i \in (last[t] + 1)..emitted : last' = [last EXCEPT ![t] = i]
  /\ applied' = [applied EXCEPT ![t] = @ + 1]
  /\ UNCHANGED <<emitted, active>>

Join(t) ==
  /\ t \notin active
  /\ active' = active \cup {t}
  /\ last' = [last EXCEPT ![t] = emitted]
  /\ UNCHANGED <<emitted, applied>>

Leave(S) ==
  /\ S # {} /\ S \subseteq active
  /\ active' = active \ S
  /\ UNCHANGED <<emitted, last, applied>>

Next ==
  \/ Emit
  \/ \E t \in Target : Apply(t) \/ Join(t)
  \/ \E S \in SUBSET Target : Leave(S)

Spec == Init /\ [][Next]_vars

=============================================================================
