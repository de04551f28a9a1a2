-------------------------- MODULE ServiceAdminProofs --------------------------
(***************************************************************************)
(* For any number of helpers and faults: the types of ServiceAdmin, and    *)
(* that a configuration which was applied is the one in effect.            *)
(***************************************************************************)
EXTENDS ServiceAdmin, TLAPS

(* A helper's calls follow from its mode, and it has a result when it is    *)
(* done.                                                                    *)
Fits(m, s) ==
  /\ s \in Writing => m \in {"install-service", "apply-config"}
  /\ s = "start" => m # "none"
  /\ s = "check" => m = "apply-config"
  /\ s = "create" => m = "install-service"
  /\ s \in {"control", "poll"} => m \notin {"none", "install-service"}
  /\ s = "delete" => m = "uninstall-service"
  /\ s = "update" => m = "set-start-type"

HelperInv ==
  \A h \in Helper : Fits(op[h], pc[h]) /\ (result[h] # "none" => pc[h] = "done")

(* Values only get newer, and a service without an entry does not run.      *)
WroteInv == \A h \in Helper, f \in Field : wrote[h][f] <= reg[f]

EntryInv == entry = "absent" => scm = "stopped"

(* What has been written before the present service process was started:    *)
(* by the installs that have created the service, and what                  *)
(* AppliedTakesEffect says is in effect.                                    *)
InstallInv ==
  \A h \in Helper :
    /\ op[h] = "install-service" /\ pc[h] = "start"
    /\ scm \in {"starting", "running"}
    => Fresh(h)

IInv == TypeOK /\ HelperInv /\ WroteInv /\ EntryInv /\ InstallInv /\ AppliedTakesEffect

-----------------------------------------------------------------------------

LEMMA InitInv == ConstantsOK /\ Init => IInv
<1> SUFFICES ASSUME ConstantsOK, Init PROVE IInv
  OBVIOUS
<1>1. TypeOK
  BY SMT DEF Init, TypeOK, Version, Nothing, Field, Step, Writing, Mode, State, ReadOrder, ConstantsOK
<1>2. HelperInv /\ InstallInv /\ AppliedTakesEffect
  BY DEF Init, HelperInv, Fits, InstallInv, AppliedTakesEffect, Writing
<1>3. WroteInv /\ EntryInv
  BY DEF Init, WroteInv, EntryInv, Nothing
<1> QED
  BY <1>1, <1>2, <1>3 DEF IInv

-----------------------------------------------------------------------------
(* Types.                                                                   *)

LEMMA ReadTypes ==
  /\ Field = {"Password", "Name", "Port"}
  /\ ReadOrder = <<"Password", "Port", "Name">>
  /\ \A n \in 1..3 : WriteOrder[n] \in Field
  BY SMT DEF Field, ReadOrder, WriteOrder

LEMMA WorkTypes ==
  ASSUME TypeOK, HelperInv, NEW h \in Helper, Work(h)
  PROVE  TypeOK'
<1>1. CASE WriteValue(h)
  <2> DEFINE n == Nth(pc[h])
             f == WriteOrder[n]
  <2>1. n \in 1..3
    BY DEF Nth
  <2>2. f \in Field
    BY <2>1, ReadTypes
  <2>3. reg[f] + 1 \in Nat
    BY <2>2, SMT DEF TypeOK, Version
  <2>4. reg' \in Version /\ wrote' \in [Helper -> Version]
    BY <1>1, <2>2, <2>3 DEF WriteValue, TypeOK, Version
  <2>5. pc' \in [Helper -> Step]
    BY <1>1, <2>1 DEF WriteValue, Goto, AfterWrite, TypeOK, Step, Writing
  <2> QED
    BY <1>1, <2>4, <2>5 DEF WriteValue, Goto, TypeOK, service, process
<1>2. CASE Check(h)
  BY <1>2 DEF Check, TypeOK, Step, State, registry, service, process
<1>3. CASE Control(h)
  <2>1. pc' \in [Helper -> Step]
    BY <1>3 DEF Control, StopSent, Goto, TypeOK, Step
  <2> QED
    BY <1>3, <2>1 DEF Control, CanStop, StopSent, Goto, TypeOK, State, registry, process
<1>4. CASE ControlRefused(h)
  <2>1. pc' \in [Helper -> Step] /\ result' \in [Helper -> {"none", "ok", "failed"}]
    BY <1>4 DEF ControlRefused, StopFailed, Returns, Goto, TypeOK, Step
  <2>2. UNCHANGED <<op, saw>>
    BY <1>4 DEF ControlRefused, StopFailed, Returns, Goto
  <2> QED
    BY <1>4, <2>1, <2>2 DEF ControlRefused, TypeOK, registry, service, process
<1>5. CASE PollStopped(h)
  <2>1. pc' \in [Helper -> Step] /\ result' \in [Helper -> {"none", "ok", "failed"}]
    BY <1>5 DEF PollStopped, Returns, Goto, TypeOK, Step
  <2>2. UNCHANGED <<op, saw>>
    BY <1>5 DEF PollStopped, Returns, Goto
  <2> QED
    BY <1>5, <2>1, <2>2 DEF PollStopped, TypeOK, registry, service, process
<1>6. CASE DeadlineOver(h)
  <2>1. pc' \in [Helper -> Step] /\ result' \in [Helper -> {"none", "ok", "failed"}]
    BY <1>6 DEF DeadlineOver, StopFailed, Returns, Goto, TypeOK, Step
  <2>2. UNCHANGED <<op, saw>>
    BY <1>6 DEF DeadlineOver, StopFailed, Returns, Goto
  <2> QED
    BY <1>6, <2>1, <2>2 DEF DeadlineOver, TypeOK, registry, service, process
<1>7. CASE Start(h)
  BY <1>7 DEF Start, StartService, Returns, TypeOK, Step, State, Version, Nothing, registry
<1>8. CASE StartRefused(h)
  BY <1>8 DEF StartRefused, Returns, TypeOK, Step, registry, service, process
<1>9. CASE Create(h)
  BY <1>9 DEF Create, Goto, TypeOK, Step, registry, process
<1>10. CASE AlreadyInstalled(h)
  BY <1>10 DEF AlreadyInstalled, Returns, TypeOK, Step, registry, service, process
<1>11. CASE Delete(h)
  BY <1>11 DEF Delete, Returns, TypeOK, Step, registry, process
<1>12. CASE SetStartType(h)
  BY <1>12 DEF SetStartType, Returns, TypeOK, Step, registry, process
<1> QED
  BY <1>1, <1>2, <1>3, <1>4, <1>5, <1>6, <1>7, <1>8, <1>9, <1>10, <1>11, <1>12 DEF Work

LEMMA TroubleTypes ==
  ASSUME ConstantsOK, TypeOK, NEW h \in Helper, Trouble(h)
  PROVE  TypeOK'
<1> USE DEF Fault, ConstantsOK
<1>1. CASE WriteFails(h)
  BY <1>1 DEF WriteFails, Returns, TypeOK, Step, registry, service, process
<1>2. CASE CheckFails(h)
  BY <1>2 DEF CheckFails, TypeOK, Step, registry, service, process
<1>3. CASE StopTooSlow(h)
  <2>1. pc' \in [Helper -> Step] /\ result' \in [Helper -> {"none", "ok", "failed"}]
    BY <1>3 DEF StopTooSlow, StopFailed, Returns, Goto, TypeOK, Step
  <2>2. UNCHANGED <<op, saw>>
    BY <1>3 DEF StopTooSlow, StopFailed, Returns, Goto
  <2> QED
    BY <1>3, <2>1, <2>2 DEF StopTooSlow, TypeOK, registry, service, process
<1>4. CASE Killed(h)
  BY <1>4 DEF Killed, Returns, TypeOK, Step, registry, service, process
<1> QED
  BY <1>1, <1>2, <1>3, <1>4 DEF Trouble

LEMMA LaunchTypes ==
  ASSUME TypeOK, NEW h \in Helper, NEW m \in Mode, Launch(h, m)
  PROVE  TypeOK'
<1>1. FirstCall(m) \in Step
  BY DEF FirstCall, Mode, Step, Writing
<1>2. pc' \in [Helper -> Step] /\ op' \in [Helper -> Mode \cup {"none"}]
  BY <1>1 DEF Launch, TypeOK
<1> QED
  BY <1>2 DEF Launch, TypeOK, registry, service, process

LEMMA ServiceTypes ==
  ASSUME ConstantsOK, TypeOK, Purge \/ Reports \/ ReadValue \/ StopsForGood \/ Crashes
  PROVE  TypeOK'
<1>1. CASE Purge
  BY <1>1 DEF Purge, TypeOK, registry, process, helper
<1>2. CASE Reports
  BY <1>2 DEF Reports, TypeOK, State, registry, process, helper
<1>3. CASE ReadValue
  <2>1. /\ Head(toRead) \in Field
        /\ Tail(toRead) \in {<<>>, <<"Name">>, <<"Port", "Name">>}
    <3>1. CASE toRead = ReadOrder
      BY <3>1, SMT DEF ReadOrder, Field
    <3>2. CASE toRead = <<"Port", "Name">>
      BY <3>2, SMT DEF Field
    <3>3. CASE toRead = <<"Name">>
      BY <3>3, SMT DEF Field
    <3> QED
      BY <1>3, <3>1, <3>2, <3>3 DEF ReadValue, TypeOK
  <2>2. reg[Head(toRead)] \in Nat
    BY <2>1 DEF TypeOK, Version
  <2>3. cfg' \in Version
    BY <1>3, <2>2 DEF ReadValue, TypeOK, Version
  <2>4. scm' # "stopped"
    BY <1>3 DEF ReadValue, TypeOK, service
  <2> QED
    BY <1>3, <2>1, <2>3, <2>4 DEF ReadValue, TypeOK, registry, service, helper
<1>4. CASE StopsForGood
  BY <1>4 DEF StopsForGood, Stopped, TypeOK, State, Version, Nothing, registry, helper
<1>5. CASE Crashes
  BY <1>5 DEF Crashes, Stopped, Fault, TypeOK, State, Version, Nothing, registry, helper, ConstantsOK
<1> QED
  BY <1>1, <1>2, <1>3, <1>4, <1>5

LEMMA NextTypes ==
  ASSUME ConstantsOK, TypeOK, HelperInv, [Next]_vars
  PROVE  TypeOK'
<1>1. CASE UNCHANGED vars
  BY <1>1 DEF TypeOK, vars, registry, service, process, helper
<1> QED
  BY <1>1, WorkTypes, TroubleTypes, LaunchTypes, ServiceTypes DEF Next

-----------------------------------------------------------------------------
(* Helpers, values, the entry.                                              *)

LEMMA GotoKeeps ==
  ASSUME TypeOK, HelperInv, NEW h \in Helper, pc[h] # "done",
         NEW s, Fits(op[h], s), Goto(h, s)
  PROVE  HelperInv'
<1>1. pc' = [pc EXCEPT ![h] = s] /\ UNCHANGED <<op, result>>
  BY DEF Goto
<1>2. result[h] = "none"
  BY DEF HelperInv
<1> QED
  BY <1>1, <1>2 DEF HelperInv, TypeOK

LEMMA ReturnsKeeps ==
  ASSUME TypeOK, HelperInv, NEW h \in Helper, NEW r, Returns(h, r)
  PROVE  HelperInv'
<1>1. pc' = [pc EXCEPT ![h] = "done"] /\ result' = [result EXCEPT ![h] = r] /\ UNCHANGED op
  BY DEF Returns
<1>2. Fits(op[h], "done")
  BY DEF Fits, Writing
<1> QED
  BY <1>1, <1>2 DEF HelperInv, TypeOK

LEMMA StopFailedKeeps ==
  ASSUME TypeOK, HelperInv, NEW h \in Helper, pc[h] \in {"control", "poll"}, StopFailed(h)
  PROVE  HelperInv'
<1>1. CASE op[h] = "uninstall-service"
  BY <1>1, GotoKeeps DEF StopFailed, Fits, Writing
<1>2. CASE op[h] = "apply-config"
  BY <1>2, GotoKeeps DEF StopFailed, Fits, Writing
<1>3. CASE op[h] \notin {"uninstall-service", "apply-config"}
  BY <1>3, ReturnsKeeps DEF StopFailed
<1> QED
  BY <1>1, <1>2, <1>3

LEMMA WorkKeepsHelpers ==
  ASSUME TypeOK, HelperInv, NEW h \in Helper, Work(h)
  PROVE  HelperInv'
<1>1. CASE WriteValue(h)
  <2>1. PICK s \in {"write 2", "write 3", AfterWrite(h)} : Goto(h, s)
    BY <1>1 DEF WriteValue
  <2>2. op[h] \in {"install-service", "apply-config"} /\ pc[h] # "done"
    BY <1>1 DEF WriteValue, HelperInv, Fits, Writing
  <2>3. Fits(op[h], s)
    BY <2>1, <2>2 DEF Fits, AfterWrite, Writing
  <2> QED
    BY <2>1, <2>2, <2>3, GotoKeeps
<1>2. CASE Check(h)
  <2>1. CASE scm = "running"
    <3>1. Fits(op[h], "control") /\ op[h] = "apply-config" /\ result[h] = "none"
      BY <1>2 DEF Check, HelperInv, Fits, Writing
    <3> QED
      BY <1>2, <2>1, <3>1 DEF Check, HelperInv, TypeOK
  <2>2. CASE scm # "running"
    <3>1. Fits(op[h], "done")
      BY DEF Fits, Writing
    <3> QED
      BY <1>2, <2>2, <3>1 DEF Check, HelperInv, TypeOK
  <2> QED
    BY <2>1, <2>2
<1>3. CASE Control(h)
  <2>1. Fits(op[h], IF op[h] = "uninstall-service" THEN "delete" ELSE "poll") /\ pc[h] # "done"
    BY <1>3 DEF Control, HelperInv, Fits, Writing
  <2> QED
    BY <1>3, <2>1, GotoKeeps DEF Control, StopSent
<1>4. CASE ControlRefused(h)
  BY <1>4, ReturnsKeeps, StopFailedKeeps DEF ControlRefused
<1>5. CASE PollStopped(h)
  <2>1. Fits(op[h], "start") \/ op[h] # "apply-config"
    BY DEF Fits, Writing
  <2> QED
    BY <1>5, <2>1, ReturnsKeeps, GotoKeeps DEF PollStopped
<1>6. CASE DeadlineOver(h)
  BY <1>6, StopFailedKeeps DEF DeadlineOver
<1>7. CASE Start(h) \/ StartRefused(h) \/ AlreadyInstalled(h) \/ Delete(h)
  BY <1>7, ReturnsKeeps DEF Start, StartRefused, AlreadyInstalled, Delete
<1>8. CASE Create(h)
  <2>1. Fits(op[h], "start") /\ pc[h] # "done"
    BY <1>8 DEF Create, HelperInv, Fits, Writing
  <2> QED
    BY <1>8, <2>1, GotoKeeps DEF Create
<1>9. CASE SetStartType(h)
  BY <1>9, ReturnsKeeps DEF SetStartType
<1> QED
  BY <1>1, <1>2, <1>3, <1>4, <1>5, <1>6, <1>7, <1>8, <1>9 DEF Work

LEMMA HelperStep ==
  ASSUME TypeOK, HelperInv, [Next]_vars
  PROVE  HelperInv'
<1>1. CASE UNCHANGED helper
  BY <1>1 DEF HelperInv, helper
<1>2. UNCHANGED vars \/ Purge \/ Reports \/ ReadValue \/ StopsForGood \/ Crashes => UNCHANGED helper
  BY DEF Purge, Reports, ReadValue, StopsForGood, Crashes, vars
<1>3. ASSUME NEW h \in Helper, NEW m \in Mode, Launch(h, m)
      PROVE  HelperInv'
  <2>1. Fits(m, FirstCall(m))
    BY DEF FirstCall, Mode, Fits, Writing
  <2>2. result[h] = "none"
    BY <1>3 DEF Launch, HelperInv
  <2>3. /\ op' = [op EXCEPT ![h] = m] /\ pc' = [pc EXCEPT ![h] = FirstCall(m)]
        /\ UNCHANGED result
    BY <1>3 DEF Launch
  <2> QED
    BY <2>1, <2>2, <2>3 DEF HelperInv, TypeOK
<1>4. ASSUME NEW h \in Helper, Trouble(h)
      PROVE  HelperInv'
  <2>1. CASE WriteFails(h) \/ Killed(h)
    BY <2>1, ReturnsKeeps DEF WriteFails, Killed
  <2>2. CASE CheckFails(h)
    <3>1. Fits(op[h], "done")
      BY DEF Fits, Writing
    <3> QED
      BY <2>2, <3>1 DEF CheckFails, HelperInv, TypeOK
  <2>3. CASE StopTooSlow(h)
    BY <2>3, StopFailedKeeps DEF StopTooSlow
  <2> QED
    BY <1>4, <2>1, <2>2, <2>3 DEF Trouble
<1> QED
  BY <1>1, <1>2, <1>3, <1>4, WorkKeepsHelpers DEF Next

(* Only WriteValue touches the registry.                                    *)
LEMMA RegistryStep ==
  ASSUME [Next]_vars
  PROVE  UNCHANGED registry \/ \E h \in Helper : WriteValue(h)
<1>1. ASSUME NEW h \in Helper, Work(h), ~WriteValue(h)
      PROVE  UNCHANGED registry
  BY <1>1 DEF Work, Check, Control, ControlRefused, PollStopped, DeadlineOver, Start,
     StartRefused, Create, AlreadyInstalled, Delete, SetStartType
<1>2. ASSUME NEW h \in Helper, Trouble(h)
      PROVE  UNCHANGED registry
  BY <1>2 DEF Trouble, WriteFails, CheckFails, StopTooSlow, Killed
<1>3. CASE Purge \/ Reports \/ ReadValue \/ StopsForGood \/ Crashes
  BY <1>3 DEF Purge, Reports, ReadValue, StopsForGood, Crashes
<1>4. ASSUME NEW h \in Helper, NEW m \in Mode, Launch(h, m)
      PROVE  UNCHANGED registry
  BY <1>4 DEF Launch
<1>5. CASE UNCHANGED vars
  BY <1>5 DEF vars
<1> QED
  BY <1>1, <1>2, <1>3, <1>4, <1>5 DEF Next

LEMMA WroteStep ==
  ASSUME TypeOK, WroteInv, [Next]_vars
  PROVE  WroteInv'
<1>1. CASE UNCHANGED registry
  BY <1>1 DEF WroteInv, registry
<1>2. ASSUME NEW h \in Helper, WriteValue(h)
      PROVE  WroteInv'
  <2> DEFINE w == WriteOrder[Nth(pc[h])]
  <2>0. Nth(pc[h]) \in 1..3
    BY DEF Nth
  <2>1. w \in Field
    BY <2>0, ReadTypes
  <2>2. reg[w] \in Nat /\ reg \in [Field -> Nat] /\ wrote \in [Helper -> [Field -> Nat]]
    BY <2>1 DEF TypeOK, Version
  <2>3. /\ reg' = [reg EXCEPT ![w] = reg[w] + 1]
        /\ wrote' = [wrote EXCEPT ![h] = [wrote[h] EXCEPT ![w] = reg[w] + 1]]
    BY <1>2 DEF WriteValue
  <2> SUFFICES ASSUME NEW g \in Helper, NEW f \in Field
               PROVE  wrote'[g][f] <= reg'[f]
    BY DEF WroteInv
  <2> HIDE DEF w
  <2>4. wrote[g][f] <= reg[f] /\ wrote[g][f] \in Nat /\ reg[f] \in Nat
    BY <2>2 DEF WroteInv
  <2>5. CASE f = w /\ g = h
    BY <2>1, <2>2, <2>3, <2>5
  <2>6. CASE f = w /\ g # h
    BY <2>1, <2>2, <2>3, <2>4, <2>6
  <2>7. CASE f # w
    BY <2>1, <2>2, <2>3, <2>4, <2>7
  <2> QED
    BY <2>5, <2>6, <2>7
<1> QED
  BY <1>1, <1>2, RegistryStep

LEMMA EntryStep ==
  ASSUME HelperInv, EntryInv, [Next]_vars
  PROVE  EntryInv'
<1>1. ASSUME NEW h \in Helper, Work(h)
      PROVE  EntryInv'
  <2>1. CASE WriteValue(h) \/ Check(h) \/ ControlRefused(h) \/ PollStopped(h) \/ DeadlineOver(h)
             \/ StartRefused(h) \/ AlreadyInstalled(h)
    BY <2>1 DEF WriteValue, Check, ControlRefused, PollStopped, DeadlineOver, StartRefused,
       AlreadyInstalled, EntryInv, service
  <2>2. CASE Control(h)
    BY <2>2 DEF Control, CanStop, EntryInv
  <2>3. CASE Start(h)
    BY <2>3 DEF Start, CanStart, StartService, EntryInv
  <2>4. CASE Create(h) \/ Delete(h)
    BY <2>4 DEF Create, Delete, EntryInv
  <2>5. CASE SetStartType(h)
    BY <2>5 DEF SetStartType, EntryInv
  <2> QED
    BY <1>1, <2>1, <2>2, <2>3, <2>4, <2>5 DEF Work
<1>2. ASSUME NEW h \in Helper, Trouble(h)
      PROVE  EntryInv'
  BY <1>2 DEF Trouble, WriteFails, CheckFails, StopTooSlow, Killed, EntryInv, service
<1>3. ASSUME NEW h \in Helper, NEW m \in Mode, Launch(h, m)
      PROVE  EntryInv'
  BY <1>3 DEF Launch, EntryInv, service
<1>4. CASE Purge \/ Reports \/ ReadValue \/ StopsForGood \/ Crashes
  BY <1>4 DEF Purge, Reports, ReadValue, StopsForGood, Crashes, Stopped, EntryInv, service
<1>5. CASE UNCHANGED vars
  BY <1>5 DEF vars, service, EntryInv
<1> QED
  BY <1>1, <1>2, <1>3, <1>4, <1>5 DEF Next

-----------------------------------------------------------------------------
(* What is in effect.  Due(h): helper h's values are, by AppliedTakesEffect *)
(* or by InstallInv.                                                        *)

Due(h) ==
  \/ op[h] = "install-service" /\ pc[h] = "start"
  \/ /\ op[h] \in {"install-service", "apply-config"} /\ result[h] = "ok"
     /\ saw[h] \notin {"starting", "unknown"}

Serves == scm \in {"starting", "running"}

DueInv == \A h \in Helper : Due(h) /\ Serves => Fresh(h)

LEMMA DueIsBoth == DueInv <=> InstallInv /\ AppliedTakesEffect
BY DEF DueInv, Due, Serves, InstallInv, AppliedTakesEffect

(* A process that has just been started has read nothing.                   *)
LEMMA StartedIsFresh ==
  ASSUME NEW h \in Helper, toRead' = ReadOrder
  PROVE  Fresh(h)'
<1> SUFFICES ASSUME NEW f \in Field PROVE ~(HasRead(f)')
  BY DEF Fresh
<1>1. \E i \in 1..3 : ReadOrder[i] = f
  BY DEF ReadOrder, Field
<1>2. Len(ReadOrder) = 3
  BY DEF ReadOrder
<1> QED
  BY <1>1, <1>2 DEF HasRead

(* A value that is read is the newest.                                      *)
LEMMA ReadIsFresh ==
  ASSUME TypeOK, WroteInv, ReadValue, NEW h \in Helper, Fresh(h)
  PROVE  Fresh(h)'
<1> DEFINE r == Head(toRead)
<1>1. toRead \in Seq(Field) /\ toRead # <<>>
  <2>1. toRead \in {<<>>, <<"Name">>, <<"Port", "Name">>, ReadOrder} /\ toRead # <<>>
    BY DEF TypeOK, ReadValue
  <2>2. <<"Name">> \in Seq(Field)
    BY SMT DEF Field
  <2>3. <<"Port", "Name">> \in Seq(Field)
    BY SMT DEF Field
  <2>4. ReadOrder \in Seq(Field)
    BY SMT DEF ReadOrder, Field
  <2> QED
    BY <2>1, <2>2, <2>3, <2>4
<1>2. \A f \in Field : f # r /\ HasRead(f)' => HasRead(f)
  <2> SUFFICES ASSUME NEW f \in Field, f # r, HasRead(f)', NEW i \in 1..Len(toRead)
               PROVE  toRead[i] # f
    BY DEF HasRead
  <2>1. CASE i = 1
    BY <1>1, <2>1
  <2>2. CASE i # 1
    <3>1. i - 1 \in 1..Len(Tail(toRead)) /\ Tail(toRead)[i - 1] = toRead[i]
      BY <1>1, <2>2, SMT
    <3> QED
      BY <3>1 DEF HasRead, ReadValue
  <2> QED
    BY <2>1, <2>2
<1>3. r \in Field
  BY <1>1
<1>4. cfg' = [cfg EXCEPT ![r] = reg[r]] /\ cfg \in [Field -> Nat] /\ UNCHANGED wrote
  BY DEF ReadValue, TypeOK, Version, registry
<1>5. reg[r] >= wrote[h][r]
  BY <1>3 DEF WroteInv, TypeOK, Version
<1> HIDE DEF r
<1> SUFFICES ASSUME NEW f \in Field, HasRead(f)'
             PROVE  cfg'[f] >= wrote'[h][f]
  BY DEF Fresh
<1> QED
  BY <1>2, <1>3, <1>4, <1>5 DEF Fresh

(* A helper's own step: it has no result yet, so that only the last one can *)
(* make it due.                                                             *)
LEMMA WorkKeepsDue ==
  ASSUME TypeOK, HelperInv, EntryInv, DueInv, NEW g \in Helper, Work(g)
  PROVE  DueInv'
<1> SUFFICES ASSUME NEW h \in Helper, Due(h)', Serves'
             PROVE  Fresh(h)'
  BY DEF DueInv
<1>1. CASE WriteValue(g)
  <2>1. h # g
    <3>1. pc'[g] \in Writing \cup {"create", "check"} /\ UNCHANGED <<op, result, saw>>
      BY <1>1 DEF WriteValue, Goto, AfterWrite, TypeOK, Writing
    <3>2. result[g] = "none"
      BY <1>1 DEF WriteValue, HelperInv, Writing
    <3> QED
      BY <3>1, <3>2 DEF Due, Writing
  <2>2. Due(h) /\ Serves
    BY <1>1, <2>1 DEF WriteValue, Goto, Due, Serves, TypeOK, service
  <2>3. wrote'[h] = wrote[h] /\ UNCHANGED <<toRead, cfg>>
    BY <1>1, <2>1 DEF WriteValue, TypeOK, process
  <2> QED
    BY <2>2, <2>3 DEF DueInv, Fresh, HasRead
<1>2. CASE Start(g)
  BY <1>2, StartedIsFresh DEF Start, StartService
<1>3. CASE Create(g) \/ Control(g)
  <2>1. scm' \notin {"starting", "running"}
    BY <1>3 DEF Create, Control, EntryInv
  <2> QED
    BY <2>1 DEF Serves
<1>4. CASE Check(g)
  <2>1. UNCHANGED <<scm, toRead, cfg, wrote>>
    BY <1>4 DEF Check, service, process, registry
  <2>2. Due(h)
    <3>1. CASE h = g
      <4>1. saw'[h] = scm /\ scm \in {"starting", "running"}
        BY <1>4, <3>1, <2>1 DEF Check, Serves, TypeOK
      <4>2. op'[h] = "apply-config" /\ result'[h] = "ok"
        BY <1>4, <3>1 DEF Check, Due, HelperInv, Fits
      <4>3. saw'[h] # "starting"
        BY <4>2 DEF Due
      <4>4. scm = "running"
        BY <4>1, <4>3
      <4>5. result'[h] = "none"
        BY <1>4, <3>1, <4>4 DEF Check, HelperInv
      <4> QED
        BY <4>2, <4>5
    <3>2. CASE h # g
      BY <1>4, <3>2 DEF Check, Due, TypeOK
    <3> QED
      BY <3>1, <3>2
  <2> QED
    BY <2>1, <2>2 DEF DueInv, Serves, Fresh, HasRead
<1>5. ASSUME UNCHANGED <<scm, toRead, cfg, wrote>>, Due(h)
      PROVE  Fresh(h)'
  BY <1>5 DEF DueInv, Serves, Fresh, HasRead
<1>6. CASE ControlRefused(g) \/ PollStopped(g) \/ DeadlineOver(g) \/ StartRefused(g)
           \/ AlreadyInstalled(g) \/ Delete(g) \/ SetStartType(g)
  <2>1. UNCHANGED <<scm, toRead, cfg, wrote>>
    BY <1>6 DEF ControlRefused, PollStopped, DeadlineOver, StartRefused, AlreadyInstalled,
       Delete, SetStartType, service, process, registry
  <2>2. CASE h # g
    <3>1. Due(h)
      BY <1>6, <2>2 DEF ControlRefused, PollStopped, DeadlineOver, StartRefused, AlreadyInstalled,
         Delete, SetStartType, StopFailed, Goto, Returns, Due, TypeOK
    <3> QED
      BY <1>5, <2>1, <3>1
  <2>3. CASE h = g
    <3>1. CASE StartRefused(g)
      BY <1>5, <2>1, <2>3, <3>1 DEF StartRefused, Returns, Due, TypeOK
    <3>2. CASE AlreadyInstalled(g)
      BY <2>3, <3>2 DEF AlreadyInstalled, Returns, Due, TypeOK
    <3>3. CASE Delete(g) \/ SetStartType(g)
      <4>1. op[g] \in {"uninstall-service", "set-start-type"} /\ UNCHANGED op
        BY <3>3 DEF Delete, SetStartType, Returns, HelperInv, Fits
      <4> QED
        BY <2>3, <4>1 DEF Due
    <3>4. CASE PollStopped(g)
      <4>1. op[g] # "install-service" /\ result[g] = "none" /\ UNCHANGED op
        BY <3>4 DEF PollStopped, Goto, Returns, HelperInv, Fits
      <4>2. op[g] = "apply-config" => UNCHANGED result
        BY <3>4 DEF PollStopped, Goto
      <4> QED
        BY <2>3, <4>1, <4>2 DEF Due
    <3>5. CASE ControlRefused(g) \/ DeadlineOver(g)
      <4>1. op[g] # "install-service" /\ result[g] = "none" /\ UNCHANGED op
        BY <3>5 DEF ControlRefused, DeadlineOver, StopFailed, Goto, Returns, HelperInv, Fits
      <4>2. op[g] = "apply-config" => UNCHANGED result
        BY <3>5 DEF ControlRefused, DeadlineOver, StopFailed, Goto
      <4> QED
        BY <2>3, <4>1, <4>2 DEF Due
    <3> QED
      BY <1>6, <3>1, <3>2, <3>3, <3>4, <3>5
  <2> QED
    BY <2>2, <2>3
<1> QED
  BY <1>1, <1>2, <1>3, <1>4, <1>6 DEF Work

LEMMA TroubleKeepsDue ==
  ASSUME TypeOK, HelperInv, DueInv, NEW g \in Helper, Trouble(g)
  PROVE  DueInv'
<1> SUFFICES ASSUME NEW h \in Helper, Due(h)', Serves'
             PROVE  Fresh(h)'
  BY DEF DueInv
<1>1. UNCHANGED <<scm, toRead, cfg, wrote>>
  BY DEF Trouble, WriteFails, CheckFails, StopTooSlow, Killed, service, process, registry
<1>2. CASE h # g
  <2>1. Due(h)
    BY <1>2 DEF Trouble, WriteFails, CheckFails, StopTooSlow, Killed, StopFailed, Goto, Returns,
       Due, TypeOK
  <2> QED
    BY <1>1, <2>1 DEF DueInv, Serves, Fresh, HasRead
<1>3. CASE h = g
  <2>1. CASE WriteFails(g) \/ Killed(g)
    BY <1>3, <2>1 DEF WriteFails, Killed, Returns, Due, TypeOK
  <2>2. CASE CheckFails(g)
    <3>1. saw'[g] = "unknown" /\ pc'[g] = "done"
      BY <2>2 DEF CheckFails, TypeOK
    <3> QED
      BY <1>3, <3>1 DEF Due
  <2>3. CASE StopTooSlow(g)
    <3>1. op[g] # "install-service" /\ result[g] = "none" /\ UNCHANGED op
      BY <2>3 DEF StopTooSlow, StopFailed, Goto, Returns, HelperInv, Fits
    <3>2. op[g] = "apply-config" => UNCHANGED result
      BY <2>3 DEF StopTooSlow, StopFailed, Goto
    <3> QED
      BY <1>3, <3>1, <3>2 DEF Due
  <2> QED
    BY <2>1, <2>2, <2>3 DEF Trouble
<1> QED
  BY <1>2, <1>3

LEMMA DueStep ==
  ASSUME TypeOK, HelperInv, WroteInv, EntryInv, DueInv, [Next]_vars
  PROVE  DueInv'
<1>1. ASSUME NEW g \in Helper, NEW m \in Mode, Launch(g, m)
      PROVE  DueInv'
  <2> SUFFICES ASSUME NEW h \in Helper, Due(h)', Serves'
               PROVE  Fresh(h)'
    BY DEF DueInv
  <2>1. result[g] = "none" /\ FirstCall(m) = "start" => m = "start-service"
    BY <1>1 DEF FirstCall, Mode
  <2>2. result[g] = "none"
    BY <1>1 DEF Launch, HelperInv
  <2>3. Due(h)
    BY <1>1, <2>1, <2>2 DEF Launch, Due, TypeOK
  <2> QED
    BY <1>1, <2>3 DEF Launch, DueInv, Serves, Fresh, HasRead, registry, service, process
<1>2. CASE ReadValue
  <2> SUFFICES ASSUME NEW h \in Helper, Due(h)', Serves'
               PROVE  Fresh(h)'
    BY DEF DueInv
  <2>1. Fresh(h)
    BY <1>2 DEF ReadValue, DueInv, Due, Serves, service, helper
  <2> QED
    BY <1>2, <2>1, ReadIsFresh
<1>3. CASE Purge \/ Reports
  BY <1>3 DEF Purge, Reports, DueInv, Due, Serves, Fresh, HasRead, registry, process, helper
<1>4. CASE StopsForGood \/ Crashes
  BY <1>4 DEF StopsForGood, Crashes, Stopped, DueInv, Serves
<1>5. CASE UNCHANGED vars
  BY <1>5 DEF DueInv, Due, Serves, Fresh, HasRead, vars, registry, service, process, helper
<1> QED
  BY <1>1, <1>2, <1>3, <1>4, <1>5, WorkKeepsDue, TroubleKeepsDue DEF Next

-----------------------------------------------------------------------------
(* Theorems.                                                                *)

(* What helpers, registry and service process have to do with each other in *)
(* every reachable state (the elevated modes and runServiceCore).           *)
THEOREM Invariance == Spec => []IInv
<1>1. Init => IInv
  BY ConstantsOK, InitInv
<1>2. IInv /\ [Next]_vars => IInv'
  <2> SUFFICES ASSUME IInv, [Next]_vars PROVE IInv'
    OBVIOUS
  <2>1. TypeOK' /\ HelperInv'
    BY ConstantsOK, NextTypes, HelperStep DEF IInv
  <2>2. WroteInv' /\ EntryInv'
    BY WroteStep, EntryStep DEF IInv
  <2>3. DueInv'
    BY DueStep, DueIsBoth DEF IInv
  <2>4. InstallInv' /\ AppliedTakesEffect'
    BY <2>3 DEF DueInv, Due, Serves, InstallInv, AppliedTakesEffect
  <2> QED
    BY <2>1, <2>2, <2>4 DEF IInv
<1> QED
  BY <1>1, <1>2, PTL DEF Spec

(* Every variable keeps its type, and a stopped service has no process that *)
(* goes on reading (Execute and runServiceCore of service_windows.go).      *)
THEOREM TypeCorrect == Spec => []TypeOK
<1>1. IInv => TypeOK
  BY DEF IInv
<1> QED
  BY <1>1, Invariance, PTL

(* However many helpers install, apply, start, stop and uninstall at once,  *)
(* and whatever fails, a configuration that was installed or applied        *)
(* successfully (applyConfigElevated, installService) is the one in effect. *)
THEOREM AppliedTakesEffectHolds == Spec => []AppliedTakesEffect
<1>1. IInv => AppliedTakesEffect
  BY DEF IInv
<1> QED
  BY <1>1, Invariance, PTL

=============================================================================
