----------------------------- MODULE ServiceAdmin -----------------------------
(***************************************************************************)
(* The administration of the Windows service: the elevated helpers that    *)
(* the control panel or an administrator starts (installService,           *)
(* uninstallService, startService, stopService, setStartType and           *)
(* applyConfigElevated of server/service_windows.go), the configuration    *)
(* in HKLM they write one value at a time (config_windows.go), the service *)
(* manager, and the service process, which reads the same values one at a  *)
(* time (runServiceCore) while it reports that it is running (Execute).    *)
(*                                                                         *)
(* Each helper is a process of its own, so several can be at work at once. *)
(* A step is one call of the service manager or the registry.              *)
(*                                                                         *)
(* A value in the registry is the number of times it has been written.     *)
(***************************************************************************)
EXTENDS Integers, Sequences, FiniteSets

CONSTANTS
  Helper,       (* the elevated helpers, each of which runs once            *)
  MaxFaults     (* bound on failing calls, killed helpers and crashes       *)

ASSUME ConstantsOK == IsFiniteSet(Helper) /\ MaxFaults \in Nat

VARIABLES
  reg,          (* HKLM\SOFTWARE\RemoteMouse                                *)
  entry,        (* the service in the service manager's database            *)
  enabled,      (* its start type is not "disabled"                         *)
  scm,          (* its state, as the service manager reports it             *)
  toRead,       (* the values runServiceCore has yet to read                *)
  cfg,          (* the configuration of the service process, 0: not read    *)
  op,           (* per helper, the mode it was started with                 *)
  pc,           (* per helper, its next call                                *)
  result,       (* per helper, whether its function returned an error       *)
  wrote,        (* history, per helper: the values it has written           *)
  saw,          (* per helper, the state serviceRunning found               *)
  faults        (* what is used of the bound                                *)

registry == <<reg, wrote>>
service  == <<entry, enabled, scm>>
process  == <<toRead, cfg>>
helper   == <<op, pc, result, saw>>
vars     == <<registry, service, process, helper, faults>>

Field == {"Password", "Name", "Port"}

(* The orders of writeConfig and readConfig.                                *)
WriteOrder == <<"Password", "Name", "Port">>
ReadOrder  == <<"Password", "Port", "Name">>

Mode == {"install-service", "uninstall-service", "start-service",
         "stop-service", "set-start-type", "apply-config"}

State == {"stopped", "starting", "running", "stopping"}

Version == [Field -> Nat]
Nothing == [f \in Field |-> 0]

(* What a helper is about to call; write n is SetValue of the nth value.    *)
Writing == {"write 1", "write 2", "write 3"}
Step == {"idle", "done", "check", "create", "control", "poll", "start", "delete", "update"}
        \cup Writing

Nth(s) == CASE s = "write 1" -> 1 [] s = "write 2" -> 2 [] OTHER -> 3

TypeOK ==
  /\ reg \in Version
  /\ entry \in {"absent", "installed", "marked"}
  /\ enabled \in BOOLEAN
  /\ scm \in State
  /\ toRead \in {<<>>, <<"Name">>, <<"Port", "Name">>, ReadOrder}
  /\ cfg \in Version
  /\ op \in [Helper -> Mode \cup {"none"}]
  /\ pc \in [Helper -> Step]
  /\ result \in [Helper -> {"none", "ok", "failed"}]
  /\ wrote \in [Helper -> Version]
  /\ saw \in [Helper -> State \cup {"none", "unknown"}]
  /\ faults \in 0..MaxFaults
  /\ scm = "stopped" => toRead = <<>> /\ cfg = Nothing

-----------------------------------------------------------------------------

Goto(h, s) == pc' = [pc EXCEPT ![h] = s] /\ UNCHANGED <<op, result, saw>>

Returns(h, r) ==
  /\ pc' = [pc EXCEPT ![h] = "done"]
  /\ result' = [result EXCEPT ![h] = r]
  /\ UNCHANGED <<op, saw>>

Fault == faults < MaxFaults /\ faults' = faults + 1

(* Where each mode begins.                                                  *)
FirstCall(m) ==
  CASE m \in {"install-service", "apply-config"}  -> "write 1"
    [] m \in {"uninstall-service", "stop-service"} -> "control"
    [] m = "start-service"                        -> "start"
    [] m = "set-start-type"                       -> "update"

Launch(h, m) ==
  /\ pc[h] = "idle"
  /\ op' = [op EXCEPT ![h] = m]
  /\ pc' = [pc EXCEPT ![h] = FirstCall(m)]
  /\ UNCHANGED <<result, saw, registry, service, process, faults>>

-----------------------------------------------------------------------------
(* writeConfig.                                                             *)

AfterWrite(h) == IF op[h] = "install-service" THEN "create" ELSE "check"

WriteValue(h) ==
  /\ pc[h] \in Writing
  /\ LET n == Nth(pc[h])
         f == WriteOrder[n]
     IN /\ reg' = [reg EXCEPT ![f] = @ + 1]
        /\ wrote' = [wrote EXCEPT ![h] = [@ EXCEPT ![f] = reg[f] + 1]]
        /\ Goto(h, CASE n = 1 -> "write 2" [] n = 2 -> "write 3" [] OTHER -> AfterWrite(h))
  /\ UNCHANGED <<service, process, faults>>

WriteFails(h) ==
  /\ pc[h] \in Writing
  /\ Fault
  /\ Returns(h, "failed")
  /\ UNCHANGED <<registry, service, process>>

-----------------------------------------------------------------------------
(* The service manager's calls.                                             *)

(* StartService, of a service that is not disabled, marked or started.      *)
CanStart == entry = "installed" /\ enabled /\ scm = "stopped"

(* Planted bug: the service process runs with its flags.                    *)
StartServiceByFlags ==
  /\ scm' = "starting"
  /\ toRead' = <<>> /\ cfg' = Nothing
  /\ UNCHANGED <<entry, enabled>>

(* The process begins with reading its configuration.                       *)
StartService ==
  /\ scm' = "starting"
  /\ toRead' = ReadOrder /\ cfg' = Nothing
  /\ UNCHANGED <<entry, enabled>>

(* ControlService with a stop: only a running service accepts it.           *)
CanStop == scm = "running"

(* Planted bug: the core goes on reading.                                   *)
StoppedStillReads ==
  /\ scm' = "stopped" /\ cfg' = Nothing
  /\ UNCHANGED <<toRead, entry, enabled>>

(* The service is stopped and its process is gone.                          *)
Stopped ==
  /\ scm' = "stopped"
  /\ toRead' = <<>> /\ cfg' = Nothing
  /\ UNCHANGED <<entry, enabled>>

-----------------------------------------------------------------------------
(* applyConfigElevated, after writeConfig.                                  *)

(* serviceRunning: only RUNNING counts.                                     *)
Check(h) ==
  /\ pc[h] = "check"
  /\ saw' = [saw EXCEPT ![h] = scm]
  /\ IF scm = "running"
       THEN /\ pc' = [pc EXCEPT ![h] = "control"]
            /\ UNCHANGED result
       ELSE /\ pc' = [pc EXCEPT ![h] = "done"]
            /\ result' = [result EXCEPT ![h] = "ok"]
  /\ UNCHANGED <<op, registry, service, process, faults>>

(* A query that fails counts as not running.                                *)
CheckFails(h) ==
  /\ pc[h] = "check"
  /\ Fault
  /\ saw' = [saw EXCEPT ![h] = "unknown"]
  /\ pc' = [pc EXCEPT ![h] = "done"]
  /\ result' = [result EXCEPT ![h] = "ok"]
  /\ UNCHANGED <<op, registry, service, process>>

-----------------------------------------------------------------------------
(* stopService, also of restartService, and the stop of uninstallService.   *)

(* What becomes of an error: uninstall and restart go on.                   *)
StopFailed(h) ==
  CASE op[h] = "uninstall-service" -> Goto(h, "delete")
    [] op[h] = "apply-config"      -> Goto(h, "start")
    [] OTHER                       -> Returns(h, "failed")

(* Planted bug: the restart does not wait for the service to stop.          *)
StopSentNoWait(h) ==
  Goto(h, CASE op[h] = "uninstall-service" -> "delete"
            [] op[h] = "apply-config"      -> "start"
            [] OTHER                       -> "poll")

(* Uninstall does not wait.                                                 *)
StopSent(h) == Goto(h, IF op[h] = "uninstall-service" THEN "delete" ELSE "poll")

Control(h) ==
  /\ pc[h] = "control"
  /\ CanStop
  /\ scm' = "stopping"
  /\ StopSent(h)
  /\ UNCHANGED <<entry, enabled, registry, process, faults>>

ControlRefused(h) ==
  /\ pc[h] = "control"
  /\ ~CanStop
  /\ IF op[h] = "uninstall-service" /\ entry = "absent"
       THEN Returns(h, "failed")
       ELSE StopFailed(h)
  /\ UNCHANGED <<registry, service, process, faults>>

(* The poll that finds the service stopped; the others change nothing.      *)
PollStopped(h) ==
  /\ pc[h] = "poll"
  /\ scm = "stopped"
  /\ IF op[h] = "apply-config" THEN Goto(h, "start") ELSE Returns(h, "ok")
  /\ UNCHANGED <<registry, service, process, faults>>

(* Planted bug: the poll goes on until it finds the service stopped.        *)
DeadlineNever(h) == FALSE /\ UNCHANGED vars

(* The ten seconds are over and every poll has missed that the service was  *)
(* stopped: another helper has started it again.                            *)
DeadlineOver(h) ==
  /\ pc[h] = "poll"
  /\ scm \in {"starting", "running"}
  /\ StopFailed(h)
  /\ UNCHANGED <<registry, service, process, faults>>

(* The service takes longer than that to stop, or a query fails.            *)
StopTooSlow(h) ==
  /\ pc[h] = "poll"
  /\ Fault
  /\ StopFailed(h)
  /\ UNCHANGED <<registry, service, process>>

-----------------------------------------------------------------------------
(* startService, also of restartService and of installService, which does   *)
(* not mind an error.                                                       *)

Start(h) ==
  /\ pc[h] = "start"
  /\ CanStart
  /\ StartService
  /\ Returns(h, "ok")
  /\ UNCHANGED <<registry, faults>>

StartRefused(h) ==
  /\ pc[h] = "start"
  /\ ~CanStart
  /\ Returns(h, IF op[h] = "install-service" THEN "ok" ELSE "failed")
  /\ UNCHANGED <<registry, service, process, faults>>

-----------------------------------------------------------------------------
(* installService after writeConfig, uninstallService, setStartType.        *)

Create(h) ==
  /\ pc[h] = "create"
  /\ entry = "absent"
  /\ entry' = "installed" /\ enabled' = TRUE
  /\ Goto(h, "start")
  /\ UNCHANGED <<scm, registry, process, faults>>

AlreadyInstalled(h) ==
  /\ pc[h] = "create"
  /\ entry # "absent"
  /\ Returns(h, "failed")
  /\ UNCHANGED <<registry, service, process, faults>>

Delete(h) ==
  /\ pc[h] = "delete"
  /\ entry' = "marked"
  /\ Returns(h, IF entry = "installed" THEN "ok" ELSE "failed")
  /\ UNCHANGED <<enabled, scm, registry, process, faults>>

SetStartType(h) ==
  /\ pc[h] = "update"
  /\ IF entry = "installed"
       THEN enabled' \in BOOLEAN /\ Returns(h, "ok")
       ELSE UNCHANGED enabled /\ Returns(h, "failed")
  /\ UNCHANGED <<entry, scm, registry, process, faults>>

(* Its console is closed, or its user logs off.                             *)
Killed(h) ==
  /\ pc[h] \notin {"idle", "done"}
  /\ Fault
  /\ Returns(h, "failed")
  /\ UNCHANGED <<registry, service, process>>

-----------------------------------------------------------------------------
(* The service manager and the service process.                             *)

(* A helper has a handle of the service open between two of its calls.      *)
HasHandle(h) ==
  pc[h] \in {"poll", "delete"} \/ (pc[h] = "start" /\ op[h] = "install-service")

(* What is marked for deletion goes when the service is stopped and nobody  *)
(* has it open.                                                             *)
Purge ==
  /\ entry = "marked" /\ scm = "stopped"
  /\ \A h \in Helper : ~HasHandle(h)
  /\ entry' = "absent"
  /\ UNCHANGED <<enabled, scm, registry, process, helper, faults>>

(* Execute reports RUNNING without waiting for runServiceCore.              *)
Reports ==
  /\ scm = "starting"
  /\ scm' = "running"
  /\ UNCHANGED <<entry, enabled, registry, process, helper, faults>>

(* readConfig, of runServiceCore, takes the next value.                     *)
ReadValue ==
  /\ toRead # <<>>
  /\ cfg' = [cfg EXCEPT ![Head(toRead)] = reg[Head(toRead)]]
  /\ toRead' = Tail(toRead)
  /\ UNCHANGED <<registry, service, helper, faults>>

(* Execute returns, svc.Run reports STOPPED and the process ends.           *)
StopsForGood ==
  /\ scm = "stopping"
  /\ Stopped
  /\ UNCHANGED <<registry, helper, faults>>

Crashes ==
  /\ scm \in {"starting", "running"}
  /\ Fault
  /\ Stopped
  /\ UNCHANGED <<registry, helper>>

-----------------------------------------------------------------------------

Init ==
  /\ \/ entry = "absent" /\ scm = "stopped" /\ reg = Nothing
     \/ entry = "installed" /\ scm \in {"stopped", "running"} /\ reg = [f \in Field |-> 1]
  /\ enabled = TRUE
  /\ toRead = <<>>
  /\ cfg = IF scm = "running" THEN reg ELSE Nothing
  /\ op = [h \in Helper |-> "none"] /\ pc = [h \in Helper |-> "idle"]
  /\ result = [h \in Helper |-> "none"] /\ saw = [h \in Helper |-> "none"]
  /\ wrote = [h \in Helper |-> Nothing]
  /\ faults = 0

(* What a helper that is started does by itself.                            *)
Work(h) ==
  \/ WriteValue(h) \/ Check(h)
  \/ Control(h) \/ ControlRefused(h) \/ PollStopped(h) \/ DeadlineOver(h)
  \/ Start(h) \/ StartRefused(h)
  \/ Create(h) \/ AlreadyInstalled(h) \/ Delete(h) \/ SetStartType(h)

Trouble(h) == WriteFails(h) \/ CheckFails(h) \/ StopTooSlow(h) \/ Killed(h)

Next ==
  \/ \E h \in Helper : Work(h) \/ Trouble(h) \/ \E m \in Mode : Launch(h, m)
  \/ Purge \/ Reports \/ ReadValue \/ StopsForGood \/ Crashes

Spec == Init /\ [][Next]_vars

(* A helper goes on, the service reports, reads and stops.                  *)
Fairness ==
  /\ \A h \in Helper : WF_vars(Work(h))
  /\ WF_vars(Reports) /\ WF_vars(ReadValue) /\ WF_vars(StopsForGood)

FairSpec == Spec /\ Fairness

-----------------------------------------------------------------------------
(* Properties.                                                              *)

(* The values the service process has read, if it has, are helper h's or    *)
(* ones written after them.                                                 *)
HasRead(f) == \A i \in 1..Len(toRead) : toRead[i] # f

Fresh(h) == \A f \in Field : HasRead(f) => cfg[f] >= wrote[h][f]

(* What an install or an apply-config that succeeded has written is in      *)
(* effect (service_windows.go:514-515, "restarts it so the change takes     *)
(* effect"): a service that is not being stopped runs with none of the      *)
(* values from before, whatever the other helpers do meanwhile.  It may if  *)
(* it was just starting, or could not be asked, when applyConfigElevated    *)
(* looked at it.                                                            *)
AppliedTakesEffect ==
  \A h \in Helper :
    /\ op[h] \in {"install-service", "apply-config"} /\ result[h] = "ok"
    /\ saw[h] \notin {"starting", "unknown"}
    /\ scm \in {"starting", "running"}
    => Fresh(h)

(* Nothing has failed, and nobody has asked for the service to be stopped,  *)
(* removed or disabled.                                                     *)
Quiet ==
  /\ faults = 0
  /\ \A h \in Helper : op[h] \in {"none", "apply-config", "start-service", "install-service"}

(* An apply-config that found the service running leaves it running, with   *)
(* its configuration, also when several apply and restart at once           *)
(* (service_windows.go:481-488).                                            *)
ComesBack ==
  \A h \in Helper :
    saw[h] = "running" ~>
      (Quiet => pc[h] = "done" /\ scm = "running" /\ toRead = <<>> /\ Fresh(h))

(* Every helper ends: stopService polls for ten seconds at most             *)
(* (service_windows.go:450-451), also when the service it waits for is      *)
(* started again behind its back.                                           *)
HelpersEnd == \A h \in Helper : pc[h] # "idle" ~> pc[h] = "done"

=============================================================================
