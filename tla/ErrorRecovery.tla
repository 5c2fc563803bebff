---------------------------- MODULE ErrorRecovery ----------------------------
(***************************************************************************)
(* The recovery actions of ErrorRecoveryPanel that change state            *)
(* (ErrorRecoveryPanel.tsx).  They work on the server prop of the panel,   *)
(* a copy of the row that nobody refreshes.                                *)
(***************************************************************************)
EXTENDS Platform

\* resolveRecoveryPhase.  A text that embeds remote output may contain any
\* of the words it looks for; no text means "Unknown error occurred.".
RecoveryPhases(error) ==
  CASE error = "provision" -> {1}
    [] error = "cloudInit" -> {3}
    [] error = "other"     -> 1..5
    [] OTHER               -> {5}

\* PHASE_ACTIONS and ALWAYS_VISIBLE_ACTIONS without the read-only actions.
PhaseActions(phase) ==
  { <<1, "destroy">>, <<1, "abort">>,
    <<2, "retryVmBoot">>, <<2, "destroy">>,
    <<3, "rerunBootstrap">>, <<3, "start">>, <<3, "destroy">>,
    <<4, "restartContainer">>, <<4, "reconfigure">> }
  \intersect ({phase} \X Ops)

RecoveryActions(row) ==
  {"retryDeploy", "archive"} \union
  { act \in Ops : \E phase \in RecoveryPhases(row.errorMessage) :
                    <<phase, act>> \in PhaseActions(phase) }

\* The label at which an action starts that uses the panel's copy of the row.
RecoveryStart ==
  { <<"destroy", "destroy">>, <<"abort", "markFailed">>,
    <<"retryVmBoot", "stopVm">>, <<"rerunBootstrap", "bootstrap">>,
    <<"restartContainer", "restart">>, <<"reconfigure", "note">> }

BeginRecovery(f) ==
  /\ flow[f].at = "panel"
  /\ flow[f].shown.status = "failed"
  /\ \E start \in RecoveryStart :
       /\ start[1] \in Ops \intersect RecoveryActions(flow[f].shown)
       /\ flow' = [flow EXCEPT ![f] =
            [@ EXCEPT !.op = start[1], !.at = start[2], !.server = flow[f].shown]]
  /\ UNCHANGED <<servers, tasks, host, backups, rcon, dialing, faults>>

\* destroy and destroy_partial ignore a result of success: false.
RecoveryDestroy(f) ==
  /\ At(f, "destroy", "destroy")
  /\ \E thrown \in {Thrown(f, "error", "other"), To(f, "markFailed")} :
       RemoteCall(f, TRUE, Destroyed(f), To(f, "markFailed"), thrown)

RecoveryStopVm(f) ==
  /\ At(f, "retryVmBoot", "stopVm")
  /\ CloudCall(f, VmExists(f), VmStopped(f), "startVm", "error")

RecoveryStartVm(f) ==
  /\ At(f, "retryVmBoot", "startVm")
  /\ CloudCall(f, VmExists(f), VmStarted(f), "markFailed", "error")

\* Only the reboot brings a message of its own.
RecoveryMarkFailed(f) ==
  /\ flow[f].op \in {"destroy", "abort", "retryVmBoot"}
  /\ flow[f].at = "markFailed"
  /\ UpdateStatus(f, "failed",
                  IF flow[f].op = "retryVmBoot"
                  THEN [servers[Srv(f)] EXCEPT !.errorMessage = "panel"]
                  ELSE servers[Srv(f)],
                  "ok", "error")

RecoveryReconfigure(f) ==
  /\ At(f, "reconfigure", "note")
  /\ UpdateRow(f, [servers[Srv(f)] EXCEPT !.errorMessage = "panel"],
               "ok", "error")

\* The user-data script of cloud-init; an image that takes the script for
\* a startup-script only does not have that file.
RecoveryBootstrap(f) ==
  /\ At(f, "rerunBootstrap", "bootstrap")
  /\ \E there \in BOOLEAN :
       Exec(f, there /\ Reachable(f), Bootstrapped(host[Srv(f)]), "ok", "error")

RecoveryRestart(f) ==
  /\ At(f, "restartContainer", "restart")
  /\ Exec(f, HasDocker(f) /\ host[Srv(f)].container # "none",
          Up(f), "ok", "error")

RecoverySteps(f) ==
  \/ RecoveryDestroy(f) \/ RecoveryStopVm(f) \/ RecoveryStartVm(f)
  \/ RecoveryMarkFailed(f) \/ RecoveryReconfigure(f)
  \/ RecoveryBootstrap(f) \/ RecoveryRestart(f)
=============================================================================
