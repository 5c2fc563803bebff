-------------------------- MODULE MCServerLifecycle --------------------------
(***************************************************************************)
(* Instances of ServerLifecycle for TLC: the operations each run lets its  *)
(* users start.                                                            *)
(***************************************************************************)
EXTENDS ServerLifecycle, TLC

AllOps ==
  {"deploy", "retryDeploy", "start", "stop", "resize", "backup", "restore",
   "update", "quickRestart", "archive", "destroy", "abort", "retryVmBoot",
   "rerunBootstrap", "restartContainer", "reconfigure", "players"}

\* Operations that create, destroy or restart infrastructure.
RivalOps ==
  {"deploy", "start", "stop", "archive", "destroy", "abort", "retryVmBoot"}

\* Operations whose last step writes a status, after a stop or a start.
RecordingOps == {"deploy", "archive"}

UpdateOps == {"deploy", "update", "players"}

ResizeOps == {"deploy", "stop", "resize"}

ArchiveOps == {"deploy", "start", "stop", "archive"}

Symmetry == Permutations(Flows)
=============================================================================
