-------------------------- MODULE UpdateFlowService --------------------------
(***************************************************************************)
(* UpdateFlowService: gracefulUpdate, from its pre-update backup to its    *)
(* last status write, and quickRestart (update-flow-service.ts).           *)
(***************************************************************************)
EXTENDS BackupService

\* The warning delay is the time the flow spends at the label "save".
UpdateBroadcast(f) ==
  /\ At(f, "update", "broadcast")
  /\ RconCall(f, FALSE, "save", "error")

UpdateSave(f) ==
  /\ At(f, "update", "save")
  /\ RconCall(f, FALSE, "quit", "error")

UpdateQuit(f) ==
  /\ At(f, "update", "quit")
  /\ RconCall(f, TRUE, "pull", "error")

\* Pulling an image leaves the container alone.
UpdatePull(f) ==
  /\ At(f, "update", "pull")
  /\ Exec(f, HasDocker(f), host[Srv(f)], "up", "undoUp")

UpdateUp(f) ==
  /\ At(f, "update", "up")
  /\ Exec(f, HasDocker(f), Up(f), "ps", "error")

UpdateHealthCheck(f) ==
  /\ At(f, "update", "ps")
  /\ Exec(f, HasDocker(f), host[Srv(f)], "markRunning", "error")

UpdateMarkRunning(f) ==
  /\ At(f, "update", "markRunning")
  /\ UpdateStatus(f, "running", servers[Srv(f)], "ok", "error")

\* The pull failed: restart the old container and write "running"; both are
\* in one try block, so a rejected status write counts as a failed rollback.
UpdateUndoUp(f) ==
  /\ At(f, "update", "undoUp")
  /\ Exec(f, HasDocker(f), Up(f), "undoMarkRunning", "updateFailed")

\* Faulty variant: the reason is kept on the running server.
UpdateUndoMarkWithReason(f) ==
  /\ At(f, "update", "undoMarkRunning")
  /\ UpdateStatus(f, "running",
                  [servers[Srv(f)] EXCEPT !.errorMessage = "other"],
                  "error", "updateFailed")

UpdateUndoMarkRunning(f) ==
  /\ At(f, "update", "undoMarkRunning")
  /\ UpdateStatus(f, "running", servers[Srv(f)], "error", "updateFailed")

UpdateMarkFailed(f) ==
  /\ At(f, "update", "updateFailed")
  /\ UpdateStatus(f, "failed",
                  [servers[Srv(f)] EXCEPT !.errorMessage = "other"],
                  "error", "error")

UpdateSteps(f) ==
  \/ UpdateBroadcast(f) \/ UpdateSave(f) \/ UpdateQuit(f) \/ UpdatePull(f)
  \/ UpdateUp(f) \/ UpdateHealthCheck(f) \/ UpdateMarkRunning(f)
  \/ UpdateUndoUp(f) \/ UpdateUndoMarkRunning(f) \/ UpdateMarkFailed(f)

-----------------------------------------------------------------------------
RestartSave(f) ==
  /\ At(f, "quickRestart", "save")
  /\ RconCall(f, FALSE, "quit", "error")

RestartQuit(f) ==
  /\ At(f, "quickRestart", "quit")
  /\ RconCall(f, TRUE, "up", "error")

RestartUp(f) ==
  /\ At(f, "quickRestart", "up")
  /\ Exec(f, HasDocker(f), Up(f), "markRunning", "error")

RestartMarkRunning(f) ==
  /\ At(f, "quickRestart", "markRunning")
  /\ UpdateStatus(f, "running", servers[Srv(f)], "ok", "error")

QuickRestartSteps(f) ==
  RestartSave(f) \/ RestartQuit(f) \/ RestartUp(f) \/ RestartMarkRunning(f)

UpdateFlowSteps(f) == UpdateSteps(f) \/ QuickRestartSteps(f)
=============================================================================
