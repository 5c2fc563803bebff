--------------------------- MODULE ArchiveService ---------------------------
(***************************************************************************)
(* ArchiveService.archive after its mandatory backup: destroy the          *)
(* infrastructure, record it, disable the scheduled tasks                  *)
(* (archive-service.ts).                                                   *)
(***************************************************************************)
EXTENDS BackupService

\* Faulty variant: the result is not looked at.
ArchiveDestroyUnchecked(f) ==
  /\ At(f, "archive", "destroy")
  /\ RemoteCall(f, TRUE, Destroyed(f), To(f, "markArchived"),
                To(f, "markArchived"))

\* cloud.destroy may also answer success: false, which the flow persists; a
\* destroy that throws is not caught.
ArchiveDestroy(f) ==
  /\ At(f, "archive", "destroy")
  /\ \E thrown \in {Thrown(f, "error", "other"), To(f, "destroyFailed")} :
       RemoteCall(f, TRUE, Destroyed(f), To(f, "markArchived"), thrown)

ArchiveMarkFailed(f) ==
  /\ At(f, "archive", "destroyFailed")
  /\ UpdateStatus(f, "failed",
                  [servers[Srv(f)] EXCEPT !.errorMessage = "other"],
                  "error", "error")

ArchiveMarkArchived(f) ==
  /\ At(f, "archive", "markArchived")
  /\ UpdateStatus(f, "archived",
                  [servers[Srv(f)] EXCEPT !.backupPath = "path"],
                  "listTasks", "error")

ArchiveListTasks(f) ==
  /\ At(f, "archive", "listTasks")
  /\ flow' = [flow EXCEPT ![f] =
               [@ EXCEPT !.at = "disableTasks", !.listed = tasks[Srv(f)]]]
  /\ UNCHANGED <<servers, tasks, host, backups, rcon, dialing, faults>>

\* Every updateTask runs up to its end before the first one is awaited; one
\* that is refused does not keep the others from their write.
ArchiveDisableTasks(f) ==
  /\ At(f, "archive", "disableTasks")
  /\ \/ /\ tasks' = [tasks EXCEPT ![Srv(f)] = @ \ flow[f].listed]
        /\ Goto(f, "ok") /\ UNCHANGED faults
     \/ /\ \E refused \in SUBSET flow[f].listed :
             tasks' = [tasks EXCEPT ![Srv(f)] = @ \ (flow[f].listed \ refused)]
        /\ Throw(f, "error", "other") /\ Contended(f)
  /\ UNCHANGED <<servers, host, backups, rcon, dialing>>

ArchiveSteps(f) ==
  \/ ArchiveDestroy(f) \/ ArchiveMarkFailed(f) \/ ArchiveMarkArchived(f)
  \/ ArchiveListTasks(f) \/ ArchiveDisableTasks(f)
=============================================================================
