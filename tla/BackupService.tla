---------------------------- MODULE BackupService ----------------------------
(***************************************************************************)
(* BackupService: create and restore (backup-service.ts).  create is also  *)
(* the first part of an archive and of a graceful update; what follows it  *)
(* depends on the operation it is part of.                                 *)
(***************************************************************************)
EXTENDS Platform

InBackup(f, label) ==
  flow[f].op \in {"backup", "archive", "update"} /\ flow[f].at = label

\* Where the caller of create goes on.
AfterBackup(f) ==
  IF flow[f].op = "backup" THEN "ok"
  ELSE IF flow[f].op = "archive" THEN "destroy" ELSE "broadcast"

\* tar over /opt/zomboid, which cloud-init creates.  Killed, it leaves a
\* truncated archive on the VM.
Tarred(f, file) == [To(f, "download") EXCEPT !.file = file]

BackupTar(f) ==
  /\ InBackup(f, "tar")
  /\ \/ SshCall(f, HasDocker(f), host[Srv(f)], Tarred(f, "complete"),
                Thrown(f, "error", "other"))
     \/ SilentLoss(f, Tarred(f, "truncated"))

\* Faulty variant: a download that breaks off goes unnoticed.
BackupDownloadUnchecked(f) ==
  /\ InBackup(f, "download")
  /\ \E tarball \in Tarballs :
       backups' = [backups EXCEPT ![Srv(f)] = @ \union {tarball}]
  /\ Goto(f, "rm")
  /\ UNCHANGED <<servers, tasks, host, rcon, dialing, faults>>

\* sftp.download into the local backup directory.  A transfer that breaks
\* off, also because the VM goes down in the middle of it, leaves what has
\* arrived.
BackupDownload(f) ==
  /\ InBackup(f, "download")
  /\ \/ /\ Reachable(f)
        /\ backups' = [backups EXCEPT ![Srv(f)] = @ \union {flow[f].file}]
        /\ Goto(f, "rm")
        /\ UNCHANGED faults
     \/ /\ Throw(f, "error", "other")
        /\ IF Reachable(f) THEN Fault ELSE UNCHANGED faults
        /\ \/ UNCHANGED backups
           \/ backups' = [backups EXCEPT ![Srv(f)] = @ \union {"partial"}]
  /\ host' = [host EXCEPT ![Srv(f)] = OverSsh(f, @)]
  /\ UNCHANGED <<servers, tasks, rcon, dialing>>

BackupCleanup(f) ==
  /\ InBackup(f, "rm")
  /\ Exec(f, Reachable(f), host[Srv(f)], AfterBackup(f), "error")

BackupSteps(f) == BackupTar(f) \/ BackupDownload(f) \/ BackupCleanup(f)

-----------------------------------------------------------------------------
(* restore: no step is undone when a later one fails.                      *)

RestoreStop(f) ==
  /\ At(f, "restore", "stop")
  /\ Exec(f, HasDocker(f), Halt(f), "upload", "error")

RestoreUpload(f) ==
  /\ At(f, "restore", "upload")
  /\ SshCall(f, Reachable(f), host[Srv(f)], To(f, "untar"),
             Thrown(f, "error", "other"))

\* tar -xzf fails on a truncated archive.
RestoreUntar(f) ==
  /\ At(f, "restore", "untar")
  /\ Exec(f, Reachable(f) /\ flow[f].file = "complete",
          host[Srv(f)], "up", "error")

RestoreUp(f) ==
  /\ At(f, "restore", "up")
  /\ Exec(f, HasDocker(f), Up(f), "ok", "error")

RestoreSteps(f) ==
  RestoreStop(f) \/ RestoreUpload(f) \/ RestoreUntar(f) \/ RestoreUp(f)

BackupServiceSteps(f) == BackupSteps(f) \/ RestoreSteps(f)
=============================================================================
