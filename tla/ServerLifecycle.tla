--------------------------- MODULE ServerLifecycle ---------------------------
(***************************************************************************)
(* The composition: panels from which users start operations, the services *)
(* that carry them out step by step, and the cloud behind them.            *)
(***************************************************************************)
EXTENDS DeployService, UpdateFlowService, ArchiveService, ErrorRecovery

-----------------------------------------------------------------------------
(* Panels.  The server prop is a copy of the row from the store, which is  *)
(* filled when the process starts; a panel that is opened early and used   *)
(* late stands for that.  It is not read again when an operation ends.     *)

OpenPanel(f, s) ==
  /\ flow[f].at = "idle"
  /\ servers[s].status # "absent"
  /\ flow' = [flow EXCEPT ![f] =
               [IdleFlow EXCEPT !.at = "panel", !.srv = s, !.shown = servers[s]]]
  /\ UNCHANGED <<servers, tasks, host, backups, rcon, dialing, faults>>

\* Leaving a panel; an operation that hangs is all that is left behind.
ClosePanel(f) ==
  /\ flow[f].at \in {"panel", "hung"}
  /\ flow' = [flow EXCEPT ![f] = IdleFlow]
  /\ UNCHANGED <<servers, tasks, host, backups, rcon, dialing, faults>>

\* The operation is over; its panel still shows the row it was opened with.
Dismiss(f) ==
  /\ flow[f].at \in Terminal
  /\ flow' = [flow EXCEPT ![f] =
               IF flow[f].shown.status = "absent" THEN IdleFlow
               ELSE [IdleFlow EXCEPT !.at = "panel", !.srv = flow[f].srv,
                                     !.shown = flow[f].shown]]
  /\ UNCHANGED <<servers, tasks, host, backups, rcon, dialing, faults>>

\* ServerManagement offers actions by the status it shows, BackupsPanel its
\* two in any status; nothing offers quickRestart, a method of the service.
Offered(row) ==
  {"backup", "restore"} \union
  CASE row.status = "running" -> {"stop", "update", "resize", "archive",
                                  "quickRestart"}
    [] row.status = "stopped" -> {"start", "update", "resize", "archive"}
    [] row.status = "failed"  ->
         {"update", "resize", "archive"}
         \union ({"start"} \intersect RecoveryActions(row))  \* wait_longer
    [] OTHER -> {}

\* Faulty variant: an archive that does not wait for its backup.
FirstAwaitWithoutBackup(op, row) ==
  CASE op \in {"backup", "update"} -> "tar"
    [] op = "archive"      -> "destroy"
    [] op = "restore"      -> "stop"
    [] op = "resize"       -> "down"
    [] op = "quickRestart" -> "save"
    [] op = "start" -> "up"
    [] op = "stop"  -> "down"

\* Where a method stands after requireServer and requireSshConn.
FirstAwait(op, row) ==
  CASE op \in {"backup", "archive", "update"} -> "tar"
    [] op = "restore"      -> "stop"
    [] op = "resize"       -> "down"
    [] op = "quickRestart" -> "save"
    [] op = "start" -> IF row.staticIp # "none" THEN "up" ELSE "error"
    [] op = "stop"  -> IF row.staticIp # "none" THEN "down" ELSE "error"

\* The user picks an action; the service reads the row anew.
Select(f, op) ==
  /\ flow[f].at = "panel"
  /\ op \in Offered(flow[f].shown)
  /\ \E type \in IF op = "resize"
                 THEN Catalog \ {flow[f].shown.instanceType} ELSE {AnyType},
        file \in IF op = "restore" THEN backups[Srv(f)] ELSE {"complete"} :
       flow' = [flow EXCEPT ![f] =
                 [@ EXCEPT !.op = op, !.at = FirstAwait(op, servers[Srv(f)]),
                           !.server = servers[Srv(f)],
                           !.newType = type, !.file = file]]
  /\ UNCHANGED <<servers, tasks, host, backups, rcon, dialing, faults>>

\* The wizard deploys a new server; retry_deploy deploys the failed one's
\* configuration under the same name.
Deploy(f) ==
  /\ "deploy" \in Ops
  /\ flow[f].at = "idle"
  /\ \E name \in Names, type \in WizardTypes : BeginDeploy(f, name, type)

RetryDeploy(f) ==
  /\ "retryDeploy" \in Ops
  /\ flow[f].at = "panel"
  /\ flow[f].shown.status = "failed"
  /\ BeginDeploy(f, flow[f].shown.name, flow[f].shown.instanceType)

\* SchedulerPanel stores a new task, enabled, whatever the row says by now.
AddTask(f, t) ==
  /\ flow[f].at = "panel"
  /\ flow[f].shown.staticIp # "none"
  /\ tasks' = [tasks EXCEPT ![Srv(f)] = @ \union {t}]
  /\ UNCHANGED <<servers, host, backups, rcon, dialing, faults, flow>>

-----------------------------------------------------------------------------
(* The Players tab connects RCON when it is mounted and disconnects when   *)
(* it is unmounted, whether or not the connect has completed by then.      *)

\* The Stats tab polls the container over ssh, the Players tab tunnels.
WatchStats(f) ==
  /\ flow[f].shown.status = "running"
  /\ flow[f].shown.staticIp = "ip"
  /\ host[Srv(f)].vm = "running"
  /\ host[Srv(f)].ssh = "none"
  /\ host' = [host EXCEPT ![Srv(f)].ssh = "live"]
  /\ UNCHANGED <<servers, tasks, backups, rcon, dialing, faults, flow>>

\* Changing tabs does not stop the operation the panel has started.
MountPlayers(f) ==
  /\ "players" \in Ops
  /\ flow[f].shown.status = "running"
  /\ flow[f].shown.staticIp # "none"
  /\ dialing' = dialing \union {Srv(f)}
  /\ UNCHANGED <<servers, tasks, host, backups, rcon, faults, flow>>

UnmountPlayers ==
  /\ rcon # Nobody
  /\ rcon' = Nobody
  /\ UNCHANGED <<servers, tasks, host, backups, dialing, faults, flow>>

\* A dial that fails after its tunnel is up has already replaced the socket.
DialEnds(s) ==
  /\ s \in dialing
  /\ dialing' = dialing \ {s}
  /\ \/ /\ host[s].vm = "running" /\ host[s].container = "up"
        /\ rcon' = s
     \/ UNCHANGED rcon
     \/ rcon' = Nobody
  /\ UNCHANGED <<servers, tasks, host, backups, faults, flow>>

-----------------------------------------------------------------------------
\* SIGINT: process.exit(0), whatever the flows are doing.
Exit ==
  /\ MayExit
  /\ flow' = [f \in Flows |-> IdleFlow]
  /\ rcon' = Nobody
  /\ dialing' = {}
  /\ host' = [s \in Servers |-> [host[s] EXCEPT !.ssh = "none"]]
  /\ UNCHANGED <<servers, tasks, backups, faults>>

ServiceSteps(f) ==
  \/ DeployServiceSteps(f) \/ BackupServiceSteps(f) \/ UpdateFlowSteps(f)
  \/ ArchiveSteps(f) \/ RecoverySteps(f)

UserSteps(f) ==
  \/ \E s \in Servers : OpenPanel(f, s)
  \/ ClosePanel(f) \/ Dismiss(f)
  \/ \E op \in Ops \ {"deploy", "retryDeploy"} : Select(f, op)
  \/ BeginRecovery(f) \/ Deploy(f) \/ RetryDeploy(f)
  \/ \E t \in Tasks : AddTask(f, t)
  \/ WatchStats(f) \/ MountPlayers(f)

CloudSteps ==
  \E s \in Servers :
    \/ VmBoots(s) \/ CloudInitRuns(s) \/ DockerRestarts(s)
    \/ LineDrops(s) \/ DialEnds(s)

Next ==
  \/ \E f \in Flows : ServiceSteps(f) \/ UserSteps(f)
  \/ CloudSteps
  \/ UnmountPlayers
  \/ Exit

Spec == PlatformInit /\ [][Next]_vars

\* The event loop runs every flow on, and every call that leaves the process
\* is assumed to settle: it answers, or it throws.
FairSpec == Spec /\ \A f \in Flows : WF_vars(ServiceSteps(f))

-----------------------------------------------------------------------------
(* Properties of any number of panels and processes.                       *)

Labels ==
  {"idle", "panel", "hung", "bucket", "provision", "saveIp", "vmBoot",
   "cloudInit", "markRunning", "deployFailed", "up", "down", "markStopped",
   "stopVm", "changeType", "startVm", "memory", "persist", "undoType",
   "undoVm", "undoMemory", "undoUp", "undone", "tar", "download", "rm",
   "stop", "upload", "untar", "broadcast", "save", "quit", "pull", "ps",
   "undoMarkRunning", "updateFailed", "destroy", "destroyFailed",
   "markArchived", "listTasks", "disableTasks", "markFailed", "bootstrap",
   "restart", "note"} \union Terminal

OpNames ==
  {"none", "deploy", "start", "stop", "resize", "backup", "restore",
   "update", "quickRestart", "archive", "destroy", "abort", "retryVmBoot",
   "rerunBootstrap", "restartContainer", "reconfigure"}

Flow ==
  [ at : Labels, op : OpNames, srv : Servers, shown : Row, server : Row,
    ip : {"none", "ip", "zero"}, newType : MachineTypes, file : Tarballs,
    listed : SUBSET Tasks, marks : SUBSET Marks,
    error : ErrorKinds \union {"none"}, polls : 0..MaxPolls,
    checked : BOOLEAN ]

\* Every variable has its type.
TypeOK ==
  /\ servers \in [Servers -> Row]
  /\ tasks \in [Servers -> SUBSET Tasks]
  /\ host \in [Servers -> Host]
  /\ backups \in [Servers -> SUBSET Tarballs]
  /\ rcon \in Servers \union {Nobody}
  /\ dialing \in SUBSET Servers
  /\ faults \in 0..MaxFaults
  /\ flow \in [Flows -> Flow]

\* No VM is paid for that the list of servers does not show: a VM exists only
\* for a server that has a row and is not archived.  (deploy writes the row
\* first, archive writes "archived" last; a stale panel must not be able to
\* bring a VM back.)
EveryVmIsListed ==
  \A s \in Servers :
    host[s].vm # "absent" => servers[s].status \notin {"absent", "archived"}

\* An archived server has a backup: one that was downloaded to its end is on
\* the disk, and the row says where.
ArchivedIsSaved ==
  \A s \in Servers :
    servers[s].status = "archived" =>
      Downloaded(s) /\ servers[s].backupPath = "path"

\* Infrastructure goes away only after a completed download of a backup, or
\* from a server that has failed (the recovery panel's destroy).
WorldIsSaved ==
  [][\A s \in Servers :
       host[s].vm # "absent" /\ host'[s].vm = "absent" =>
         Downloaded(s) \/ servers[s].errorMessage # "none"]_vars

\* A server listed as running or stopped has the address of its VM: neither
\* a null address nor the 0.0.0.0 of a failed terraform output survives the
\* polling that deploy does before it writes "running".
OnlineHasAddress ==
  \A s \in Servers :
    servers[s].status \in {"running", "stopped"} => servers[s].staticIp = "ip"

\* A failed server says why: the recovery panel's writes of "failed" without
\* a message never make a row that has none.
FailureExplained ==
  \A s \in Servers :
    servers[s].status = "failed" => servers[s].errorMessage # "none"

-----------------------------------------------------------------------------
(* Properties of one panel in one process, which may be killed at any time. *)

\* An error message is shown only for a server that failed; no operation
\* that succeeds leaves one behind on a running or stopped server.
ErrorOnlyAfterFailure ==
  \A s \in Servers :
    servers[s].errorMessage # "none" =>
      servers[s].status \in {"failed", "archived"}

\* changeInstanceType, when it returns, has the VM and the row agree on the
\* new type.  Unless one of its own commands was taken for done and was not,
\* the container runs, and the compose file has the memory of the new type
\* for as long as the startup script of this boot has not run.  When it throws
\* after its rollback has succeeded, a VM it had stopped runs again with the
\* type the row names.
ResizeOutcome ==
  \A f \in Flows :
    LET s == Srv(f) IN
    /\ At(f, "resize", "ok") =>
         /\ host[s].type = flow[f].newType
         /\ host[s].vm = "running"
         /\ servers[s].instanceType = flow[f].newType
         /\ ~Has(f, "lost") =>
              /\ host[s].container = "up"
              /\ host[s].due => host[s].memory = flow[f].newType
    /\ At(f, "resize", "rolledBack") /\ Has(f, "vmStopped") =>
         /\ host[s].vm = "running"
         /\ host[s].type = servers[s].instanceType

\* archive, when it returns, has left nothing behind: no VM, no enabled
\* task, and a row that is archived.
ArchiveOutcome ==
  \A f \in Flows :
    LET s == Srv(f) IN
    At(f, "archive", "ok") =>
      /\ servers[s].status = "archived"
      /\ host[s].vm = "absent"
      /\ tasks[s] = {}

\* Statuses, infrastructure and backups move as ServerContract allows.
Contract ==
  INSTANCE ServerContract WITH
    status <- [s \in Servers |-> servers[s].status],
    infra  <- [s \in Servers |-> host[s].vm # "absent"],
    saved  <- [s \in Servers |-> Downloaded(s)]

MeetsContract == Contract!Spec

-----------------------------------------------------------------------------
(* Liveness, under FairSpec.                                               *)

\* What waits for an answer ends: an operation returns or throws, unless an
\* RCON disconnect made it wait for an answer that nobody will deliver, and
\* a deployment has left "provisioning" by then: its polling loops give up.
OperationEnds ==
  \A f \in Flows :
    flow[f].at \notin {"idle", "panel"} ~>
      /\ flow[f].at \in Terminal \union {"idle", "panel", "hung"}
      /\ flow[f].op = "deploy" /\ flow[f].error # "none" =>
           servers[Srv(f)].status # "provisioning"

-----------------------------------------------------------------------------
(* Why the properties of many panels hold: the inductive invariant.        *)

\* What a row says is true of the cloud and the disk; a row without a usable
\* address has never been online.
RowInv(s) ==
  LET row == servers[s] IN
  /\ row.status = "absent" => host[s].vm = "absent" /\ row.staticIp = "none"
  /\ row.status = "archived" =>
       host[s].vm = "absent" /\ Downloaded(s)
       /\ row.backupPath = "path"
  /\ row.staticIp # "ip" => row.status \in {"absent", "provisioning", "failed"}
  /\ row.status = "failed" => row.errorMessage # "none"

InDeploy(f, labels) == flow[f].op = "deploy" /\ flow[f].at \in labels

\* A deployment owns its row until it has saved the address, and what it has
\* learnt about the address stays true.
DeployInv(f) ==
  LET row == servers[Srv(f)] IN
  /\ InDeploy(f, {"bucket", "provision", "saveIp"}) =>
       row.status = "provisioning" /\ row.staticIp = "none"
  /\ InDeploy(f, {"saveIp", "vmBoot", "cloudInit", "markRunning"}) =>
       flow[f].ip # "none"
  /\ InDeploy(f, {"vmBoot", "cloudInit", "markRunning"}) =>
       row.staticIp = flow[f].ip
  /\ InDeploy(f, {"markRunning"}) => flow[f].ip = "ip"
  /\ InDeploy(f, {"deployFailed"}) => flow[f].error # "none"
  /\ flow[f].op = "deploy" /\ flow[f].at \notin Terminal =>
       row.status # "absent"

\* What a panel shows may be stale, but a server that has been deployed is
\* not provisioned again, an address is not lost, an error message stays.
PanelInv(f) ==
  LET row == servers[Srv(f)]
      shown == flow[f].shown IN
  /\ shown.staticIp = "ip" => row.staticIp = "ip"
  /\ shown.status \in {"running", "stopped"} => shown.staticIp = "ip"
  /\ shown.status \in {"running", "stopped", "failed"} =>
       row.status \notin {"absent", "provisioning"}
  /\ shown.status = "failed" => row.errorMessage # "none"
  /\ flow[f].op \notin {"none", "deploy", "backup", "restore"} =>
       shown.status \in {"running", "stopped", "failed"}
  /\ flow[f].op \in {"destroy", "abort", "retryVmBoot", "reconfigure",
                     "rerunBootstrap", "restartContainer"} =>
       shown.status = "failed"

\* What an operation has read of the row stays true; the resize of a server
\* without an address is the resize of one that has failed.
StandingInv(f) ==
  LET row == servers[Srv(f)]
      ip  == flow[f].server.staticIp IN
  /\ ip = "ip" => row.staticIp = "ip"
  /\ flow[f].op = "resize" /\ ip = "none" =>
       row.status = "failed" /\ row.staticIp = "none"

\* How far an operation has come tells what it has made sure of.
ProgressInv(f) ==
  LET s  == Srv(f)
      ip == flow[f].server.staticIp
      op == flow[f].op
      at == flow[f].at IN
  /\ op # "deploy" /\ at \in {"markRunning", "markStopped", "undoMarkRunning"}
       => ip = "ip"
  /\ op = "resize" /\ at = "up" => ip = "ip"
  /\ op = "resize" /\ at = "persist" =>
       ip # "zero" /\ (flow[f].checked => ip # "none")
  /\ op \in {"backup", "archive", "update"} /\ at = "download" =>
       flow[f].file # "partial"
  /\ op \in {"backup", "archive", "update"} /\ at = "rm" =>
       Downloaded(s) /\ ip = "ip"
  /\ op = "archive" /\ at \in {"destroy", "destroyFailed", "markArchived"} =>
       Downloaded(s) /\ ip = "ip"
  /\ op = "archive" /\ at = "markArchived" => host[s].vm = "absent"

FlowInv(f) ==
  DeployInv(f) /\ PanelInv(f) /\ StandingInv(f) /\ ProgressInv(f)

\* No two deployments under way have the same server id.
OneDeploymentEach ==
  \A f, g \in Flows :
    /\ flow[f].op = "deploy" /\ flow[f].at \notin Terminal
    /\ flow[g].op = "deploy" /\ flow[g].at \notin Terminal
    /\ Srv(f) = Srv(g)
    => f = g

Inv ==
  /\ TypeOK
  /\ \A s \in Servers : RowInv(s)
  /\ \A f \in Flows : FlowInv(f)
  /\ OneDeploymentEach

-----------------------------------------------------------------------------
(* Why the properties of one panel hold: with Inv, the invariant of a      *)
(* panel that nobody interferes with.                                      *)

OnePanel == \A f, g \in Flows : f = g

\* The status each label writes.
StatusWrites ==
  { <<"markRunning", "running">>, <<"undoMarkRunning", "running">>,
    <<"persist", "running">>, <<"markStopped", "stopped">>,
    <<"markArchived", "archived">>, <<"deployFailed", "failed">>,
    <<"destroyFailed", "failed">>, <<"updateFailed", "failed">>,
    <<"markFailed", "failed">> }

\* A transition that was checked is still valid when it is written, and a
\* server that the panel shows as failed has at most been archived since.
RowSteady(f) ==
  LET row == servers[Srv(f)] IN
  /\ flow[f].checked =>
       \E status \in ServerStatus :
         /\ <<flow[f].at, status>> \in StatusWrites
         /\ row.status = "absent" \/ IsValidStatusTransition(row.status, status)
  /\ flow[f].shown.status = "failed" => row.status \in {"failed", "archived"}

\* Labels that only an operation reaches that has seen the VM.
VmLabels == {"saveIp", "vmBoot", "cloudInit", "markRunning",
             "undoMarkRunning", "persist"}

\* Nobody takes a VM away that was seen; an archive past its last write has
\* left nothing but the tasks it is about to disable.
OutcomeInv(f) ==
  LET s  == Srv(f)
      at == flow[f].at IN
  /\ at \in VmLabels => host[s].vm # "absent"
  /\ flow[f].op = "archive" /\ at \in {"listTasks", "disableTasks", "ok"} =>
       servers[s].status = "archived" /\ host[s].vm = "absent"
  /\ flow[f].op = "archive" /\ at = "disableTasks" =>
       tasks[s] \subseteq flow[f].listed
  /\ flow[f].op = "archive" /\ at = "ok" => tasks[s] = {}
  /\ at = "panel" => flow[f].marks = {}

\* The memory of the compose file is that of the new type until the startup
\* script has run.
MemorySet(f) ==
  ~Has(f, "lost") /\ host[Srv(f)].due => host[Srv(f)].memory = flow[f].newType

ContainerBack(f) ==
  /\ ~Has(f, "lost") => host[Srv(f)].container = "up"
  /\ MemorySet(f)

\* How far a resize has come.
ResizeForward(f) ==
  LET h     == host[Srv(f)]
      at    == flow[f].at
      marks == flow[f].marks IN
  /\ at \in {"down", "stopVm"} => marks = {}
  /\ at = "changeType" => marks = {"vmStopped"} /\ h.vm = "stopped"
  /\ at = "startVm" =>
       /\ marks = {"vmStopped", "machineChanged"}
       /\ h.vm = "stopped" /\ h.type = flow[f].newType
  /\ at \in {"memory", "up", "persist", "ok"} =>
       /\ {"vmStopped", "vmStarted"} \subseteq marks /\ "undoFailed" \notin marks
       /\ h.vm = "running" /\ h.type = flow[f].newType
  /\ at = "up" => MemorySet(f)
  /\ at = "persist" /\ HasConn(f) => ContainerBack(f)
  /\ at = "ok" =>
       ContainerBack(f) /\ servers[Srv(f)].instanceType = flow[f].newType
  /\ at # "ok" => servers[Srv(f)].instanceType = Original(f)

\* What a rollback still has to undo.  A VM that runs again cannot be resized,
\* so a rollback that comes that late fails.
ResizeBack(f) ==
  LET h       == host[Srv(f)]
      at      == flow[f].at
      marks   == flow[f].marks
      hopeful == "vmStopped" \in marks /\ "undoFailed" \notin marks IN
  /\ at = "undoType" =>
       /\ "undoFailed" \notin marks
       /\ "vmStopped" \in marks => h.vm \in {"stopped", "running"}
       /\ "vmStarted" \in marks => "vmStopped" \in marks /\ h.vm = "running"
  /\ at = "undoVm" /\ hopeful =>
       h.vm = "stopped" /\ h.type = Original(f) /\ "vmStarted" \notin marks
  /\ at \in {"undoMemory", "undoUp", "undone", "rolledBack"} /\ hopeful =>
       h.vm = "running" /\ h.type = Original(f)
  /\ at = "rolledBack" => "undoFailed" \notin marks

SoloFlowInv(f) ==
  /\ RowSteady(f) /\ OutcomeInv(f)
  /\ flow[f].op = "resize" => ResizeForward(f) /\ ResizeBack(f)

SoloInv ==
  /\ ErrorOnlyAfterFailure
  /\ \A f \in Flows : SoloFlowInv(f)

-----------------------------------------------------------------------------
(* Claims of the repository's comments and tests that the code does not    *)
(* keep; TLC shows how.                                                    *)

\* The tests of update, resize and archive: work that has been done up to its
\* last step is recorded, the status write at the end is not rejected.
FinishedWorkIsRecorded ==
  [][\A f \in Flows :
       flow[f].at \in {"markRunning", "markArchived", "persist"} =>
         flow'[f].at \notin {"error", "undoType", "deployFailed"}]_vars

\* archive-service.ts: "Mandatory backup (MUST succeed before destruction)":
\* archive destroys the VM only when the world it ran is on the disk.
MandatoryBackup ==
  [][\A f \in Flows :
       At(f, "archive", "destroy") /\ flow'[f].at = "markArchived" =>
         "complete" \in backups[Srv(f)]]_vars

\* deploy's third and fourth step: a poll of a VM that runs ends the waiting.
RunningVmIsSeen ==
  [][\A f \in Flows :
       At(f, "deploy", "vmBoot") /\ host[Srv(f)].vm = "running" =>
         flow'[f].polls = 0]_vars

\* The test of changeInstanceType: after a resize in which nothing failed the
\* remote compose file has the SERVER_MEMORY of the new type.
MemoryIsResized ==
  \A f \in Flows :
    At(f, "resize", "ok") /\ faults = 0 =>
      host[Srv(f)].memory = flow[f].newType

\* The tests of changeInstanceType: what fails after the resize is rolled
\* back; where no call fails of its own accord, no rollback fails.
QuietRollback ==
  \A f \in Flows : At(f, "resize", "rollbackFailed") => faults > 0
=============================================================================
