---------------------------- MODULE DeployService ----------------------------
(***************************************************************************)
(* DeployService: deploy, startServer, stopServer and changeInstanceType   *)
(* with its rollback (deploy-service.ts).                                  *)
(***************************************************************************)
EXTENDS Platform

-----------------------------------------------------------------------------
(* deploy.  The record is written before anything is provisioned; every    *)
(* later failure ends in status "failed" with a message.                   *)

\* A fresh UUID: the server id has no row.  A taken name throws before the
\* try block, so nothing is persisted, and a panel stays what it was.
BeginDeploy(f, name, type) ==
  /\ \/ /\ \/ NameTaken(name) /\ UNCHANGED faults
           \/ Contended(f)
        /\ flow' = [flow EXCEPT ![f] = [@ EXCEPT !.op = "deploy", !.at = "error"]]
        /\ UNCHANGED servers
     \/ /\ ~NameTaken(name)
        /\ UNCHANGED faults
        /\ \E s \in Servers :
             /\ servers[s].status = "absent"
             /\ servers' = [servers EXCEPT ![s] =
                  [NoRow EXCEPT !.name = name, !.status = "provisioning",
                                !.instanceType = type]]
             /\ flow' = [flow EXCEPT ![f] =
                  [IdleFlow EXCEPT !.op = "deploy", !.at = "bucket",
                                   !.srv = s, !.newType = type]]
  /\ UNCHANGED <<tasks, host, backups, rcon, dialing>>

EnsureStateBucket(f) ==
  /\ At(f, "deploy", "bucket")
  /\ RemoteCall(f, TRUE, host[Srv(f)], To(f, "provision"),
                Thrown(f, "deployFailed", "other"))

\* terraform apply.  When the terraform output after it fails, provision
\* still answers success, with the address 0.0.0.0.
GotoSaveIp(f, ip) ==
  flow' = [flow EXCEPT ![f] = [@ EXCEPT !.at = "saveIp", !.ip = ip]]

Provision(f) ==
  /\ At(f, "deploy", "provision")
  /\ \/ /\ host' = [host EXCEPT ![Srv(f)] =
                    [vm |-> "staging", type |-> flow[f].newType,
                     memory |-> flow[f].newType, script |-> flow[f].newType,
                     due |-> TRUE, container |-> "pending", ssh |-> "none"]]
        /\ \/ GotoSaveIp(f, "ip") /\ UNCHANGED faults
           \/ GotoSaveIp(f, "zero") /\ Fault
           \/ Throw(f, "deployFailed", "provision") /\ Fault
     \/ /\ Throw(f, "deployFailed", "provision")
        /\ Fault
        /\ UNCHANGED host
  /\ UNCHANGED <<servers, tasks, backups, rcon, dialing>>

SaveStaticIp(f) ==
  /\ At(f, "deploy", "saveIp")
  /\ UpdateRow(f, [servers[Srv(f)] EXCEPT !.staticIp = flow[f].ip],
               "vmBoot", "deployFailed")

\* Faulty variants: one round too many; rounds that are not counted.
PollOnceMore(f, ready, next, timeout) ==
  /\ \/ flow[f].polls <= MaxPolls /\ ready /\ Goto(f, next)
     \/ flow[f].polls <= MaxPolls /\ flow' = [flow EXCEPT ![f].polls = @ + 1]
     \/ flow[f].polls > MaxPolls /\ Throw(f, "deployFailed", timeout)
  /\ UNCHANGED <<servers, tasks, backups, rcon, dialing, faults>>

PollForever(f, ready, next, timeout) ==
  /\ IF ready THEN Goto(f, next) ELSE UNCHANGED flow
  /\ UNCHANGED <<servers, tasks, backups, rcon, dialing, faults>>

\* One round of a polling loop: leave it when ready, otherwise sleep and
\* count, and throw once MaxPolls rounds were in vain.  A failing call counts
\* as a round that was not ready.
Poll(f, ready, next, timeout) ==
  /\ \/ /\ flow[f].polls < MaxPolls
        /\ ready
        /\ Goto(f, next)
        /\ UNCHANGED faults
     \/ /\ flow[f].polls < MaxPolls
        /\ flow' = [flow EXCEPT ![f].polls = @ + 1]
        /\ IF ready THEN Fault ELSE UNCHANGED faults
     \/ /\ flow[f].polls = MaxPolls
        /\ Throw(f, "deployFailed", timeout)
        /\ UNCHANGED faults
  /\ UNCHANGED <<servers, tasks, backups, rcon, dialing>>

\* getInstanceStatus answers NOT_FOUND when gcloud fails.
WaitForVmBoot(f) ==
  /\ At(f, "deploy", "vmBoot")
  /\ Poll(f, NamesAgree /\ host[Srv(f)].vm = "running", "cloudInit", "vmBoot")
  /\ UNCHANGED host

\* Faulty variant: content with a VM that is up, whatever its address.
WaitForVmOnly(f) ==
  /\ At(f, "deploy", "cloudInit")
  /\ Poll(f, host[Srv(f)].vm = "running", "markRunning", "cloudInit")
  /\ UNCHANGED host

\* testConnection, which leaves a client in the pool, answers false when it
\* cannot connect, and a failing exec is swallowed.
WaitForCloudInit(f) ==
  LET h  == host[Srv(f)]
      up == flow[f].ip = "ip" /\ h.vm = "running" /\ h.ssh # "dead" IN
  /\ At(f, "deploy", "cloudInit")
  /\ Poll(f, up /\ h.container = "up", "markRunning", "cloudInit")
  /\ host' = IF up /\ flow[f].polls < MaxPolls
             THEN [host EXCEPT ![Srv(f)].ssh = "live"] ELSE host

DeployMarkRunning(f) ==
  /\ At(f, "deploy", "markRunning")
  /\ UpdateStatus(f, "running", servers[Srv(f)], "ok", "deployFailed")

\* Faulty variant: the message is left out.
DeployMarkFailedSilently(f) ==
  /\ At(f, "deploy", "deployFailed")
  /\ UpdateStatus(f, "failed", servers[Srv(f)], "error", "error")

DeployMarkFailed(f) ==
  /\ At(f, "deploy", "deployFailed")
  /\ UpdateStatus(f, "failed",
                  [servers[Srv(f)] EXCEPT !.errorMessage = flow[f].error],
                  "error", "error")

DeploySteps(f) ==
  \/ EnsureStateBucket(f) \/ Provision(f) \/ SaveStaticIp(f)
  \/ WaitForVmBoot(f) \/ WaitForCloudInit(f)
  \/ DeployMarkRunning(f) \/ DeployMarkFailed(f)

-----------------------------------------------------------------------------
(* startServer and stopServer.                                             *)

StartContainer(f) ==
  /\ At(f, "start", "up")
  /\ Exec(f, HasDocker(f), Up(f), "markRunning", "error")

StartMarkRunning(f) ==
  /\ At(f, "start", "markRunning")
  /\ UpdateStatus(f, "running", servers[Srv(f)], "ok", "error")

StopContainer(f) ==
  /\ At(f, "stop", "down")
  /\ Exec(f, HasDocker(f), Down(f), "markStopped", "error")

StopMarkStopped(f) ==
  /\ At(f, "stop", "markStopped")
  /\ UpdateStatus(f, "stopped", servers[Srv(f)], "ok", "error")

StartStopSteps(f) ==
  \/ StartContainer(f) \/ StartMarkRunning(f)
  \/ StopContainer(f) \/ StopMarkStopped(f)

-----------------------------------------------------------------------------
(* changeInstanceType: stop the container and the VM, resize, start both,  *)
(* persist.  Each achieved step is remembered as a mark, which decides     *)
(* what the rollback undoes.                                               *)

WasRunning(f) == flow[f].server.status = "running"
HasConn(f)    == flow[f].server.staticIp # "none"
Original(f)   == flow[f].server.instanceType
Has(f, mark)  == mark \in flow[f].marks

\* History: the command that was lost is one the outcome depends on.
Lost(next) == [next EXCEPT !.marks = @ \union {"lost"}]

ResizeDown(f) ==
  /\ At(f, "resize", "down")
  /\ IF WasRunning(f) /\ HasConn(f)
     THEN Exec(f, HasDocker(f), Down(f), "stopVm", "undoType")
     ELSE Skip(f, "stopVm")

ResizeStopVm(f) ==
  /\ At(f, "resize", "stopVm")
  /\ RemoteCall(f, VmExists(f), VmStopped(f),
                Marked(f, "changeType", "vmStopped"),
                Thrown(f, "undoType", "other"))

ResizeChangeType(f) ==
  /\ At(f, "resize", "changeType")
  /\ RemoteCall(f, CanResize(f), VmResized(f, flow[f].newType),
                Marked(f, "startVm", "machineChanged"),
                Thrown(f, "undoType", "other"))

\* Without an address the container is neither reconfigured nor started.
ResizeStartVm(f) ==
  /\ At(f, "resize", "startVm")
  /\ RemoteCall(f, VmExists(f), VmStarted(f),
                Marked(f, IF HasConn(f) THEN "memory" ELSE "persist",
                           "vmStarted"),
                Thrown(f, "undoType", "other"))

\* updateServerMemory: sed over the compose file.
SetMemory(f, type) == [host[Srv(f)] EXCEPT !.memory = type]

ResizeMemory(f) ==
  /\ At(f, "resize", "memory")
  /\ \/ SshCall(f, HasDocker(f), SetMemory(f, flow[f].newType),
                Marked(f, "up", "composeUpdated"),
                Thrown(f, "undoType", "other"))
     \/ SilentLoss(f, Lost(Marked(f, "up", "composeUpdated")))

ResizeUp(f) ==
  /\ At(f, "resize", "up")
  /\ \/ SshCall(f, HasDocker(f), Up(f), To(f, "persist"),
                Thrown(f, "undoType", "other"))
     \/ SilentLoss(f, Lost(To(f, "persist")))

ResizePersist(f) ==
  /\ At(f, "resize", "persist")
  /\ UpdateStatus(f, "running",
                  [servers[Srv(f)] EXCEPT !.instanceType = flow[f].newType],
                  "ok", "undoType")

ResizeSteps(f) ==
  \/ ResizeDown(f) \/ ResizeStopVm(f) \/ ResizeChangeType(f)
  \/ ResizeStartVm(f) \/ ResizeMemory(f) \/ ResizeUp(f) \/ ResizePersist(f)

-----------------------------------------------------------------------------
(* rollbackInstanceResize: four attempts, each under its own condition;    *)
(* an attempt that throws is noted and the next one is made all the same.  *)

Undo(f, needed, can, effect, next) ==
  IF needed
  THEN RemoteCall(f, can, effect, To(f, next),
                  Marked(f, next, "undoFailed"))
  ELSE Skip(f, next)

UndoOverSsh(f, needed, can, effect, next) ==
  IF needed
  THEN \/ SshCall(f, can, effect, To(f, next), Marked(f, next, "undoFailed"))
       \/ SilentLoss(f, To(f, next))
  ELSE Skip(f, next)

\* Faulty variant: trusts the mark that a lost answer never sets.
UndoTypeIfMarked(f) ==
  /\ At(f, "resize", "undoType")
  /\ Undo(f, Has(f, "machineChanged"),
          CanResize(f), VmResized(f, Original(f)), "undoVm")

UndoType(f) ==
  /\ At(f, "resize", "undoType")
  /\ Undo(f, Has(f, "machineChanged") \/ Has(f, "vmStopped"),
          CanResize(f), VmResized(f, Original(f)), "undoVm")

UndoVm(f) ==
  /\ At(f, "resize", "undoVm")
  /\ Undo(f, Has(f, "vmStopped") /\ ~Has(f, "vmStarted"),
          VmExists(f), VmStarted(f), "undoMemory")

\* originalMemory is null for a type that is not in the catalog.
UndoMemory(f) ==
  /\ At(f, "resize", "undoMemory")
  /\ UndoOverSsh(f, /\ HasConn(f) /\ Has(f, "composeUpdated")
                    /\ Original(f) \in Catalog,
                 HasDocker(f), SetMemory(f, Original(f)), "undoUp")

UndoDown(f) ==
  /\ At(f, "resize", "undoUp")
  /\ UndoOverSsh(f, HasConn(f) /\ WasRunning(f),
                 HasDocker(f), Up(f), "undone")

FinishRollback(f) ==
  /\ At(f, "resize", "undone")
  /\ Skip(f, IF Has(f, "undoFailed") THEN "rollbackFailed" ELSE "rolledBack")

RollbackSteps(f) ==
  \/ UndoType(f) \/ UndoVm(f) \/ UndoMemory(f) \/ UndoDown(f)
  \/ FinishRollback(f)

DeployServiceSteps(f) ==
  DeploySteps(f) \/ StartStopSteps(f) \/ ResizeSteps(f) \/ RollbackSteps(f)
=============================================================================
