------------------------ MODULE ServerLifecycleProofs ------------------------
(***************************************************************************)
(* Proofs, for any number of servers, panels, machine types and failures,  *)
(* of the type invariant of ServerLifecycle and of the properties that do  *)
(* not depend on one operation running at a time.                          *)
(***************************************************************************)
EXTENDS ServerLifecycle, TLAPS

-----------------------------------------------------------------------------
(* Types of the records the actions are built from.                        *)

\* The arbitrary server, name and machine type of an idle panel exist.
LEMMA IdleFlowType == NoRow \in Row /\ IdleFlow \in Flow
<1>1. /\ (CHOOSE n \in Names : TRUE) \in Names
      /\ AnyType \in MachineTypes
      /\ (CHOOSE s \in Servers : TRUE) \in Servers
  BY PlatformAssumption DEF AnyType
<1>2. NoRow \in Row
  BY <1>1 DEF NoRow, Row, ErrorKinds
<1>3. 0 \in 0..MaxPolls
  BY PlatformAssumption
<1> QED
  BY <1>1, <1>2, <1>3 DEF IdleFlow, Flow, Labels, OpNames, Tarballs

\* What a flow becomes when it moves on is a flow.
LEMMA NextFlowType ==
  ASSUME TypeOK, NEW f \in Flows, NEW label \in Labels
  PROVE  /\ To(f, label) \in Flow
         /\ \A mark \in Marks : Marked(f, label, mark) \in Flow
         /\ \A error \in ErrorKinds : Thrown(f, label, error) \in Flow
<1>1. flow[f] \in Flow
  BY DEF TypeOK
<1>2. 0 \in 0..MaxPolls
  BY PlatformAssumption
<1> QED
  BY <1>1, <1>2 DEF Flow, To, Marked, Thrown

LEMMA LostType == ASSUME NEW next \in Flow PROVE Lost(next) \in Flow
BY ZenonT(30) DEF Lost, Flow, Marks

\* A flow that becomes a flow leaves the others alone.
LEMMA BecomeType ==
  ASSUME TypeOK, NEW f \in Flows, NEW next \in Flow, Become(f, next)
  PROVE  /\ flow' \in [Flows -> Flow]
         /\ flow'[f] = next
         /\ \A g \in Flows \ {f} : flow'[g] = flow[g]
BY DEF TypeOK, Become

-----------------------------------------------------------------------------
(* The shared kinds of steps keep the types.                               *)

\* All that a call may do, over ssh or not, whether or not it can succeed.
RemoteStep(f, effect, done, thrown) ==
  /\ \/ UNCHANGED host
     \/ \E h \in {effect, OverSsh(f, effect), OverSsh(f, host[Srv(f)])} :
          host' = [host EXCEPT ![Srv(f)] = h]
  /\ Become(f, done) \/ Become(f, thrown)
  /\ UNCHANGED faults \/ Fault
  /\ rcon' = ConnectionAfter(host')
  /\ UNCHANGED <<servers, tasks, backups, dialing>>

LEMMA FaultType == TypeOK /\ Fault => faults' \in 0..MaxFaults
BY PlatformAssumption DEF TypeOK, Fault

\* A client in the pool is no more than a client in the pool.
LEMMA ClientType ==
  ASSUME NEW f, NEW h \in Host
  PROVE  OverSsh(f, h) \in Host /\ HangUp(h) \in Host
BY DEF OverSsh, HangUp, Host

LEMMA RemoteType ==
  ASSUME TypeOK, NEW f \in Flows, NEW effect \in Host,
         NEW done \in Flow, NEW thrown \in Flow,
         RemoteStep(f, effect, done, thrown)
  PROVE  TypeOK'
<1>1. host' \in [Servers -> Host]
  <2>1. host[Srv(f)] \in Host
    BY DEF TypeOK, Flow, Srv
  <2>2. OverSsh(f, effect) \in Host /\ OverSsh(f, host[Srv(f)]) \in Host
    BY <2>1, ClientType
  <2>3. host \in [Servers -> Host]
    BY DEF TypeOK
  <2> QED
    BY <2>2, <2>3 DEF RemoteStep
<1>2. rcon' \in Servers \union {Nobody}
  BY DEF TypeOK, RemoteStep, ConnectionAfter
<1>3. flow' \in [Flows -> Flow]
  BY BecomeType DEF RemoteStep
<1>4. faults' \in 0..MaxFaults
  BY FaultType DEF TypeOK, RemoteStep
<1> QED
  BY <1>1, <1>2, <1>3, <1>4 DEF TypeOK, RemoteStep

LEMMA UpdateStatusType ==
  ASSUME TypeOK, NEW f \in Flows, NEW status \in ServerStatus, NEW row \in Row,
         NEW ok \in Labels, NEW failed \in Labels,
         UpdateStatus(f, status, row, ok, failed)
  PROVE  TypeOK'
<1>1. [flow[f] EXCEPT !.checked = TRUE] \in Flow
  BY ZenonT(30) DEF TypeOK, Flow
<1>2. [row EXCEPT !.status = status] \in Row
  BY DEF Row
<1>3. servers' \in [Servers -> Row]
  BY <1>2 DEF UpdateStatus, WriteRefused, TypeOK
<1>4. To(f, ok) \in Flow /\ Thrown(f, failed, "other") \in Flow
  BY NextFlowType DEF ErrorKinds
<1>5. flow' \in [Flows -> Flow]
  BY <1>1, <1>4 DEF UpdateStatus, WriteRefused, Goto, Throw, Become, TypeOK
<1>6. faults' \in 0..MaxFaults
  BY FaultType DEF UpdateStatus, WriteRefused, Contended, TypeOK
<1>7. UNCHANGED <<tasks, host, backups, rcon, dialing>>
  BY DEF UpdateStatus, WriteRefused
<1> QED
  BY <1>3, <1>5, <1>6, <1>7 DEF TypeOK

LEMMA UpdateRowType ==
  ASSUME TypeOK, NEW f \in Flows, NEW row \in Row,
         NEW ok \in Labels, NEW failed \in Labels,
         UpdateRow(f, row, ok, failed)
  PROVE  TypeOK'
<1>1. servers' \in [Servers -> Row]
  BY DEF UpdateRow, WriteRefused, TypeOK
<1>2. To(f, ok) \in Flow /\ Thrown(f, failed, "other") \in Flow
  BY NextFlowType DEF ErrorKinds
<1>3. flow' \in [Flows -> Flow]
  BY <1>2, BecomeType DEF UpdateRow, WriteRefused, Goto, Throw
<1>4. faults' \in 0..MaxFaults
  BY FaultType DEF UpdateRow, WriteRefused, Contended, TypeOK
<1>5. UNCHANGED <<tasks, host, backups, rcon, dialing>>
  BY DEF UpdateRow, WriteRefused
<1> QED
  BY <1>1, <1>3, <1>4, <1>5 DEF TypeOK

LEMMA SkipType ==
  ASSUME TypeOK, NEW f \in Flows, NEW label \in Labels, Skip(f, label)
  PROVE  TypeOK'
<1>1. flow' \in [Flows -> Flow]
  BY NextFlowType, BecomeType DEF Skip, Goto
<1> QED
  BY <1>1 DEF TypeOK, Skip

LEMMA RconType ==
  ASSUME TypeOK, NEW f \in Flows, NEW quits \in BOOLEAN,
         NEW ok \in Labels, NEW failed \in Labels,
         RconCall(f, quits, ok, failed)
  PROVE  TypeOK'
<1>1. host' \in [Servers -> Host]
  <2>1. rcon # Nobody =>
          [host EXCEPT ![rcon].container = "exited"] \in [Servers -> Host]
    BY DEF TypeOK, Host
  <2> QED
    BY <2>1 DEF RconCall, TypeOK
<1>2. rcon' \in Servers \union {Nobody}
  <2>1. rcon' \in {Nobody, rcon}
    BY DEF RconCall
  <2> QED
    BY <2>1 DEF TypeOK
<1>3. /\ To(f, ok) \in Flow /\ To(f, "hung") \in Flow
      /\ Thrown(f, failed, "other") \in Flow
  BY NextFlowType DEF ErrorKinds, Labels
<1>4. flow' \in [Flows -> Flow]
  BY <1>3, BecomeType DEF RconCall, Goto, Throw
<1>5. faults' \in 0..MaxFaults
  BY FaultType DEF RconCall, TypeOK
<1> QED
  BY <1>1, <1>2, <1>4, <1>5 DEF TypeOK, RconCall

LEMMA PollType ==
  ASSUME TypeOK, NEW f \in Flows, NEW ready \in BOOLEAN, NEW next \in Labels,
         NEW timeout \in ErrorKinds, Poll(f, ready, next, timeout),
         host' \in [Servers -> Host]
  PROVE  TypeOK'
<1>1. To(f, next) \in Flow /\ Thrown(f, "deployFailed", timeout) \in Flow
  BY NextFlowType DEF Labels
<1>2. flow[f].polls < MaxPolls =>
        [flow EXCEPT ![f].polls = @ + 1] \in [Flows -> Flow]
  BY PlatformAssumption DEF TypeOK, Flow
<1>3. flow' \in [Flows -> Flow]
  BY <1>1, <1>2, BecomeType DEF Poll, Goto, Throw
<1>4. faults' \in 0..MaxFaults
  BY FaultType DEF Poll, TypeOK
<1> QED
  BY <1>3, <1>4 DEF TypeOK, Poll

-----------------------------------------------------------------------------
(* Every step of every service keeps the types.                            *)

LEMMA EffectType ==
  ASSUME TypeOK, NEW f \in Flows
  PROVE  /\ flow[f] \in Flow /\ Srv(f) \in Servers
         /\ host[Srv(f)] \in Host /\ servers[Srv(f)] \in Row
         /\ Up(f) \in Host /\ Down(f) \in Host /\ Halt(f) \in Host
         /\ VmStopped(f) \in Host /\ VmStarted(f) \in Host
         /\ Destroyed(f) \in Host /\ Bootstrapped(host[Srv(f)]) \in Host
         /\ \A type \in MachineTypes :
              VmResized(f, type) \in Host /\ SetMemory(f, type) \in Host
<1>1. flow[f] \in Flow /\ Srv(f) \in Servers
  BY DEF TypeOK, Flow, Srv
<1>2. host[Srv(f)] \in Host /\ servers[Srv(f)] \in Row
  BY <1>1 DEF TypeOK
<1>3. HangUp(host[Srv(f)]) \in Host
  BY <1>2, ClientType
<1>4. NoHost \in Host
  BY PlatformAssumption DEF NoHost, Host, AnyType
<1>5. Destroyed(f) \in Host
  BY <1>3, <1>4 DEF Host, Destroyed
<1>6. /\ VmStopped(f) \in Host /\ VmStarted(f) \in Host
      /\ Bootstrapped(host[Srv(f)]) \in Host
  BY ZenonT(30), <1>2, <1>3 DEF Host, VmStopped, VmStarted, Bootstrapped
<1>7. /\ Up(f) \in Host /\ Down(f) \in Host /\ Halt(f) \in Host
      /\ \A type \in MachineTypes :
           VmResized(f, type) \in Host /\ SetMemory(f, type) \in Host
  BY <1>2 DEF Host, Up, Down, Halt, VmResized, SetMemory
<1> QED
  BY <1>1, <1>2, <1>5, <1>6, <1>7

LEMMA ProvisionType ==
  ASSUME TypeOK, NEW f \in Flows, Provision(f)
  PROVE  TypeOK'
<1>1. flow[f] \in Flow
  BY DEF TypeOK
<1>2. [vm |-> "staging", type |-> flow[f].newType,
       memory |-> flow[f].newType, script |-> flow[f].newType,
       due |-> TRUE, container |-> "pending", ssh |-> "none"] \in Host
  BY <1>1 DEF Host, Flow
<1>3. host' \in [Servers -> Host]
  BY <1>2 DEF Provision, TypeOK
<1>4. /\ [flow[f] EXCEPT !.at = "saveIp", !.ip = "ip"] \in Flow
      /\ [flow[f] EXCEPT !.at = "saveIp", !.ip = "zero"] \in Flow
  BY ZenonT(30), <1>1 DEF Flow, Labels
<1>5. Thrown(f, "deployFailed", "provision") \in Flow
  BY NextFlowType DEF Labels, ErrorKinds
<1>6. flow' \in [Flows -> Flow]
  BY <1>4, <1>5 DEF Provision, GotoSaveIp, Throw, Become, TypeOK
<1>7. faults' \in 0..MaxFaults
  BY FaultType DEF Provision, TypeOK
<1> QED
  BY <1>3, <1>6, <1>7 DEF Provision, TypeOK

LEMMA DeployType ==
  ASSUME TypeOK, NEW f \in Flows, DeploySteps(f)
  PROVE  TypeOK'
<1> USE EffectType, NextFlowType DEF Labels, ErrorKinds
<1>1. CASE EnsureStateBucket(f)
  <2>1. RemoteStep(f, host[Srv(f)],
                   To(f, "provision"), Thrown(f, "deployFailed", "other"))
    BY <1>1 DEF EnsureStateBucket, RemoteCall, RemoteStep
  <2> QED
    BY <2>1, RemoteType
<1>2. CASE Provision(f)
  BY <1>2, ProvisionType
<1>3. CASE SaveStaticIp(f)
  <2>1. [servers[Srv(f)] EXCEPT !.staticIp = flow[f].ip] \in Row
    BY DEF Row, Flow
  <2> QED
    BY <1>3, <2>1, UpdateRowType DEF SaveStaticIp, Terminal
<1>4. CASE WaitForVmBoot(f)
  <2>1. host' \in [Servers -> Host]
    BY <1>4 DEF WaitForVmBoot, TypeOK
  <2> QED
    BY <1>4, <2>1, PollType, PlatformAssumption DEF WaitForVmBoot
<1>5. CASE WaitForCloudInit(f)
  <2>1. [host[Srv(f)] EXCEPT !.ssh = "live"] \in Host
    BY DEF Host
  <2>2. host' \in [Servers -> Host]
    BY <1>5, <2>1 DEF WaitForCloudInit, TypeOK
  <2> QED
    BY <1>5, <2>2, PollType DEF WaitForCloudInit
<1>6. CASE DeployMarkRunning(f)
  <2>1. UpdateStatus(f, "running", servers[Srv(f)], "ok", "deployFailed")
    BY <1>6 DEF DeployMarkRunning
  <2> QED
    BY <2>1, UpdateStatusType DEF ServerStatus, Terminal
<1>7. CASE DeployMarkFailed(f)
  <2>1. [servers[Srv(f)] EXCEPT !.errorMessage = flow[f].error] \in Row
    BY DEF Row, Flow
  <2> QED
    BY <1>7, <2>1, UpdateStatusType DEF DeployMarkFailed, ServerStatus, Terminal
<1> QED
  BY <1>1, <1>2, <1>3, <1>4, <1>5, <1>6, <1>7 DEF DeploySteps

LEMMA StartStopType ==
  ASSUME TypeOK, NEW f \in Flows, StartStopSteps(f)
  PROVE  TypeOK'
<1> USE EffectType, NextFlowType DEF Labels, ErrorKinds
<1>1. CASE StartContainer(f)
  <2>1. RemoteStep(f, Up(f),
                   To(f, "markRunning"), Thrown(f, "error", "other"))
    BY <1>1 DEF StartContainer, Exec, SshCall, SilentLoss, RemoteStep
  <2> QED
    BY <2>1, RemoteType DEF Terminal
<1>2. CASE StartMarkRunning(f)
  <2>1. UpdateStatus(f, "running", servers[Srv(f)], "ok", "error")
    BY <1>2 DEF StartMarkRunning
  <2> QED
    BY <2>1, UpdateStatusType DEF ServerStatus, Terminal
<1>3. CASE StopContainer(f)
  <2>1. RemoteStep(f, Down(f),
                   To(f, "markStopped"), Thrown(f, "error", "other"))
    BY <1>3 DEF StopContainer, Exec, SshCall, SilentLoss, RemoteStep
  <2> QED
    BY <2>1, RemoteType DEF Terminal
<1>4. CASE StopMarkStopped(f)
  <2>1. UpdateStatus(f, "stopped", servers[Srv(f)], "ok", "error")
    BY <1>4 DEF StopMarkStopped
  <2> QED
    BY <2>1, UpdateStatusType DEF ServerStatus, Terminal
<1> QED
  BY <1>1, <1>2, <1>3, <1>4 DEF StartStopSteps

LEMMA BackupServiceType ==
  ASSUME TypeOK, NEW f \in Flows, BackupServiceSteps(f)
  PROVE  TypeOK'
<1> USE EffectType, NextFlowType DEF Labels, ErrorKinds
<1>1. CASE BackupTar(f)
  <2>1. To(f, "download") \in Flow
    OBVIOUS
  <2>2. Tarred(f, "complete") \in Flow /\ Tarred(f, "truncated") \in Flow
    BY <2>1 DEF Tarred, Flow, Tarballs
  <2>3. \/ RemoteStep(f, host[Srv(f)], Tarred(f, "complete"),
                      Thrown(f, "error", "other"))
        \/ RemoteStep(f, host[Srv(f)], Tarred(f, "truncated"),
                      Thrown(f, "error", "other"))
    BY <1>1 DEF BackupTar, SshCall, SilentLoss, RemoteStep
  <2> QED
    BY <2>2, <2>3, RemoteType DEF Terminal
<1>2. CASE BackupDownload(f)
  <2>1. backups' \in [Servers -> SUBSET Tarballs]
    <3>1. flow[f].file \in Tarballs
      BY DEF TypeOK, Flow
    <3> QED
      BY <1>2, <3>1 DEF BackupDownload, TypeOK, Tarballs
  <2>2. To(f, "rm") \in Flow /\ Thrown(f, "error", "other") \in Flow
    BY DEF Terminal
  <2>3. flow' \in [Flows -> Flow]
    BY <1>2, <2>2, BecomeType DEF BackupDownload, Goto, Throw
  <2>4. faults' \in 0..MaxFaults
    BY <1>2, FaultType DEF BackupDownload, TypeOK
  <2>5. host' \in [Servers -> Host]
    <3>1. OverSsh(f, host[Srv(f)]) \in Host
      BY ClientType
    <3> QED
      BY <1>2, <3>1 DEF BackupDownload, TypeOK
  <2> QED
    BY <1>2, <2>1, <2>3, <2>4, <2>5 DEF BackupDownload, TypeOK
<1>3. CASE BackupCleanup(f)
  <2>1. AfterBackup(f) \in Labels
    BY DEF AfterBackup, Terminal
  <2>2. RemoteStep(f, host[Srv(f)], To(f, AfterBackup(f)),
                   Thrown(f, "error", "other"))
    BY <1>3 DEF BackupCleanup, Exec, SshCall, SilentLoss, RemoteStep
  <2> QED
    BY <2>1, <2>2, RemoteType DEF Terminal
<1>4. CASE RestoreStop(f)
  <2>1. RemoteStep(f, Halt(f),
                   To(f, "upload"), Thrown(f, "error", "other"))
    BY <1>4 DEF RestoreStop, Exec, SshCall, SilentLoss, RemoteStep
  <2> QED
    BY <2>1, RemoteType DEF Terminal
<1>5. CASE RestoreUpload(f)
  <2>1. RemoteStep(f, host[Srv(f)],
                   To(f, "untar"), Thrown(f, "error", "other"))
    BY <1>5 DEF RestoreUpload, SshCall, RemoteStep
  <2> QED
    BY <2>1, RemoteType DEF Terminal
<1>6. CASE RestoreUntar(f)
  <2>1. RemoteStep(f, host[Srv(f)],
                   To(f, "up"), Thrown(f, "error", "other"))
    BY <1>6 DEF RestoreUntar, Exec, SshCall, SilentLoss, RemoteStep
  <2> QED
    BY <2>1, RemoteType DEF Terminal
<1>7. CASE RestoreUp(f)
  <2>1. RemoteStep(f, Up(f),
                   To(f, "ok"), Thrown(f, "error", "other"))
    BY <1>7 DEF RestoreUp, Exec, SshCall, SilentLoss, RemoteStep
  <2> QED
    BY <2>1, RemoteType DEF Terminal
<1> QED
  BY <1>1, <1>2, <1>3, <1>4, <1>5, <1>6, <1>7 DEF BackupServiceSteps, BackupSteps, RestoreSteps

LEMMA UpdateFlowType ==
  ASSUME TypeOK, NEW f \in Flows, UpdateFlowSteps(f)
  PROVE  TypeOK'
<1> USE EffectType, NextFlowType DEF Labels, ErrorKinds
<1>1. CASE UpdateBroadcast(f)
  <2>1. RconCall(f, FALSE, "save", "error")
    BY <1>1 DEF UpdateBroadcast
  <2> QED
    BY <2>1, RconType DEF Terminal
<1>2. CASE UpdateSave(f)
  <2>1. RconCall(f, FALSE, "quit", "error")
    BY <1>2 DEF UpdateSave
  <2> QED
    BY <2>1, RconType DEF Terminal
<1>3. CASE UpdateQuit(f)
  <2>1. RconCall(f, TRUE, "pull", "error")
    BY <1>3 DEF UpdateQuit
  <2> QED
    BY <2>1, RconType DEF Terminal
<1>4. CASE UpdatePull(f)
  <2>1. RemoteStep(f, host[Srv(f)],
                   To(f, "up"), Thrown(f, "undoUp", "other"))
    BY <1>4 DEF UpdatePull, Exec, SshCall, SilentLoss, RemoteStep
  <2> QED
    BY <2>1, RemoteType DEF Terminal
<1>5. CASE UpdateUp(f)
  <2>1. RemoteStep(f, Up(f),
                   To(f, "ps"), Thrown(f, "error", "other"))
    BY <1>5 DEF UpdateUp, Exec, SshCall, SilentLoss, RemoteStep
  <2> QED
    BY <2>1, RemoteType DEF Terminal
<1>6. CASE UpdateHealthCheck(f)
  <2>1. RemoteStep(f, host[Srv(f)],
                   To(f, "markRunning"), Thrown(f, "error", "other"))
    BY <1>6 DEF UpdateHealthCheck, Exec, SshCall,
                SilentLoss, RemoteStep
  <2> QED
    BY <2>1, RemoteType DEF Terminal
<1>7. CASE UpdateMarkRunning(f)
  <2>1. UpdateStatus(f, "running", servers[Srv(f)], "ok", "error")
    BY <1>7 DEF UpdateMarkRunning
  <2> QED
    BY <2>1, UpdateStatusType DEF ServerStatus, Terminal
<1>8. CASE UpdateUndoUp(f)
  <2>1. RemoteStep(f, Up(f),
                   To(f, "undoMarkRunning"), Thrown(f, "updateFailed", "other"))
    BY <1>8 DEF UpdateUndoUp, Exec, SshCall, SilentLoss, RemoteStep
  <2> QED
    BY <2>1, RemoteType DEF Terminal
<1>9. CASE UpdateUndoMarkRunning(f)
  <2>1. UpdateStatus(f, "running", servers[Srv(f)], "error", "updateFailed")
    BY <1>9 DEF UpdateUndoMarkRunning
  <2> QED
    BY <2>1, UpdateStatusType DEF ServerStatus, Terminal
<1>10. CASE UpdateMarkFailed(f)
  <2>1. [servers[Srv(f)] EXCEPT !.errorMessage = "other"] \in Row
    BY DEF Row, Flow
  <2> QED
    BY <1>10, <2>1, UpdateStatusType DEF UpdateMarkFailed, ServerStatus, Terminal
<1>11. CASE RestartSave(f)
  <2>1. RconCall(f, FALSE, "quit", "error")
    BY <1>11 DEF RestartSave
  <2> QED
    BY <2>1, RconType DEF Terminal
<1>12. CASE RestartQuit(f)
  <2>1. RconCall(f, TRUE, "up", "error")
    BY <1>12 DEF RestartQuit
  <2> QED
    BY <2>1, RconType DEF Terminal
<1>13. CASE RestartUp(f)
  <2>1. RemoteStep(f, Up(f),
                   To(f, "markRunning"), Thrown(f, "error", "other"))
    BY <1>13 DEF RestartUp, Exec, SshCall, SilentLoss, RemoteStep
  <2> QED
    BY <2>1, RemoteType DEF Terminal
<1>14. CASE RestartMarkRunning(f)
  <2>1. UpdateStatus(f, "running", servers[Srv(f)], "ok", "error")
    BY <1>14 DEF RestartMarkRunning
  <2> QED
    BY <2>1, UpdateStatusType DEF ServerStatus, Terminal
<1> QED
  BY <1>1, <1>2, <1>3, <1>4, <1>5, <1>6, <1>7, <1>8, <1>9, <1>10, <1>11,
     <1>12, <1>13, <1>14 DEF UpdateFlowSteps, UpdateSteps, QuickRestartSteps

LEMMA ArchiveListTasksType ==
  ASSUME TypeOK, NEW f \in Flows, ArchiveListTasks(f)
  PROVE  TypeOK'
<1>1. flow[f] \in Flow /\ tasks[Srv(f)] \in SUBSET Tasks
  BY EffectType DEF TypeOK
<1>2. [flow[f] EXCEPT !.at = "disableTasks", !.listed = tasks[Srv(f)]] \in Flow
  BY <1>1 DEF Flow, Labels
<1> QED
  BY <1>2 DEF ArchiveListTasks, TypeOK

LEMMA ArchiveType ==
  ASSUME TypeOK, NEW f \in Flows, ArchiveSteps(f)
  PROVE  TypeOK'
<1> USE EffectType, NextFlowType DEF Labels, ErrorKinds
<1>1. CASE ArchiveDestroy(f)
  <2>1. PICK thrown \in {Thrown(f, "error", "other"), To(f, "destroyFailed")} :
          RemoteStep(f, Destroyed(f), To(f, "markArchived"), thrown)
    BY <1>1 DEF ArchiveDestroy, RemoteCall, RemoteStep
  <2> QED
    BY <2>1, RemoteType DEF Terminal
<1>2. CASE ArchiveMarkFailed(f)
  <2>1. [servers[Srv(f)] EXCEPT !.errorMessage = "other"] \in Row
    BY DEF Row, Flow
  <2> QED
    BY <1>2, <2>1, UpdateStatusType DEF ArchiveMarkFailed, ServerStatus, Terminal
<1>3. CASE ArchiveMarkArchived(f)
  <2>1. [servers[Srv(f)] EXCEPT !.backupPath = "path"] \in Row
    BY DEF Row, Flow
  <2> QED
    BY <1>3, <2>1, UpdateStatusType DEF ArchiveMarkArchived, ServerStatus, Terminal
<1>4. CASE ArchiveListTasks(f)
  BY <1>4, ArchiveListTasksType
<1>5. CASE ArchiveDisableTasks(f)
  <2>1. tasks' \in [Servers -> SUBSET Tasks]
    BY <1>5 DEF ArchiveDisableTasks, TypeOK
  <2>2. flow' \in [Flows -> Flow]
    BY <1>5, BecomeType DEF ArchiveDisableTasks, Goto, Throw, Terminal
  <2>3. faults' \in 0..MaxFaults
    BY <1>5, FaultType DEF ArchiveDisableTasks, Contended, TypeOK
  <2> QED
    BY <1>5, <2>1, <2>2, <2>3 DEF ArchiveDisableTasks, TypeOK
<1> QED
  BY <1>1, <1>2, <1>3, <1>4, <1>5 DEF ArchiveSteps

LEMMA ResizeType ==
  ASSUME TypeOK, NEW f \in Flows, ResizeSteps(f)
  PROVE  TypeOK'
<1> USE EffectType, NextFlowType DEF Labels, ErrorKinds
<1>1. CASE ResizeDown(f)
  <2>1. \/ RemoteStep(f, Down(f), To(f, "stopVm"), Thrown(f, "undoType", "other"))
        \/ Skip(f, "stopVm")
    BY <1>1 DEF ResizeDown, Exec, SshCall, SilentLoss, RemoteStep
  <2> QED
    BY <2>1, RemoteType, SkipType DEF Marks
<1>2. CASE ResizeStopVm(f)
  <2>1. RemoteStep(f, VmStopped(f),
                   Marked(f, "changeType", "vmStopped"), Thrown(f, "undoType", "other"))
    BY <1>2 DEF ResizeStopVm, RemoteCall, RemoteStep
  <2> QED
    BY <2>1, RemoteType DEF Marks
<1>3. CASE ResizeChangeType(f)
  <2>1. VmResized(f, flow[f].newType) \in Host
    BY DEF Flow
  <2>2. RemoteStep(f, VmResized(f, flow[f].newType),
                   Marked(f, "startVm", "machineChanged"), Thrown(f, "undoType", "other"))
    BY <1>3 DEF ResizeChangeType, RemoteCall, RemoteStep
  <2> QED
    BY <2>1, <2>2, RemoteType DEF Marks
<1>4. CASE ResizeStartVm(f)
  <2>1. \E next \in {"memory", "persist"} :
          RemoteStep(f, VmStarted(f), Marked(f, next, "vmStarted"),
                     Thrown(f, "undoType", "other"))
    BY <1>4 DEF ResizeStartVm, RemoteCall, RemoteStep
  <2> QED
    BY <2>1, RemoteType DEF Marks
<1>5. CASE ResizeMemory(f)
  <2>1. SetMemory(f, flow[f].newType) \in Host
    BY DEF Flow
  <2> DEFINE done   == Marked(f, "up", "composeUpdated")
             thrown == Thrown(f, "undoType", "other")
  <2>2. done \in Flow /\ Lost(done) \in Flow /\ thrown \in Flow
    BY LostType DEF Marks
  <2>3. \E next \in {done, Lost(done)} :
          RemoteStep(f, SetMemory(f, flow[f].newType), next, thrown)
    BY <1>5 DEF ResizeMemory, SshCall, SilentLoss, RemoteStep
  <2> HIDE DEF done, thrown
  <2> QED
    BY <2>1, <2>2, <2>3, RemoteType
<1>6. CASE ResizeUp(f)
  <2> DEFINE done   == To(f, "persist")
             thrown == Thrown(f, "undoType", "other")
  <2>1. done \in Flow /\ Lost(done) \in Flow /\ thrown \in Flow
    BY LostType
  <2>2. \E next \in {done, Lost(done)} : RemoteStep(f, Up(f), next, thrown)
    BY <1>6 DEF ResizeUp, SshCall, SilentLoss, RemoteStep
  <2> HIDE DEF done, thrown
  <2> QED
    BY <2>1, <2>2, RemoteType
<1>7. CASE ResizePersist(f)
  <2>1. [servers[Srv(f)] EXCEPT !.instanceType = flow[f].newType] \in Row
    BY DEF Row, Flow
  <2> QED
    BY <1>7, <2>1, UpdateStatusType DEF ResizePersist, ServerStatus, Terminal
<1> QED
  BY <1>1, <1>2, <1>3, <1>4, <1>5, <1>6, <1>7 DEF ResizeSteps

LEMMA RollbackType ==
  ASSUME TypeOK, NEW f \in Flows, RollbackSteps(f)
  PROVE  TypeOK'
<1> USE EffectType, NextFlowType DEF Labels, ErrorKinds
<1>1. CASE UndoType(f)
  <2>0. VmResized(f, Original(f)) \in Host
    BY DEF Original, Flow, Row
  <2>1. \/ RemoteStep(f, VmResized(f, Original(f)), To(f, "undoVm"),
                      Marked(f, "undoVm", "undoFailed"))
        \/ Skip(f, "undoVm")
    BY <1>1 DEF UndoType, Undo, RemoteCall, RemoteStep
  <2> QED
    BY <2>0, <2>1, RemoteType, SkipType DEF Marks
<1>2. CASE UndoVm(f)
  <2>1. \/ RemoteStep(f, VmStarted(f), To(f, "undoMemory"),
                      Marked(f, "undoMemory", "undoFailed"))
        \/ Skip(f, "undoMemory")
    BY <1>2 DEF UndoVm, Undo, RemoteCall, RemoteStep
  <2> QED
    BY <2>1, RemoteType, SkipType DEF Marks
<1>3. CASE UndoMemory(f)
  <2>0. SetMemory(f, Original(f)) \in Host
    BY DEF Original, Flow, Row
  <2>1. \/ RemoteStep(f, SetMemory(f, Original(f)), To(f, "undoUp"),
                      Marked(f, "undoUp", "undoFailed"))
        \/ Skip(f, "undoUp")
    BY <1>3 DEF UndoMemory, UndoOverSsh, SshCall, SilentLoss, RemoteStep
  <2> QED
    BY <2>0, <2>1, RemoteType, SkipType DEF Marks
<1>4. CASE UndoDown(f)
  <2>1. \/ RemoteStep(f, Up(f), To(f, "undone"),
                      Marked(f, "undone", "undoFailed"))
        \/ Skip(f, "undone")
    BY <1>4 DEF UndoDown, UndoOverSsh, SshCall, SilentLoss, RemoteStep
  <2> QED
    BY <2>1, RemoteType, SkipType DEF Marks
<1>5. CASE FinishRollback(f)
  <2>1. Skip(f, "rollbackFailed") \/ Skip(f, "rolledBack")
    BY <1>5 DEF FinishRollback
  <2> QED
    BY <2>1, SkipType DEF Terminal
<1> QED
  BY <1>1, <1>2, <1>3, <1>4, <1>5 DEF RollbackSteps

LEMMA RecoveryType ==
  ASSUME TypeOK, NEW f \in Flows, RecoverySteps(f)
  PROVE  TypeOK'
<1> USE EffectType, NextFlowType DEF Labels, ErrorKinds
<1>1. CASE RecoveryDestroy(f)
  <2>1. PICK thrown \in {Thrown(f, "error", "other"), To(f, "markFailed")} :
          RemoteStep(f, Destroyed(f), To(f, "markFailed"), thrown)
    BY <1>1 DEF RecoveryDestroy, RemoteCall, RemoteStep
  <2> QED
    BY <2>1, RemoteType DEF Terminal
<1>2. CASE RecoveryStopVm(f)
  <2>1. RemoteStep(f, VmStopped(f),
                   To(f, "startVm"), Thrown(f, "error", "other"))
    BY <1>2 DEF RecoveryStopVm, CloudCall, RemoteCall, RemoteStep
  <2> QED
    BY <2>1, RemoteType DEF Terminal
<1>3. CASE RecoveryStartVm(f)
  <2>1. RemoteStep(f, VmStarted(f),
                   To(f, "markFailed"), Thrown(f, "error", "other"))
    BY <1>3 DEF RecoveryStartVm, CloudCall, RemoteCall, RemoteStep
  <2> QED
    BY <2>1, RemoteType DEF Terminal
<1>4. CASE RecoveryMarkFailed(f)
  <2>1. PICK row \in {[servers[Srv(f)] EXCEPT !.errorMessage = "panel"],
                     servers[Srv(f)]} :
          UpdateStatus(f, "failed", row, "ok", "error")
    BY <1>4 DEF RecoveryMarkFailed
  <2>2. row \in Row
    BY DEF Row
  <2> QED
    BY <2>1, <2>2, UpdateStatusType DEF ServerStatus, Terminal
<1>5. CASE RecoveryReconfigure(f)
  <2>1. [servers[Srv(f)] EXCEPT !.errorMessage = "panel"] \in Row
    BY DEF Row
  <2> QED
    BY <1>5, <2>1, UpdateRowType DEF RecoveryReconfigure, Terminal
<1>6. CASE RecoveryBootstrap(f)
  <2>1. PICK there \in BOOLEAN :
          Exec(f, there /\ Reachable(f), Bootstrapped(host[Srv(f)]),
               "ok", "error")
    BY <1>6 DEF RecoveryBootstrap
  <2>2. RemoteStep(f, Bootstrapped(host[Srv(f)]),
                   To(f, "ok"), Thrown(f, "error", "other"))
    BY <2>1 DEF Exec, SshCall, SilentLoss, RemoteStep
  <2> QED
    BY <2>2, RemoteType, EffectType DEF Terminal
<1>7. CASE RecoveryRestart(f)
  <2>1. RemoteStep(f, Up(f),
                   To(f, "ok"), Thrown(f, "error", "other"))
    BY <1>7 DEF RecoveryRestart, Exec, SshCall,
                SilentLoss, RemoteStep
  <2> QED
    BY <2>1, RemoteType DEF Terminal
<1> QED
  BY <1>1, <1>2, <1>3, <1>4, <1>5, <1>6, <1>7 DEF RecoverySteps

-----------------------------------------------------------------------------
(* Users, the cloud and a kill keep the types.                             *)

LEMMA BeginDeployType ==
  ASSUME TypeOK, NEW f \in Flows, NEW name \in Names, NEW type \in MachineTypes,
         BeginDeploy(f, name, type)
  PROVE  TypeOK'
<1>1. flow[f] \in Flow
  BY DEF TypeOK
<1>10. "error" \in Labels /\ "deploy" \in OpNames
  BY DEF Labels, Terminal, OpNames
<1>3. [flow[f] EXCEPT !.op = "deploy", !.at = "error"] \in Flow
  BY <1>1, <1>10 DEF Flow
<1>4. ASSUME NEW s \in Servers
      PROVE  [IdleFlow EXCEPT !.op = "deploy", !.at = "bucket", !.srv = s,
                              !.newType = type] \in Flow
  BY IdleFlowType DEF Flow, Labels, OpNames
<1>5. [NoRow EXCEPT !.name = name, !.status = "provisioning",
                    !.instanceType = type] \in Row
  BY IdleFlowType DEF Row, ServerStatus
<1>6. servers \in [Servers -> Row] /\ flow \in [Flows -> Flow]
  BY DEF TypeOK
<1>7. servers' \in [Servers -> Row]
  BY <1>5, <1>6 DEF BeginDeploy
<1>8. flow' \in [Flows -> Flow]
  BY <1>3, <1>4, <1>6 DEF BeginDeploy
<1>9. UNCHANGED <<tasks, host, backups, rcon, dialing>>
  BY DEF BeginDeploy
<1>11. faults' \in 0..MaxFaults
  BY FaultType DEF BeginDeploy, Contended, TypeOK
<1> QED
  BY <1>7, <1>8, <1>9, <1>11 DEF TypeOK

\* A new position of one flow, which changes nothing else.
LEMMA FlowOnlyType ==
  ASSUME TypeOK, NEW f \in Flows, NEW next \in Flow,
         flow' = [flow EXCEPT ![f] = next],
         UNCHANGED <<servers, tasks, host, backups, rcon, dialing, faults>>
  PROVE  TypeOK'
<1>1. flow' \in [Flows -> Flow]
  BY DEF TypeOK
<1> QED
  BY <1>1 DEF TypeOK

LEMMA PanelStepType ==
  ASSUME TypeOK, NEW f \in Flows,
         (\E s \in Servers : OpenPanel(f, s)) \/ ClosePanel(f) \/ Dismiss(f)
  PROVE  TypeOK'
<1>1. flow[f] \in Flow /\ IdleFlow \in Flow
  BY IdleFlowType DEF TypeOK
<1>2. ASSUME NEW s \in Servers, NEW row \in Row
      PROVE  [IdleFlow EXCEPT !.at = "panel", !.srv = s, !.shown = row] \in Flow
  BY <1>1 DEF Flow, Labels
<1>3. ASSUME NEW s \in Servers, OpenPanel(f, s)
      PROVE  TypeOK'
  <2>1. servers[s] \in Row
    BY DEF TypeOK
  <2>2. [IdleFlow EXCEPT !.at = "panel", !.srv = s, !.shown = servers[s]] \in Flow
    BY <1>2, <2>1
  <2> QED
    BY <1>3, <2>2, FlowOnlyType DEF OpenPanel
<1>4. CASE ClosePanel(f)
  BY <1>1, <1>4, FlowOnlyType DEF ClosePanel
<1>5. CASE Dismiss(f)
  <2>1. flow[f].srv \in Servers /\ flow[f].shown \in Row
    BY <1>1 DEF Flow
  <2>2. [IdleFlow EXCEPT !.at = "panel", !.srv = flow[f].srv,
                         !.shown = flow[f].shown] \in Flow
    BY <1>2, <2>1
  <2>3. CASE flow[f].shown.status = "absent"
    BY <1>1, <1>5, <2>3, FlowOnlyType DEF Dismiss
  <2>4. CASE flow[f].shown.status # "absent"
    BY <1>5, <2>2, <2>4, FlowOnlyType DEF Dismiss
  <2> QED
    BY <2>3, <2>4
<1> QED
  BY <1>3, <1>4, <1>5

LEMMA SelectType ==
  ASSUME TypeOK, NEW f \in Flows, NEW op \in Ops, Select(f, op)
  PROVE  TypeOK'
<1>1. flow[f] \in Flow /\ servers[Srv(f)] \in Row /\ backups[Srv(f)] \subseteq Tarballs
  BY EffectType DEF TypeOK
<1>2. PICK type \in IF op = "resize"
                    THEN Catalog \ {flow[f].shown.instanceType} ELSE {AnyType},
           file \in IF op = "restore" THEN backups[Srv(f)] ELSE {"complete"} :
        flow' = [flow EXCEPT ![f] =
                  [flow[f] EXCEPT !.op = op,
                             !.at = FirstAwait(op, servers[Srv(f)]),
                             !.server = servers[Srv(f)],
                             !.newType = type, !.file = file]]
  BY DEF Select
<1>3. type \in MachineTypes /\ file \in Tarballs
  BY <1>1, CatalogAssumption, IdleFlowType, PlatformAssumption
     DEF Tarballs, AnyType
<1>4. op \in {"backup", "restore", "stop", "update", "resize", "archive",
              "quickRestart", "start"}
  BY DEF Select, Offered
<1>5. op \in OpNames /\ FirstAwait(op, servers[Srv(f)]) \in Labels
  BY <1>4 DEF FirstAwait, OpNames, Labels, Terminal
<1>6. [flow[f] EXCEPT !.op = op, !.at = FirstAwait(op, servers[Srv(f)]),
                      !.server = servers[Srv(f)],
                      !.newType = type, !.file = file] \in Flow
  BY <1>1, <1>3, <1>5 DEF Flow
<1> QED
  BY <1>2, <1>6 DEF Select, TypeOK

LEMMA BeginRecoveryType ==
  ASSUME TypeOK, NEW f \in Flows, BeginRecovery(f)
  PROVE  TypeOK'
<1>1. flow[f] \in Flow /\ flow[f].shown \in Row
  BY DEF TypeOK, Flow
<1>2. PICK start \in RecoveryStart :
        flow' = [flow EXCEPT ![f] =
                  [flow[f] EXCEPT !.op = start[1], !.at = start[2],
                                  !.server = flow[f].shown]]
  BY DEF BeginRecovery
<1>3. start[1] \in OpNames /\ start[2] \in Labels
  BY DEF RecoveryStart, OpNames, Labels
<1>4. [flow[f] EXCEPT !.op = start[1], !.at = start[2],
                      !.server = flow[f].shown] \in Flow
  BY <1>1, <1>3 DEF Flow
<1> QED
  BY <1>2, <1>4 DEF BeginRecovery, TypeOK

LEMMA UserType ==
  ASSUME TypeOK, NEW f \in Flows, UserSteps(f)
  PROVE  TypeOK'
<1>1. CASE Deploy(f)
  BY <1>1, PlatformAssumption, BeginDeployType DEF Deploy
<1>2. CASE \/ \E s \in Servers : OpenPanel(f, s)
           \/ ClosePanel(f) \/ Dismiss(f)
  BY <1>2, PanelStepType
<1>3. CASE \E op \in Ops : Select(f, op)
  BY <1>3, SelectType
<1>4. CASE BeginRecovery(f)
  BY <1>4, BeginRecoveryType
<1>5. CASE RetryDeploy(f)
  <2>1. flow[f].shown.name \in Names /\ flow[f].shown.instanceType \in MachineTypes
    BY DEF TypeOK, Flow, Row
  <2> QED
    BY <1>5, <2>1, BeginDeployType DEF RetryDeploy
<1>6. CASE \E t \in Tasks : AddTask(f, t)
  BY <1>6, EffectType DEF AddTask, TypeOK
<1>7. CASE MountPlayers(f)
  BY <1>7, EffectType DEF MountPlayers, TypeOK
<1>8. CASE WatchStats(f)
  <2>1. [host[Srv(f)] EXCEPT !.ssh = "live"] \in Host
    BY EffectType DEF Host
  <2> QED
    BY <1>8, <2>1 DEF WatchStats, TypeOK
<1> QED
  BY <1>1, <1>2, <1>3, <1>4, <1>5, <1>6, <1>7, <1>8 DEF UserSteps

LEMMA CloudType ==
  ASSUME TypeOK, CloudSteps \/ UnmountPlayers \/ Exit
  PROVE  TypeOK'
<1>1. ASSUME NEW s \in Servers,
             VmBoots(s) \/ CloudInitRuns(s) \/ DockerRestarts(s)
      PROVE  TypeOK'
  <2>1. host[s] \in Host
    BY DEF TypeOK
  <2>2. /\ [host[s] EXCEPT !.vm = "running"] \in Host
        /\ [host[s] EXCEPT !.container = "up"] \in Host
        /\ Bootstrapped(host[s]) \in Host
    BY <2>1 DEF Host, Bootstrapped
  <2>3. host' \in [Servers -> Host]
    BY <1>1, <2>2 DEF VmBoots, CloudInitRuns, DockerRestarts, TypeOK
  <2> QED
    BY <1>1, <2>3 DEF VmBoots, CloudInitRuns, DockerRestarts, TypeOK
<1>2. ASSUME NEW s \in Servers, DialEnds(s)
      PROVE  TypeOK'
  BY <1>2 DEF DialEnds, TypeOK
<1>3. CASE UnmountPlayers
  BY <1>3 DEF UnmountPlayers, TypeOK
<1>4. CASE Exit
  <2>1. ASSUME NEW s \in Servers
        PROVE  [host[s] EXCEPT !.ssh = "none"] \in Host
    BY DEF TypeOK, Host
  <2>2. host' \in [Servers -> Host]
    BY <1>4, <2>1 DEF Exit
  <2> QED
    BY <1>4, <2>2, IdleFlowType DEF Exit, TypeOK
<1>5. ASSUME NEW s \in Servers, LineDrops(s)
      PROVE  TypeOK'
  <2>1. HangUp(host[s]) \in Host
    BY ClientType DEF TypeOK
  <2>2. host' \in [Servers -> Host]
    BY <1>5, <2>1 DEF LineDrops, TypeOK
  <2>3. faults' \in 0..MaxFaults
    BY <1>5, FaultType DEF LineDrops
  <2> QED
    BY <1>5, <2>2, <2>3 DEF LineDrops, TypeOK
<1> QED
  BY <1>1, <1>2, <1>3, <1>4, <1>5 DEF CloudSteps

-----------------------------------------------------------------------------
LEMMA InitType == PlatformInit => TypeOK
<1> SUFFICES ASSUME PlatformInit PROVE TypeOK
  OBVIOUS
<1>1. NoHost \in Host
  BY PlatformAssumption DEF NoHost, Host, AnyType
<1>2. 0 \in 0..MaxFaults
  BY PlatformAssumption
<1> QED
  BY <1>1, <1>2, IdleFlowType DEF PlatformInit, TypeOK

LEMMA NextType == TypeOK /\ [Next]_vars => TypeOK'
<1> SUFFICES ASSUME TypeOK, [Next]_vars PROVE TypeOK'
  OBVIOUS
<1>1. ASSUME NEW f \in Flows, ServiceSteps(f) PROVE TypeOK'
  BY <1>1, DeployType, StartStopType, ResizeType, RollbackType,
     BackupServiceType, UpdateFlowType, ArchiveType, RecoveryType
     DEF ServiceSteps, DeployServiceSteps
<1>2. ASSUME NEW f \in Flows, UserSteps(f) PROVE TypeOK'
  BY <1>2, UserType
<1>3. CASE CloudSteps \/ UnmountPlayers \/ Exit
  BY <1>3, CloudType
<1>4. CASE UNCHANGED vars
  BY <1>4 DEF vars, TypeOK
<1> QED
  BY <1>1, <1>2, <1>3, <1>4 DEF Next

\* Every variable of the lifecycle always has its type, whatever the panels
\* of any number of processes do and whichever calls fail.
THEOREM TypeCorrect == Spec => []TypeOK
BY InitType, NextType, PTL DEF Spec
=============================================================================
