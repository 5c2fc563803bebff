---------------------------- MODULE OnePanelProofs ----------------------------
(***************************************************************************)
(* Proofs of what holds of one panel that nobody interferes with, in a     *)
(* process that may be killed at any time: SoloInv is inductive next to    *)
(* Inv.  From the two follow the outcomes of changeInstanceType and        *)
(* archive, and that ServerLifecycle implements ServerContract, step by    *)
(* step.                                                                   *)
(***************************************************************************)
EXTENDS LifecycleSafetyProofs

-----------------------------------------------------------------------------
(* One panel that nobody interferes with: SoloInv is inductive next to Inv. *)

LEMMA SoloFacts ==
  ASSUME SoloInv, NEW f \in Flows
  PROVE  /\ ErrorOnlyAfterFailure /\ RowSteady(f) /\ OutcomeInv(f)
         /\ flow[f].op = "resize" => ResizeForward(f) /\ ResizeBack(f)
BY DEF SoloInv, SoloFlowInv

\* No write of a panel that is alone is refused.
LEMMA NobodyContends ==
  ASSUME OnePanel, NEW f \in Flows
  PROVE  ~Contended(f) /\ \A failed : ~WriteRefused(f, failed)
<1>1. ~Contended(f)
  BY DEF OnePanel, Contended
<1> QED
  BY <1>1 DEF WriteRefused

\* It is enough to look at the one panel there is.
LEMMA SoloAgain ==
  ASSUME OnePanel, NEW f \in Flows, ErrorOnlyAfterFailure',
         RowSteady(f)', OutcomeInv(f)',
         (flow[f].op = "resize")' => ResizeForward(f)' /\ ResizeBack(f)'
  PROVE  SoloInv'
<1>1. \A g \in Flows : g = f
  BY DEF OnePanel
<1>2. SoloFlowInv(f)'
  BY DEF SoloFlowInv
<1>3. \A g \in Flows : SoloFlowInv(g)'
  BY <1>1, <1>2
<1> QED
  BY <1>3 DEF SoloInv

\* Labels at which an operation has made sure of nothing that SoloInv knows.
Loose(op, label) ==
  /\ label \notin VmLabels \union {"panel", "idle"}
  /\ op = "archive" => label \notin {"listTasks", "disableTasks", "ok"}

\* A step that writes no row.
LEMMA SoloStep ==
  ASSUME OnePanel, Inv, SoloInv, TypeOK', NEW f \in Flows, NEW next,
         flow' = [flow EXCEPT ![f] = next], UNCHANGED servers,
         next.srv = flow[f].srv, next.shown = flow[f].shown, ~next.checked,
         \/ Loose(next.op, next.at)
         \/ next.at \in VmLabels /\ host'[Srv(f)].vm # "absent",
         next.op = "resize" => ResizeForward(f)' /\ ResizeBack(f)'
  PROVE  SoloInv'
<1>1. flow'[f] = next /\ Srv(f)' = Srv(f)
  BY DEF Inv, TypeOK, Srv
<1>2. ErrorOnlyAfterFailure'
  BY DEF SoloInv, ErrorOnlyAfterFailure
<1>3. RowSteady(f)'
  BY <1>1, SoloFacts DEF RowSteady
<1>4. OutcomeInv(f)'
  BY <1>1 DEF OutcomeInv, Loose, VmLabels
<1> QED
  BY <1>1, <1>2, <1>3, <1>4, SoloAgain

LEMMA GotoSolo ==
  ASSUME OnePanel, Inv, SoloInv, TypeOK', NEW f \in Flows, NEW label,
         Goto(f, label), UNCHANGED servers, flow[f].op # "resize",
         \/ Loose(flow[f].op, label)
         \/ label \in VmLabels /\ host'[Srv(f)].vm # "absent"
  PROVE  SoloInv'
<1> DEFINE next == To(f, label)
<1>1. flow' = [flow EXCEPT ![f] = next]
  BY DEF Goto, Become
<1>2. Follows(f, next) /\ next.at = label /\ ~next.checked
  BY NextFollows
<1> HIDE DEF next
<1> QED
  BY <1>1, <1>2, SoloStep DEF Follows

LEMMA ThrowSolo ==
  ASSUME OnePanel, Inv, SoloInv, TypeOK', NEW f \in Flows, NEW label,
         NEW error, Throw(f, label, error), UNCHANGED servers,
         flow[f].op # "resize", Loose(flow[f].op, label)
  PROVE  SoloInv'
<1> DEFINE next == Thrown(f, label, error)
<1>1. flow' = [flow EXCEPT ![f] = next]
  BY DEF Throw, Become
<1>2. Follows(f, next) /\ next.at = label /\ ~next.checked
  BY NextFollows
<1> HIDE DEF next
<1> QED
  BY <1>1, <1>2, SoloStep DEF Follows

\* A call that leaves the operation nowhere in particular.
LEMMA LooseCall ==
  ASSUME OnePanel, Inv, SoloInv, TypeOK', NEW f \in Flows, NEW effect,
         NEW done, NEW thrown, RemoteStep(f, effect, done, thrown),
         Follows(f, done), Follows(f, thrown), ~done.checked, ~thrown.checked,
         Loose(flow[f].op, done.at), Loose(flow[f].op, thrown.at),
         flow[f].op # "resize"
  PROVE  SoloInv'
<1>1. PICK next \in {done, thrown} : flow' = [flow EXCEPT ![f] = next]
  BY DEF RemoteStep, Become
<1>2. UNCHANGED servers
  BY DEF RemoteStep
<1> QED
  BY <1>1, <1>2, SoloStep DEF Follows

\* A command that returns has reached its VM, also when its effect was lost.
LEMMA ExecReaches ==
  ASSUME Inv, NEW f \in Flows, NEW can, NEW effect, NEW ok, NEW failed,
         Exec(f, can, effect, ok, failed), can => Reachable(f),
         SameVm(f, effect)
  PROVE  /\ UNCHANGED servers
         /\ \/ Throw(f, failed, "other")
            \/ Goto(f, ok) /\ host'[Srv(f)].vm = "running"
<1>1. /\ host \in [Servers -> Host] /\ Srv(f) \in Servers
      /\ OverSsh(f, effect).vm = host[Srv(f)].vm
      /\ OverSsh(f, host[Srv(f)]).vm = host[Srv(f)].vm
  BY FlowFacts, ClientSaysNothing DEF Inv, TypeOK, SameVm
<1>2. CASE SshCall(f, can, effect, To(f, ok), Thrown(f, failed, "other"))
  BY <1>1, <1>2 DEF SshCall, Reachable, Throw, Goto
<1>3. CASE SilentLoss(f, To(f, ok))
  BY <1>1, <1>3 DEF SilentLoss, Reachable, Goto
<1> QED
  BY <1>2, <1>3 DEF Exec

LEMMA ExecSolo ==
  ASSUME OnePanel, Inv, SoloInv, TypeOK', NEW f \in Flows, NEW can,
         NEW effect, NEW ok, NEW failed,
         Exec(f, can, effect, ok, failed), can => Reachable(f),
         SameVm(f, effect), flow[f].op # "resize",
         Loose(flow[f].op, ok) \/ ok \in VmLabels,
         Loose(flow[f].op, failed)
  PROVE  SoloInv'
<1>1. /\ UNCHANGED servers
      /\ \/ Throw(f, failed, "other")
         \/ Goto(f, ok) /\ host'[Srv(f)].vm = "running"
  BY ExecReaches
<1> QED
  BY <1>1, GotoSolo, ThrowSolo

LEMMA RconSolo ==
  ASSUME OnePanel, Inv, SoloInv, TypeOK', NEW f \in Flows, NEW quits,
         NEW ok, NEW failed, RconCall(f, quits, ok, failed),
         flow[f].op # "resize",
         Loose(flow[f].op, ok), Loose(flow[f].op, failed)
  PROVE  SoloInv'
<1>1. PICK next \in {To(f, ok), To(f, "hung"), Thrown(f, failed, "other")} :
        flow' = [flow EXCEPT ![f] = next]
  BY DEF RconCall, Goto, Throw, Become
<1>2. UNCHANGED servers
  BY DEF RconCall
<1>3. Follows(f, next) /\ ~next.checked /\ Loose(flow[f].op, next.at)
  BY <1>1, NextFollows DEF Loose, VmLabels
<1> QED
  BY <1>1, <1>2, <1>3, SoloStep DEF Follows

\* What was checked is what is written.
LEMMA StatusRows ==
  ASSUME OnePanel, Inv, SoloInv, TypeOK', NEW f \in Flows,
         NEW status \in ServerStatus, NEW row \in Row, NEW ok, NEW failed,
         UpdateStatus(f, status, row, ok, failed),
         <<flow[f].at, status>> \in StatusWrites,
         \/ row.errorMessage = servers[Srv(f)].errorMessage
         \/ status \in {"failed", "archived"}
  PROVE  ErrorOnlyAfterFailure' /\ RowSteady(f)'
<1> DEFINE s == Srv(f)
<1>1. /\ s \in Servers /\ flow[f] \in Flow /\ servers[s] \in Row
      /\ servers \in [Servers -> Row] /\ flow \in [Flows -> Flow]
  BY FlowFacts DEF Inv, TypeOK
<1>2. /\ ErrorOnlyAfterFailure /\ RowSteady(f)
      /\ ~WriteRefused(f, failed)
  BY SoloFacts, NobodyContends
<1>3. CASE ~flow[f].checked
  <2>1. UNCHANGED servers
    BY <1>3 DEF UpdateStatus
  <2>2. CASE flow' = [flow EXCEPT ![f].checked = TRUE]
             /\ (\/ servers[s].status = "absent"
                 \/ IsValidStatusTransition(servers[s].status, status))
    <3>1. /\ flow'[f].at = flow[f].at /\ flow'[f].shown = flow[f].shown
          /\ Srv(f)' = s
      BY <1>1, <2>2 DEF Flow, Srv
    <3> QED
      BY <1>2, <2>1, <2>2, <3>1 DEF RowSteady, ErrorOnlyAfterFailure
  <2>3. CASE Throw(f, failed, "other")
    <3>1. ~flow'[f].checked /\ flow'[f].shown = flow[f].shown /\ Srv(f)' = s
      BY <1>1, <2>3, NextFollows DEF Throw, Become, Follows, Srv
    <3> QED
      BY <1>2, <2>1, <3>1 DEF RowSteady, ErrorOnlyAfterFailure
  <2> QED
    BY <1>3, <2>2, <2>3 DEF UpdateStatus
<1>4. CASE flow[f].checked
  <2>1. ~flow'[f].checked /\ flow'[f].shown = flow[f].shown /\ Srv(f)' = s
    BY <1>1, <1>2, <1>4, NextFollows
       DEF UpdateStatus, Goto, Become, Follows, Srv
  <2>2. \/ servers[s].status = "absent"
        \/ IsValidStatusTransition(servers[s].status, status)
    BY <1>2, <1>4 DEF RowSteady, StatusWrites
  <2>3. CASE servers[s].status = "absent"
    <3>1. UNCHANGED servers
      BY <1>2, <1>4, <2>3 DEF UpdateStatus
    <3> QED
      BY <1>2, <2>1, <3>1 DEF RowSteady, ErrorOnlyAfterFailure
  <2>4. CASE servers[s].status # "absent"
    <3>1. /\ servers'[s].status = status
          /\ servers'[s].errorMessage = row.errorMessage
          /\ \A t \in Servers : t # s => servers'[t] = servers[t]
      BY <1>1, <1>2, <1>4, <2>4 DEF UpdateStatus, Row
    <3>2. <<servers[s].status, status>> \in ValidTransitions
      BY <2>2, <2>4 DEF IsValidStatusTransition
    <3>3. status = "running" \/ status = "stopped" =>
            servers[s].status \notin {"failed", "archived"}
      BY <3>2 DEF ValidTransitions
    <3>4. servers[s].status \in {"failed", "archived"} =>
            status \in {"archived", "provisioning"}
      BY <3>2 DEF ValidTransitions
    <3>5. status \in {"running", "stopped", "failed", "archived"}
      BY DEF StatusWrites
    <3>6. ErrorOnlyAfterFailure'
      BY <1>1, <1>2, <3>1, <3>3, <3>5 DEF ErrorOnlyAfterFailure
    <3>7. RowSteady(f)'
      BY <1>2, <2>1, <3>1, <3>4, <3>5 DEF RowSteady
    <3> QED
      BY <3>6, <3>7
  <2> QED
    BY <2>3, <2>4
<1> QED
  BY <1>3, <1>4

-----------------------------------------------------------------------------
(* The services, one by one.                                               *)

\* A status write that leaves the operation nowhere in particular.
LEMMA StatusSolo ==
  ASSUME OnePanel, Inv, SoloInv, TypeOK', NEW f \in Flows,
         NEW status \in ServerStatus, NEW row \in Row, NEW ok, NEW failed,
         UpdateStatus(f, status, row, ok, failed),
         <<flow[f].at, status>> \in StatusWrites,
         \/ row.errorMessage = servers[Srv(f)].errorMessage
         \/ status \in {"failed", "archived"},
         flow[f].op # "resize",
         Loose(flow[f].op, ok), Loose(flow[f].op, failed)
  PROVE  SoloInv'
<1>1. ErrorOnlyAfterFailure' /\ RowSteady(f)'
  BY StatusRows
<1>2. /\ UNCHANGED host /\ flow[f] \in Flow /\ flow \in [Flows -> Flow]
      /\ OutcomeInv(f) /\ ~WriteRefused(f, failed)
  BY FlowFacts, SoloFacts, NobodyContends DEF UpdateStatus, Inv, TypeOK
<1>3. flow[f].op = "archive" =>
        flow[f].at \notin {"listTasks", "disableTasks", "ok"}
  BY DEF StatusWrites
<1>4. CASE flow' = [flow EXCEPT ![f].checked = TRUE]
  <2>1. /\ flow'[f].at = flow[f].at /\ flow'[f].op = flow[f].op
        /\ flow'[f].marks = flow[f].marks /\ Srv(f)' = Srv(f)
    BY <1>2, <1>4 DEF Flow, Srv
  <2>2. OutcomeInv(f)'
    BY <1>2, <1>3, <2>1 DEF OutcomeInv
  <2> QED
    BY <1>1, <2>1, <2>2, SoloAgain
<1>5. ASSUME NEW next, flow' = [flow EXCEPT ![f] = next],
             Follows(f, next), Loose(flow[f].op, next.at)
      PROVE  SoloInv'
  <2>1. flow'[f] = next
    BY <1>2, <1>5
  <2>2. OutcomeInv(f)'
    BY <1>5, <2>1 DEF OutcomeInv, Loose, Follows
  <2> QED
    BY <1>1, <1>5, <2>1, <2>2, SoloAgain DEF Follows
<1>6. /\ Follows(f, To(f, ok)) /\ To(f, ok).at = ok
      /\ Follows(f, Thrown(f, failed, "other"))
      /\ Thrown(f, failed, "other").at = failed
  BY NextFollows
<1>7. \/ flow' = [flow EXCEPT ![f].checked = TRUE]
      \/ flow' = [flow EXCEPT ![f] = To(f, ok)]
      \/ flow' = [flow EXCEPT ![f] = Thrown(f, failed, "other")]
  BY <1>2 DEF UpdateStatus, Goto, Throw, Become
<1> QED
  BY <1>4, <1>5, <1>6, <1>7

\* The row keeps its status, and its message unless it has failed.
LEMMA RowSolo ==
  ASSUME OnePanel, Inv, SoloInv, TypeOK', NEW f \in Flows, NEW row \in Row,
         NEW ok, NEW failed, UpdateRow(f, row, ok, failed),
         row.status = servers[Srv(f)].status,
         \/ row.errorMessage = servers[Srv(f)].errorMessage
         \/ row.status \in {"failed", "archived"},
         flow[f].op # "resize",
         \/ Loose(flow[f].op, ok)
         \/ ok \in VmLabels /\ host[Srv(f)].vm # "absent"
  PROVE  SoloInv'
<1>1. /\ Srv(f) \in Servers /\ servers \in [Servers -> Row]
      /\ ErrorOnlyAfterFailure /\ RowSteady(f) /\ UNCHANGED host
      /\ ~WriteRefused(f, failed)
  BY FlowFacts, SoloFacts, NobodyContends DEF UpdateRow, Inv, TypeOK
<1> DEFINE next == To(f, ok)
<1>2. /\ flow'[f] = next /\ Follows(f, next) /\ ~next.checked /\ next.at = ok
  BY <1>1, NextFollows DEF UpdateRow, Goto, Become, Inv, TypeOK
<1> HIDE DEF next
<1>3. /\ \A s \in Servers : s # Srv(f) => servers'[s] = servers[s]
      /\ servers'[Srv(f)] \in {servers[Srv(f)], row}
  BY <1>1 DEF UpdateRow
<1>4. ErrorOnlyAfterFailure'
  BY <1>1, <1>3 DEF ErrorOnlyAfterFailure
<1>5. RowSteady(f)'
  BY <1>1, <1>2, <1>3 DEF RowSteady, Follows, Srv
<1>6. OutcomeInv(f)'
  BY <1>1, <1>2 DEF OutcomeInv, Loose, Follows, Srv, VmLabels
<1> QED
  BY <1>2, <1>4, <1>5, <1>6, SoloAgain DEF Follows

LEMMA PollSolo ==
  ASSUME OnePanel, Inv, SoloInv, TypeOK', NEW f \in Flows, NEW ready,
         NEW label \in VmLabels, NEW timeout, Poll(f, ready, label, timeout),
         host'[Srv(f)].vm = host[Srv(f)].vm,
         flow[f].op = "deploy", flow[f].at \in {"vmBoot", "cloudInit"}
  PROVE  SoloInv'
<1>1. /\ UNCHANGED servers /\ host[Srv(f)].vm # "absent"
      /\ flow[f] \in Flow /\ ~flow[f].checked
  BY FlowFacts, SoloFacts DEF Poll, OutcomeInv, VmLabels, RowSteady, StatusWrites
<1>2. CASE Goto(f, label)
  BY <1>1, <1>2, GotoSolo
<1>3. CASE flow' = [flow EXCEPT ![f].polls = @ + 1]
  <2> DEFINE next == [flow[f] EXCEPT !.polls = @ + 1]
  <2>1. /\ flow' = [flow EXCEPT ![f] = next] /\ Follows(f, next)
        /\ next.at = flow[f].at /\ next.checked = flow[f].checked
    BY <1>1, <1>3 DEF Flow, Follows
  <2> HIDE DEF next
  <2>2. next.at \in VmLabels
    BY <2>1 DEF VmLabels
  <2> QED
    BY <1>1, <2>1, <2>2, SoloStep DEF Follows
<1>4. CASE Throw(f, "deployFailed", timeout)
  BY <1>1, <1>4, ThrowSolo DEF Loose, VmLabels
<1> QED
  BY <1>2, <1>3, <1>4 DEF Poll

LEMMA DeploySolo ==
  ASSUME OnePanel, Inv, SoloInv, TypeOK', NEW f \in Flows, DeploySteps(f)
  PROVE  SoloInv'
<1>1. /\ flow[f] \in Flow /\ Srv(f) \in Servers /\ servers[Srv(f)] \in Row
      /\ host[Srv(f)] \in Host /\ host \in [Servers -> Host]
      /\ OutcomeInv(f) /\ RowSteady(f)
  BY FlowFacts, SoloFacts DEF Inv, TypeOK
<1> DEFINE failed(error) == Thrown(f, "deployFailed", error)
<1>2. ASSUME NEW error
      PROVE  /\ Follows(f, failed(error)) /\ ~failed(error).checked
             /\ Loose("deploy", failed(error).at)
  BY NextFollows DEF Loose, VmLabels
<1> HIDE DEF failed
<1>3. CASE EnsureStateBucket(f)
  <2>1. /\ RemoteStep(f, host[Srv(f)], To(f, "provision"), failed("other"))
        /\ flow[f].op = "deploy"
    BY <1>3 DEF EnsureStateBucket, At, RemoteCall, RemoteStep, failed
  <2>2. Loose("deploy", To(f, "provision").at)
    BY NextFollows DEF Loose, VmLabels
  <2> QED
    BY <1>2, <2>1, <2>2, LooseCall, NextFollows
<1>4. CASE Provision(f)
  <2>1. /\ flow[f].op = "deploy" /\ UNCHANGED servers /\ ~flow[f].checked
    BY <1>1, <1>4 DEF Provision, At, RowSteady, StatusWrites
  <2>2. CASE Throw(f, "deployFailed", "provision")
    BY <2>1, <2>2, ThrowSolo DEF Loose, VmLabels
  <2>3. ASSUME NEW ip \in {"ip", "zero"}, GotoSaveIp(f, ip),
               host'[Srv(f)].vm = "staging"
        PROVE  SoloInv'
    <3> DEFINE next == [flow[f] EXCEPT !.at = "saveIp", !.ip = ip]
    <3>1. /\ flow' = [flow EXCEPT ![f] = next] /\ next.at = "saveIp"
          /\ next.op = "deploy" /\ next.srv = flow[f].srv
          /\ next.shown = flow[f].shown /\ next.checked = flow[f].checked
      BY <1>1, <2>1, <2>3 DEF GotoSaveIp, Flow
    <3> HIDE DEF next
    <3> QED
      BY <2>1, <2>3, <3>1, SoloStep DEF VmLabels
  <2> QED
    BY <1>1, <1>4, <2>2, <2>3 DEF Provision
<1>5. CASE SaveStaticIp(f)
  <2> DEFINE row == [servers[Srv(f)] EXCEPT !.staticIp = flow[f].ip]
  <2>1. /\ row \in Row /\ row.status = servers[Srv(f)].status
        /\ row.errorMessage = servers[Srv(f)].errorMessage
    BY <1>1 DEF Row, Flow
  <2>2. /\ UpdateRow(f, row, "vmBoot", "deployFailed") /\ flow[f].op = "deploy"
        /\ host[Srv(f)].vm # "absent"
    BY <1>1, <1>5 DEF SaveStaticIp, At, OutcomeInv, VmLabels
  <2> HIDE DEF row
  <2> QED
    BY <2>1, <2>2, RowSolo DEF VmLabels
<1>6. CASE WaitForVmBoot(f)
  <2>1. PICK ready : Poll(f, ready, "cloudInit", "vmBoot")
    BY <1>6 DEF WaitForVmBoot
  <2>2. /\ flow[f].op = "deploy" /\ flow[f].at = "vmBoot"
        /\ host'[Srv(f)].vm = host[Srv(f)].vm
    BY <1>6 DEF WaitForVmBoot, At
  <2> QED
    BY <2>1, <2>2, PollSolo DEF VmLabels
<1>7. CASE WaitForCloudInit(f)
  <2>1. PICK ready : Poll(f, ready, "markRunning", "cloudInit")
    BY <1>7 DEF WaitForCloudInit
  <2>2. /\ flow[f].op = "deploy" /\ flow[f].at = "cloudInit"
        /\ host'[Srv(f)].vm = host[Srv(f)].vm
    BY <1>1, <1>7 DEF WaitForCloudInit, At, Host
  <2> QED
    BY <2>1, <2>2, PollSolo DEF VmLabels
<1>8. CASE DeployMarkRunning(f)
  <2>1. /\ UpdateStatus(f, "running", servers[Srv(f)], "ok", "deployFailed")
        /\ flow[f].op = "deploy" /\ flow[f].at = "markRunning"
    BY <1>8 DEF DeployMarkRunning, At
  <2> QED
    BY <1>1, <2>1, StatusSolo DEF ServerStatus, StatusWrites, Loose, VmLabels
<1>9. CASE DeployMarkFailed(f)
  <2> DEFINE row == [servers[Srv(f)] EXCEPT !.errorMessage = flow[f].error]
  <2>1. row \in Row
    BY <1>1 DEF Row, Flow
  <2>2. /\ UpdateStatus(f, "failed", row, "error", "error")
        /\ flow[f].op = "deploy" /\ flow[f].at = "deployFailed"
    BY <1>9 DEF DeployMarkFailed, At
  <2> HIDE DEF row
  <2> QED
    BY <2>1, <2>2, StatusSolo DEF ServerStatus, StatusWrites, Loose, VmLabels
<1> QED
  BY <1>3, <1>4, <1>5, <1>6, <1>7, <1>8, <1>9 DEF DeploySteps

LEMMA StartStopSolo ==
  ASSUME OnePanel, Inv, SoloInv, TypeOK', NEW f \in Flows, StartStopSteps(f)
  PROVE  SoloInv'
<1>1. SameVm(f, Up(f)) /\ SameVm(f, Down(f)) /\ servers[Srv(f)] \in Row
  BY SameVms, FlowFacts
<1>2. CASE StartContainer(f)
  BY <1>1, <1>2, ExecSolo
     DEF StartContainer, At, HasDocker, Loose, VmLabels
<1>3. CASE StopContainer(f)
  BY <1>1, <1>3, ExecSolo
     DEF StopContainer, At, HasDocker, Loose, VmLabels
<1>4. CASE StartMarkRunning(f)
  BY <1>1, <1>4, StatusSolo
     DEF StartMarkRunning, At, ServerStatus, StatusWrites, Loose, VmLabels
<1>5. CASE StopMarkStopped(f)
  BY <1>1, <1>5, StatusSolo
     DEF StopMarkStopped, At, ServerStatus, StatusWrites, Loose, VmLabels
<1> QED
  BY <1>2, <1>3, <1>4, <1>5 DEF StartStopSteps

LEMMA BackupSolo ==
  ASSUME OnePanel, Inv, SoloInv, TypeOK', NEW f \in Flows,
         BackupServiceSteps(f)
  PROVE  SoloInv'
<1>1. /\ SameVm(f, Up(f)) /\ SameVm(f, Halt(f)) /\ SameVm(f, host[Srv(f)])
  BY SameVms
<1>2. CASE BackupTar(f)
  <2>1. /\ flow[f].op \in {"backup", "archive", "update"}
        /\ Loose(flow[f].op, "download") /\ Loose(flow[f].op, "error")
    BY <1>2 DEF BackupTar, InBackup, Loose, VmLabels
  <2>2. PICK file \in {"complete", "truncated"} :
          RemoteStep(f, host[Srv(f)], Tarred(f, file),
                     Thrown(f, "error", "other"))
    BY <1>2 DEF BackupTar, SshCall, SilentLoss, RemoteStep
  <2> DEFINE done   == Tarred(f, file)
             thrown == Thrown(f, "error", "other")
  <2>3. /\ Follows(f, done) /\ done.at = "download" /\ ~done.checked
        /\ Follows(f, thrown) /\ thrown.at = "error" /\ ~thrown.checked
    BY NextFollows, FlowFacts DEF Tarred, To, Follows, Flow
  <2>4. RemoteStep(f, host[Srv(f)], done, thrown)
    BY <2>2
  <2> HIDE DEF done, thrown
  <2> QED
    BY <2>1, <2>3, <2>4, LooseCall
<1>3. CASE BackupDownload(f)
  <2>1. /\ flow[f].op \in {"backup", "archive", "update"}
        /\ Loose(flow[f].op, "rm") /\ Loose(flow[f].op, "error")
        /\ UNCHANGED servers
        /\ Goto(f, "rm") \/ Throw(f, "error", "other")
    BY <1>3 DEF BackupDownload, InBackup, Loose, VmLabels
  <2> QED
    BY <2>1, GotoSolo, ThrowSolo
<1>4. CASE BackupCleanup(f)
  <2>1. /\ flow[f].op \in {"backup", "archive", "update"}
        /\ Loose(flow[f].op, AfterBackup(f)) /\ Loose(flow[f].op, "error")
    BY <1>4 DEF BackupCleanup, InBackup, AfterBackup, Loose, VmLabels
  <2> QED
    BY <1>1, <1>4, <2>1, ExecSolo DEF BackupCleanup
<1>5. CASE RestoreStop(f)
  BY <1>1, <1>5, ExecSolo DEF RestoreStop, At, HasDocker, Loose, VmLabels
<1>6. CASE RestoreUpload(f)
  <2>1. /\ flow[f].op = "restore"
        /\ RemoteStep(f, host[Srv(f)], To(f, "untar"),
                      Thrown(f, "error", "other"))
    BY <1>6 DEF RestoreUpload, At, SshCall, RemoteStep
  <2>2. Loose("restore", "untar") /\ Loose("restore", "error")
    BY DEF Loose, VmLabels
  <2> QED
    BY <2>1, <2>2, LooseCall, NextFollows
<1>7. CASE RestoreUntar(f)
  BY <1>1, <1>7, ExecSolo DEF RestoreUntar, At, Loose, VmLabels
<1>8. CASE RestoreUp(f)
  BY <1>1, <1>8, ExecSolo DEF RestoreUp, At, HasDocker, Loose, VmLabels
<1> QED
  BY <1>2, <1>3, <1>4, <1>5, <1>6, <1>7, <1>8
     DEF BackupServiceSteps, BackupSteps, RestoreSteps

LEMMA UpdateFlowSolo ==
  ASSUME OnePanel, Inv, SoloInv, TypeOK', NEW f \in Flows, UpdateFlowSteps(f)
  PROVE  SoloInv'
<1>1. /\ SameVm(f, Up(f)) /\ SameVm(f, host[Srv(f)])
      /\ servers[Srv(f)] \in Row
      /\ [servers[Srv(f)] EXCEPT !.errorMessage = "other"] \in Row
  BY SameVms, FlowFacts DEF Row, ErrorKinds
<1>2. CASE UpdateBroadcast(f)
  BY <1>2, RconSolo DEF UpdateBroadcast, At, Loose, VmLabels
<1>3. CASE UpdateSave(f)
  BY <1>3, RconSolo DEF UpdateSave, At, Loose, VmLabels
<1>4. CASE UpdateQuit(f)
  BY <1>4, RconSolo DEF UpdateQuit, At, Loose, VmLabels
<1>5. CASE UpdatePull(f)
  BY <1>1, <1>5, ExecSolo DEF UpdatePull, At, HasDocker, Loose, VmLabels
<1>6. CASE UpdateUp(f)
  BY <1>1, <1>6, ExecSolo DEF UpdateUp, At, HasDocker, Loose, VmLabels
<1>7. CASE UpdateHealthCheck(f)
  BY <1>1, <1>7, ExecSolo
     DEF UpdateHealthCheck, At, HasDocker, Loose, VmLabels
<1>8. CASE UpdateUndoUp(f)
  BY <1>1, <1>8, ExecSolo DEF UpdateUndoUp, At, HasDocker, Loose, VmLabels
<1>9. CASE UpdateMarkRunning(f)
  BY <1>1, <1>9, StatusSolo
     DEF UpdateMarkRunning, At, ServerStatus, StatusWrites, Loose, VmLabels
<1>10. CASE UpdateUndoMarkRunning(f)
  BY <1>1, <1>10, StatusSolo
     DEF UpdateUndoMarkRunning, At, ServerStatus, StatusWrites, Loose, VmLabels
<1>11. CASE UpdateMarkFailed(f)
  BY <1>1, <1>11, StatusSolo
     DEF UpdateMarkFailed, At, ServerStatus, StatusWrites, Loose, VmLabels
<1>12. CASE RestartSave(f)
  BY <1>12, RconSolo DEF RestartSave, At, Loose, VmLabels
<1>13. CASE RestartQuit(f)
  BY <1>13, RconSolo DEF RestartQuit, At, Loose, VmLabels
<1>14. CASE RestartUp(f)
  BY <1>1, <1>14, ExecSolo DEF RestartUp, At, HasDocker, Loose, VmLabels
<1>15. CASE RestartMarkRunning(f)
  BY <1>1, <1>15, StatusSolo
     DEF RestartMarkRunning, At, ServerStatus, StatusWrites, Loose, VmLabels
<1>16. CASE UpdateSteps(f)
  BY <1>2, <1>3, <1>4, <1>5, <1>6, <1>7, <1>8, <1>9, <1>10, <1>11, <1>16
     DEF UpdateSteps
<1>17. CASE QuickRestartSteps(f)
  BY <1>12, <1>13, <1>14, <1>15, <1>17 DEF QuickRestartSteps
<1> QED
  BY <1>16, <1>17 DEF UpdateFlowSteps

\* The last write of an archive is made of a server whose VM is gone.
LEMMA MarkArchivedSolo ==
  ASSUME OnePanel, Inv, SoloInv, TypeOK', NEW f \in Flows,
         ArchiveMarkArchived(f)
  PROVE  SoloInv'
<1> DEFINE s   == Srv(f)
           row == [servers[s] EXCEPT !.backupPath = "path"]
<1>1. /\ flow[f] \in Flow /\ s \in Servers /\ servers[s] \in Row
      /\ servers \in [Servers -> Row] /\ flow \in [Flows -> Flow]
      /\ OutcomeInv(f) /\ row \in Row
  <2>1. flow[f] \in Flow /\ s \in Servers /\ servers[s] \in Row
    BY FlowFacts
  <2>2. row \in Row
    BY <2>1 DEF Row
  <2>3. servers \in [Servers -> Row] /\ flow \in [Flows -> Flow]
    BY DEF Inv, TypeOK
  <2>4. OutcomeInv(f)
    BY SoloFacts
  <2> QED
    BY <2>1, <2>2, <2>3, <2>4
<1>2. /\ UNCHANGED host
      /\ flow[f].op = "archive" /\ flow[f].at = "markArchived"
      /\ UpdateStatus(f, "archived", row, "listTasks", "error")
      /\ ~WriteRefused(f, "error")
  BY NobodyContends DEF ArchiveMarkArchived, At, UpdateStatus
<1>3. host[s].vm = "absent" /\ servers[s].status # "absent"
  <2>1. ProgressInv(f) /\ PanelInv(f)
    BY FlowFacts
  <2> QED
    BY <1>2, <2>1 DEF ProgressInv, PanelInv
<1> HIDE DEF row
<1>4. ErrorOnlyAfterFailure' /\ RowSteady(f)'
  BY <1>1, <1>2, StatusRows DEF ServerStatus, StatusWrites
<1>5. CASE flow' = [flow EXCEPT ![f].checked = TRUE]
  <2>1. /\ flow'[f].at = "markArchived" /\ flow'[f].op = "archive"
    BY <1>1, <1>2, <1>5 DEF Flow
  <2> QED
    BY <1>4, <2>1, SoloAgain DEF OutcomeInv, VmLabels
<1>6. CASE Throw(f, "error", "other")
  <2>1. flow'[f].at = "error" /\ flow'[f].op = "archive"
    BY <1>1, <1>2, <1>6, NextFollows DEF Throw, Become, Follows
  <2> QED
    BY <1>4, <2>1, SoloAgain DEF OutcomeInv, VmLabels
<1>7. CASE Goto(f, "listTasks") /\ servers' = [servers EXCEPT ![s] =
                                                [row EXCEPT !.status = "archived"]]
  <2>1. /\ flow'[f].at = "listTasks" /\ flow'[f].op = "archive" /\ Srv(f)' = s
    BY <1>1, <1>2, <1>7, NextFollows DEF Goto, Become, Follows, Srv
  <2>2. servers'[s].status = "archived" /\ host'[s].vm = "absent"
    BY <1>1, <1>2, <1>3, <1>7 DEF Row
  <2> QED
    BY <1>4, <2>1, <2>2, SoloAgain DEF OutcomeInv, VmLabels
<1> QED
  BY <1>2, <1>3, <1>5, <1>6, <1>7 DEF UpdateStatus

LEMMA ArchiveSolo ==
  ASSUME OnePanel, Inv, SoloInv, TypeOK', NEW f \in Flows, ArchiveSteps(f)
  PROVE  SoloInv'
<1>1. /\ flow[f] \in Flow /\ Srv(f) \in Servers /\ servers[Srv(f)] \in Row
      /\ flow \in [Flows -> Flow] /\ tasks \in [Servers -> SUBSET Tasks]
      /\ ErrorOnlyAfterFailure /\ RowSteady(f) /\ OutcomeInv(f)
  BY FlowFacts, SoloFacts DEF Inv, TypeOK
<1>2. CASE ArchiveDestroy(f)
  <2>1. PICK thrown \in {Thrown(f, "error", "other"), To(f, "destroyFailed")} :
          RemoteStep(f, Destroyed(f), To(f, "markArchived"), thrown)
    BY <1>2 DEF ArchiveDestroy, RemoteCall, RemoteStep
  <2>2. /\ flow[f].op = "archive" /\ Loose("archive", "markArchived")
        /\ Loose("archive", "error") /\ Loose("archive", "destroyFailed")
    BY <1>2 DEF ArchiveDestroy, At, Loose, VmLabels
  <2>3. Follows(f, thrown) /\ ~thrown.checked /\ Loose("archive", thrown.at)
    BY <2>2, NextFollows
  <2> QED
    BY <2>1, <2>2, <2>3, LooseCall, NextFollows
<1>3. CASE ArchiveMarkFailed(f)
  <2>1. [servers[Srv(f)] EXCEPT !.errorMessage = "other"] \in Row
    BY <1>1 DEF Row, ErrorKinds
  <2> QED
    BY <1>3, <2>1, StatusSolo
       DEF ArchiveMarkFailed, At, ServerStatus, StatusWrites, Loose, VmLabels
<1>4. CASE ArchiveListTasks(f)
  <2>1. /\ flow'[f] = [flow[f] EXCEPT !.at = "disableTasks",
                                      !.listed = tasks[Srv(f)]]
        /\ flow[f].op = "archive" /\ flow[f].at = "listTasks"
        /\ UNCHANGED <<servers, host, tasks>>
    BY <1>1, <1>4 DEF ArchiveListTasks, At
  <2>2. /\ flow'[f].at = "disableTasks" /\ flow'[f].op = "archive"
        /\ flow'[f].listed = tasks[Srv(f)] /\ Srv(f)' = Srv(f)
        /\ flow'[f].checked = flow[f].checked
        /\ flow'[f].shown = flow[f].shown
    BY <1>1, <2>1 DEF Flow, Srv
  <2>3. ErrorOnlyAfterFailure' /\ RowSteady(f)'
    BY <1>1, <2>1, <2>2 DEF ErrorOnlyAfterFailure, RowSteady, StatusWrites
  <2>4. OutcomeInv(f)'
    BY <1>1, <2>1, <2>2 DEF OutcomeInv, VmLabels
  <2> QED
    BY <2>2, <2>3, <2>4, SoloAgain
<1>5. CASE ArchiveDisableTasks(f)
  <2>1. /\ flow[f].op = "archive" /\ flow[f].at = "disableTasks"
        /\ UNCHANGED <<servers, host>>
        /\ tasks'[Srv(f)] = tasks[Srv(f)] \ flow[f].listed
        /\ Goto(f, "ok")
    BY <1>1, <1>5, NobodyContends DEF ArchiveDisableTasks, At
  <2>2. /\ flow'[f].at = "ok" /\ flow'[f].op = "archive" /\ Srv(f)' = Srv(f)
        /\ ~flow'[f].checked /\ flow'[f].shown = flow[f].shown
    BY <1>1, <2>1, NextFollows DEF Goto, Become, Follows, Srv
  <2>3. ErrorOnlyAfterFailure' /\ RowSteady(f)'
    BY <1>1, <2>1, <2>2 DEF ErrorOnlyAfterFailure, RowSteady
  <2>4. OutcomeInv(f)'
    BY <1>1, <2>1, <2>2 DEF OutcomeInv, VmLabels
  <2> QED
    BY <2>2, <2>3, <2>4, SoloAgain
<1> QED
  BY <1>2, <1>3, <1>4, <1>5, MarkArchivedSolo DEF ArchiveSteps

LEMMA RecoverySolo ==
  ASSUME OnePanel, Inv, SoloInv, TypeOK', NEW f \in Flows, RecoverySteps(f)
  PROVE  SoloInv'
<1>1. /\ SameVm(f, Up(f)) /\ SameVm(f, Bootstrapped(host[Srv(f)]))
      /\ servers[Srv(f)] \in Row
      /\ [servers[Srv(f)] EXCEPT !.errorMessage = "panel"] \in Row
  BY SameVms, FlowFacts DEF Row, ErrorKinds
<1>2. CASE RecoveryDestroy(f)
  <2>1. PICK thrown \in {Thrown(f, "error", "other"), To(f, "markFailed")} :
          RemoteStep(f, Destroyed(f), To(f, "markFailed"), thrown)
    BY <1>2 DEF RecoveryDestroy, RemoteCall, RemoteStep
  <2>2. /\ flow[f].op = "destroy" /\ Loose("destroy", "markFailed")
        /\ Loose("destroy", "error")
    BY <1>2 DEF RecoveryDestroy, At, Loose, VmLabels
  <2>3. Follows(f, thrown) /\ ~thrown.checked /\ Loose("destroy", thrown.at)
    BY <2>2, NextFollows
  <2> QED
    BY <2>1, <2>2, <2>3, LooseCall, NextFollows
<1>3. CASE RecoveryStopVm(f)
  <2>1. /\ RemoteStep(f, VmStopped(f), To(f, "startVm"),
                      Thrown(f, "error", "other"))
        /\ flow[f].op = "retryVmBoot" /\ Loose("retryVmBoot", "startVm")
        /\ Loose("retryVmBoot", "error")
    BY <1>3 DEF RecoveryStopVm, CloudCall, RemoteCall, RemoteStep, At, Loose,
                VmLabels
  <2> QED
    BY <2>1, LooseCall, NextFollows
<1>4. CASE RecoveryStartVm(f)
  <2>1. /\ RemoteStep(f, VmStarted(f), To(f, "markFailed"),
                      Thrown(f, "error", "other"))
        /\ flow[f].op = "retryVmBoot" /\ Loose("retryVmBoot", "markFailed")
        /\ Loose("retryVmBoot", "error")
    BY <1>4 DEF RecoveryStartVm, CloudCall, RemoteCall, RemoteStep, At, Loose,
                VmLabels
  <2> QED
    BY <2>1, LooseCall, NextFollows
<1>5. CASE RecoveryMarkFailed(f)
  <2>1. PICK row \in Row : UpdateStatus(f, "failed", row, "ok", "error")
    BY <1>1, <1>5 DEF RecoveryMarkFailed
  <2>2. /\ flow[f].op \in {"destroy", "abort", "retryVmBoot"}
        /\ flow[f].at = "markFailed"
    BY <1>5 DEF RecoveryMarkFailed
  <2> QED
    BY <2>1, <2>2, StatusSolo DEF ServerStatus, StatusWrites, Loose, VmLabels
<1>6. CASE RecoveryReconfigure(f)
  <2>1. servers[Srv(f)].status \in {"failed", "archived"}
    <3>1. PanelInv(f) /\ RowSteady(f) /\ flow[f].op = "reconfigure"
      BY <1>6, FlowFacts, SoloFacts DEF RecoveryReconfigure, At
    <3> QED
      BY <3>1 DEF PanelInv, RowSteady
  <2>2. PICK row \in Row : /\ UpdateRow(f, row, "ok", "error")
                           /\ row.status = servers[Srv(f)].status
    BY <1>1, <1>6 DEF RecoveryReconfigure, Row
  <2>3. Loose(flow[f].op, "ok") /\ flow[f].op # "resize"
    BY <1>6 DEF RecoveryReconfigure, At, Loose, VmLabels
  <2> QED
    BY <2>1, <2>2, <2>3, RowSolo
<1>7. CASE RecoveryBootstrap(f)
  <2>1. PICK there \in BOOLEAN :
          Exec(f, there /\ Reachable(f), Bootstrapped(host[Srv(f)]),
               "ok", "error")
    BY <1>7 DEF RecoveryBootstrap
  <2>2. /\ flow[f].op = "rerunBootstrap" /\ Loose("rerunBootstrap", "ok")
        /\ Loose("rerunBootstrap", "error")
    BY <1>7 DEF RecoveryBootstrap, At, Loose, VmLabels
  <2> QED
    BY <1>1, <2>1, <2>2, ExecSolo
<1>8. CASE RecoveryRestart(f)
  BY <1>1, <1>8, ExecSolo DEF RecoveryRestart, At, HasDocker, Loose, VmLabels
<1> QED
  BY <1>2, <1>3, <1>4, <1>5, <1>6, <1>7, <1>8 DEF RecoverySteps

-----------------------------------------------------------------------------
(* changeInstanceType and its rollback.                                    *)

\* What an effect over ssh makes of a machine is the machine.
SameMachine(h, k) ==
  /\ h.vm = k.vm /\ h.type = k.type /\ h.memory = k.memory
  /\ h.due = k.due /\ h.container = k.container

\* A resize moves on with the given marks.
Advances(f, next, marks) ==
  /\ Follows(f, next) /\ ~next.checked
  /\ next.newType = flow[f].newType /\ next.marks = marks

LEMMA AdvancesTo ==
  ASSUME Inv, NEW f \in Flows, NEW label
  PROVE  Advances(f, To(f, label), flow[f].marks) /\ To(f, label).at = label
BY FlowFacts DEF Advances, Follows, To, Flow

LEMMA AdvancesThrown ==
  ASSUME Inv, NEW f \in Flows, NEW label, NEW error
  PROVE  /\ Advances(f, Thrown(f, label, error), flow[f].marks)
         /\ Thrown(f, label, error).at = label
BY FlowFacts DEF Advances, Follows, Thrown, Flow

LEMMA AdvancesMarked ==
  ASSUME Inv, NEW f \in Flows, NEW label, NEW mark
  PROVE  /\ Advances(f, Marked(f, label, mark), flow[f].marks \union {mark})
         /\ Marked(f, label, mark).at = label
BY FlowFacts DEF Advances, Follows, Marked, Flow

LEMMA AdvancesLost ==
  ASSUME Inv, NEW f \in Flows, NEW label, NEW mark
  PROVE  /\ Advances(f, Lost(To(f, label)), flow[f].marks \union {"lost"})
         /\ Lost(To(f, label)).at = label
         /\ Advances(f, Lost(Marked(f, label, mark)),
                     flow[f].marks \union {mark, "lost"})
         /\ Lost(Marked(f, label, mark)).at = label
<1>1. flow[f] \in Flow
  BY FlowFacts
<1>2. /\ Lost(To(f, label)).marks = flow[f].marks \union {"lost"}
      /\ Lost(Marked(f, label, mark)).marks = flow[f].marks \union {mark, "lost"}
  BY <1>1 DEF Lost, To, Marked, Flow
<1> QED
  BY <1>1, <1>2, LostFollows DEF Advances, Lost, To, Marked, Flow

\* How a call ends: its effect is there unless it threw.
CallEnds(f, can, effect, done, thrown) ==
  /\ UNCHANGED servers
  /\ \/ /\ can /\ flow' = [flow EXCEPT ![f] = done]
        /\ SameMachine(host'[Srv(f)], effect)
     \/ /\ flow' = [flow EXCEPT ![f] = thrown]
        /\ \/ SameMachine(host'[Srv(f)], host[Srv(f)])
           \/ can /\ SameMachine(host'[Srv(f)], effect)

\* How a command ends that was lost: nothing is there.
LossEnds(f, done) ==
  /\ UNCHANGED servers /\ flow' = [flow EXCEPT ![f] = done]
  /\ SameMachine(host'[Srv(f)], host[Srv(f)])

LEMMA CallsEndSo ==
  ASSUME Inv, NEW f \in Flows, NEW can, NEW effect \in Host,
         NEW done, NEW thrown
  PROVE  /\ RemoteCall(f, can, effect, done, thrown) =>
              CallEnds(f, can, effect, done, thrown)
         /\ SshCall(f, can, effect, done, thrown) =>
              CallEnds(f, can, effect, done, thrown)
         /\ SilentLoss(f, done) => LossEnds(f, done)
<1>1. /\ host \in [Servers -> Host] /\ Srv(f) \in Servers
      /\ host[Srv(f)] \in Host
  BY FlowFacts DEF Inv, TypeOK
<1>2. /\ SameMachine(OverSsh(f, effect), effect)
      /\ SameMachine(OverSsh(f, host[Srv(f)]), host[Srv(f)])
      /\ SameMachine(effect, effect)
      /\ SameMachine(host[Srv(f)], host[Srv(f)])
  BY <1>1 DEF SameMachine, OverSsh, Host
<1>3. ASSUME RemoteCall(f, can, effect, done, thrown)
      PROVE  CallEnds(f, can, effect, done, thrown)
  BY <1>1, <1>2, <1>3 DEF RemoteCall, CallEnds, Become
<1>4. ASSUME SshCall(f, can, effect, done, thrown)
      PROVE  CallEnds(f, can, effect, done, thrown)
  BY <1>1, <1>2, <1>4 DEF SshCall, CallEnds, Become
<1>5. ASSUME SilentLoss(f, done)
      PROVE  LossEnds(f, done)
  BY <1>1, <1>2, <1>5 DEF SilentLoss, LossEnds, Become
<1> QED
  BY <1>3, <1>4, <1>5

\* What the cases of a resize have in common.
LEMMA ResizeNext ==
  ASSUME Inv, SoloInv, NEW f \in Flows, NEW next, NEW marks,
         flow' = [flow EXCEPT ![f] = next], Advances(f, next, marks),
         UNCHANGED servers, flow[f].op = "resize", flow[f].at # "ok"
  PROVE  /\ flow'[f].at = next.at /\ flow'[f].newType = flow[f].newType
         /\ flow'[f].marks = marks /\ Srv(f)' = Srv(f)
         /\ servers'[Srv(f)].instanceType = Original(f)
         /\ HasConn(f)' = HasConn(f) /\ Original(f)' = Original(f)
<1>1. flow'[f] = next
  BY DEF Inv, TypeOK
<1>2. servers[Srv(f)].instanceType = Original(f)
  BY SoloFacts DEF ResizeForward
<1> QED
  BY <1>1, <1>2 DEF Advances, Follows, Srv, HasConn, Original

LEMMA ResizeStep ==
  ASSUME OnePanel, Inv, SoloInv, TypeOK', NEW f \in Flows, NEW next,
         NEW marks, flow' = [flow EXCEPT ![f] = next],
         Advances(f, next, marks), UNCHANGED servers, flow[f].op = "resize",
         next.at \notin {"panel", "idle"},
         next.at = "persist" => host'[Srv(f)].vm # "absent",
         next.at \notin VmLabels \ {"persist"},
         ResizeForward(f)', ResizeBack(f)'
  PROVE  SoloInv'
<1>1. \/ Loose(next.op, next.at)
      \/ next.at \in VmLabels /\ host'[Srv(f)].vm # "absent"
  BY DEF Advances, Follows, Loose, VmLabels
<1>2. /\ next.srv = flow[f].srv /\ next.shown = flow[f].shown
      /\ ~next.checked
  BY DEF Advances, Follows
<1>3. next.op = "resize" => ResizeForward(f)' /\ ResizeBack(f)'
  OBVIOUS
<1> QED
  BY <1>1, <1>2, <1>3, SoloStep

LEMMA ResizeStopped ==
  ASSUME OnePanel, Inv, SoloInv, TypeOK', NEW f \in Flows,
         ResizeDown(f) \/ ResizeStopVm(f) \/ ResizeChangeType(f)
  PROVE  SoloInv'
<1> DEFINE h      == host[Srv(f)]
           thrown == Thrown(f, "undoType", "other")
<1>1. /\ flow[f].op = "resize"
      /\ flow[f].at \in {"down", "stopVm", "changeType"}
      /\ ResizeForward(f)
      /\ h \in Host /\ Down(f) \in Host /\ VmStopped(f) \in Host
      /\ VmResized(f, flow[f].newType) \in Host
  BY SoloFacts, FlowFacts, EffectType
     DEF ResizeDown, ResizeStopVm, ResizeChangeType, At, Inv, Flow
<1>2. /\ Advances(f, thrown, flow[f].marks) /\ thrown.at = "undoType"
      /\ Advances(f, To(f, "stopVm"), flow[f].marks)
      /\ To(f, "stopVm").at = "stopVm"
  BY AdvancesTo, AdvancesThrown
<1> HIDE DEF thrown
<1>3. ASSUME NEW next, NEW marks, flow' = [flow EXCEPT ![f] = next],
             Advances(f, next, marks), UNCHANGED servers,
             \/ /\ next.at = "stopVm" /\ marks = {}
             \/ /\ next.at = "changeType" /\ marks = {"vmStopped"}
                /\ host'[Srv(f)].vm = "stopped"
             \/ /\ next.at = "startVm"
                /\ marks = {"vmStopped", "machineChanged"}
                /\ host'[Srv(f)].vm = "stopped"
                /\ host'[Srv(f)].type = flow[f].newType
             \/ /\ next.at = "undoType" /\ marks = {}
             \/ /\ next.at = "undoType" /\ marks = {"vmStopped"}
                /\ host'[Srv(f)].vm = "stopped"
      PROVE  SoloInv'
  <2>1. /\ flow'[f].at = next.at /\ flow'[f].newType = flow[f].newType
        /\ flow'[f].marks = marks /\ Srv(f)' = Srv(f)
        /\ servers'[Srv(f)].instanceType = Original(f)
        /\ Original(f)' = Original(f)
    <3>1. flow[f].op = "resize" /\ flow[f].at # "ok"
      BY <1>1
    <3>2. /\ flow' = [flow EXCEPT ![f] = next] /\ Advances(f, next, marks)
          /\ UNCHANGED servers
      BY <1>3
    <3> QED
      BY <3>1, <3>2, ResizeNext
  <2>2. ResizeForward(f)'
    BY <1>3, <2>1 DEF ResizeForward
  <2>3. ResizeBack(f)'
    BY <1>3, <2>1 DEF ResizeBack
  <2>4. next.at \notin VmLabels \union {"panel", "idle"}
    BY <1>3 DEF VmLabels
  <2>5. next.at # "persist"
    BY <1>3
  <2> QED
    BY <1>1, <1>3, <2>2, <2>3, <2>4, <2>5, ResizeStep
<1>4. CASE ResizeDown(f)
  <2>1. UNCHANGED servers /\ flow[f].marks = {}
    BY <1>1, <1>4 DEF ResizeDown, At, Skip, Exec, SshCall, SilentLoss,
       ResizeForward
  <2>2. PICK next \in {To(f, "stopVm"), thrown} :
          flow' = [flow EXCEPT ![f] = next]
    BY <1>4 DEF ResizeDown, Skip, Goto, Exec, SshCall, SilentLoss, Become,
       thrown
  <2>3. Advances(f, next, {}) /\ next.at \in {"stopVm", "undoType"}
    BY <1>2, <2>1, <2>2
  <2> QED
    BY <1>3, <2>1, <2>2, <2>3
<1>5. CASE ResizeStopVm(f)
  <2> DEFINE done == Marked(f, "changeType", "vmStopped")
  <2>1. flow[f].marks = {} /\ VmStopped(f).vm = "stopped"
    BY <1>1, <1>5, ClientType
       DEF ResizeStopVm, At, ResizeForward, VmStopped, Host
  <2>2. Advances(f, done, {"vmStopped"}) /\ done.at = "changeType"
    <3>1. {} \union {"vmStopped"} = {"vmStopped"}
      OBVIOUS
    <3> QED
      BY <2>1, <3>1, AdvancesMarked
  <2>3. CallEnds(f, VmExists(f), VmStopped(f), done, thrown)
    BY <1>1, <1>5, CallsEndSo DEF ResizeStopVm, thrown
  <2> HIDE DEF done
  <2>4. Advances(f, thrown, {})
    BY <1>2, <2>1
  <2>5. /\ UNCHANGED servers
        /\ \/ flow' = [flow EXCEPT ![f] = thrown]
           \/ /\ flow' = [flow EXCEPT ![f] = done]
              /\ host'[Srv(f)].vm = "stopped"
    BY <2>1, <2>3 DEF CallEnds, SameMachine
  <2> QED
    BY <1>2, <1>3, <2>2, <2>4, <2>5
<1>6. CASE ResizeChangeType(f)
  <2> DEFINE done   == Marked(f, "startVm", "machineChanged")
             effect == VmResized(f, flow[f].newType)
  <2>1. /\ flow[f].marks = {"vmStopped"} /\ h.vm = "stopped"
        /\ effect.vm = "stopped" /\ effect.type = flow[f].newType
    BY <1>1, <1>6 DEF ResizeChangeType, At, ResizeForward, VmResized, Host
  <2>2. /\ Advances(f, done, {"vmStopped", "machineChanged"})
        /\ done.at = "startVm"
    <3>1. {"vmStopped"} \union {"machineChanged"}
            = {"vmStopped", "machineChanged"}
      OBVIOUS
    <3> QED
      BY <2>1, <3>1, AdvancesMarked
  <2>3. CallEnds(f, CanResize(f), effect, done, thrown)
    BY <1>1, <1>6, CallsEndSo DEF ResizeChangeType, thrown
  <2> HIDE DEF done, effect
  <2>4. Advances(f, thrown, {"vmStopped"})
    BY <1>2, <2>1
  <2>5. /\ UNCHANGED servers
        /\ host'[Srv(f)].vm = "stopped"
        /\ \/ flow' = [flow EXCEPT ![f] = thrown]
           \/ /\ flow' = [flow EXCEPT ![f] = done]
              /\ host'[Srv(f)].type = flow[f].newType
    BY <2>1, <2>3 DEF CallEnds, SameMachine
  <2> QED
    BY <1>2, <1>3, <2>2, <2>4, <2>5
<1> QED
  BY <1>4, <1>5, <1>6

\* From the moment its VM runs again, whatever the resize still has to do.
LEMMA ResizeRunning ==
  ASSUME OnePanel, Inv, SoloInv, TypeOK', NEW f \in Flows, NEW next,
         NEW marks, flow' = [flow EXCEPT ![f] = next],
         Advances(f, next, marks), UNCHANGED servers,
         flow[f].op = "resize", flow[f].at # "ok",
         "vmStopped" \in marks, "undoFailed" \notin marks,
         \/ /\ next.at \in {"memory", "up", "persist"}
            /\ "vmStarted" \in marks /\ host'[Srv(f)].vm = "running"
            /\ host'[Srv(f)].type = flow[f].newType
            /\ next.at = "up" => MemorySet(f)'
            /\ next.at = "persist" /\ HasConn(f) => ContainerBack(f)'
         \/ /\ next.at = "undoType"
            /\ host'[Srv(f)].vm \in {"stopped", "running"}
            /\ "vmStarted" \in marks => host'[Srv(f)].vm = "running"
  PROVE  SoloInv'
<1>1. /\ flow'[f].at = next.at /\ flow'[f].newType = flow[f].newType
      /\ flow'[f].marks = marks /\ Srv(f)' = Srv(f)
      /\ servers'[Srv(f)].instanceType = Original(f)
      /\ HasConn(f)' = HasConn(f) /\ Original(f)' = Original(f)
  BY ResizeNext
<1>2. ResizeForward(f)'
  BY <1>1 DEF ResizeForward
<1>3. ResizeBack(f)'
  BY <1>1 DEF ResizeBack
<1>4. /\ next.at \notin (VmLabels \ {"persist"}) \union {"panel", "idle"}
      /\ next.at = "persist" => host'[Srv(f)].vm # "absent"
  BY DEF VmLabels
<1> QED
  BY <1>2, <1>3, <1>4, ResizeStep

LEMMA ResizeStarted ==
  ASSUME OnePanel, Inv, SoloInv, TypeOK', NEW f \in Flows,
         ResizeStartVm(f) \/ ResizeMemory(f) \/ ResizeUp(f)
  PROVE  SoloInv'
<1> DEFINE h      == host[Srv(f)]
           marks  == flow[f].marks
           thrown == Thrown(f, "undoType", "other")
<1>1. /\ flow[f].op = "resize" /\ flow[f].at # "ok"
      /\ flow[f].at \in {"startVm", "memory", "up"}
      /\ flow[f] \in Flow /\ Srv(f) \in Servers
      /\ ResizeForward(f)
      /\ h \in Host /\ Up(f) \in Host /\ VmStarted(f) \in Host
      /\ SetMemory(f, flow[f].newType) \in Host
  BY SoloFacts, FlowFacts, EffectType
     DEF ResizeStartVm, ResizeMemory, ResizeUp, At, Inv, Flow
<1>2. Advances(f, thrown, marks) /\ thrown.at = "undoType"
  BY AdvancesThrown
<1> HIDE DEF thrown
<1>3. CASE ResizeStartVm(f)
  <2> DEFINE label == IF HasConn(f) THEN "memory" ELSE "persist"
             done  == Marked(f, label, "vmStarted")
  <2>1. /\ marks = {"vmStopped", "machineChanged"} /\ h.vm = "stopped"
        /\ h.type = flow[f].newType
        /\ VmStarted(f).vm = "running" /\ VmStarted(f).type = h.type
    BY <1>1, <1>3 DEF ResizeStartVm, At, ResizeForward, VmStarted, Host
  <2>2. Advances(f, done, marks \union {"vmStarted"}) /\ done.at = label
    BY AdvancesMarked
  <2>3. CallEnds(f, VmExists(f), VmStarted(f), done, thrown)
    BY <1>1, <1>3, CallsEndSo DEF ResizeStartVm, thrown
  <2>4. /\ label \in {"memory", "persist"}
        /\ label = "persist" => ~HasConn(f)
    OBVIOUS
  <2> HIDE DEF done, label
  <2>5. /\ UNCHANGED servers
        /\ \/ /\ flow' = [flow EXCEPT ![f] = thrown]
              /\ host'[Srv(f)].vm \in {"stopped", "running"}
           \/ /\ flow' = [flow EXCEPT ![f] = done]
              /\ host'[Srv(f)].vm = "running"
              /\ host'[Srv(f)].type = flow[f].newType
    BY <2>1, <2>3 DEF CallEnds, SameMachine
  <2>6. /\ "vmStopped" \in marks /\ "undoFailed" \notin marks
        /\ "vmStarted" \notin marks
    BY <2>1
  <2>7. CASE flow' = [flow EXCEPT ![f] = thrown]
             /\ host'[Srv(f)].vm \in {"stopped", "running"}
    BY <1>1, <1>2, <2>5, <2>6, <2>7, ResizeRunning
  <2>8. CASE /\ flow' = [flow EXCEPT ![f] = done]
             /\ host'[Srv(f)].vm = "running"
             /\ host'[Srv(f)].type = flow[f].newType
    <3>1. /\ "vmStopped" \in marks \union {"vmStarted"}
          /\ "vmStarted" \in marks \union {"vmStarted"}
          /\ "undoFailed" \notin marks \union {"vmStarted"}
      BY <2>6
    <3>2. /\ done.at \in {"memory", "up", "persist"} /\ done.at # "up"
          /\ done.at = "persist" => ~HasConn(f)
      BY <2>2, <2>4
    <3> QED
      BY <1>1, <2>2, <2>5, <2>8, <3>1, <3>2, ResizeRunning
  <2> QED
    BY <2>5, <2>7, <2>8
<1>4. CASE ResizeMemory(f)
  <2> DEFINE done   == Marked(f, "up", "composeUpdated")
             lost   == Lost(Marked(f, "up", "composeUpdated"))
             effect == SetMemory(f, flow[f].newType)
  <2>1. /\ {"vmStopped", "vmStarted"} \subseteq marks
        /\ "undoFailed" \notin marks
        /\ h.vm = "running" /\ h.type = flow[f].newType
        /\ effect.vm = "running" /\ effect.type = flow[f].newType
        /\ effect.memory = flow[f].newType
    BY <1>1, <1>4 DEF ResizeMemory, At, ResizeForward, SetMemory, Host
  <2>2. /\ Advances(f, done, marks \union {"composeUpdated"})
        /\ done.at = "up"
        /\ Advances(f, lost, marks \union {"composeUpdated", "lost"})
        /\ lost.at = "up"
    BY AdvancesMarked, AdvancesLost
  <2>3. \/ CallEnds(f, HasDocker(f), effect, done, thrown)
        \/ LossEnds(f, lost)
    BY <1>1, <1>4, CallsEndSo DEF ResizeMemory, thrown
  <2> HIDE DEF done, lost, effect
  <2>4. /\ UNCHANGED servers /\ host'[Srv(f)].vm = "running"
        /\ host'[Srv(f)].type = flow[f].newType
        /\ \/ flow' = [flow EXCEPT ![f] = thrown]
           \/ /\ flow' = [flow EXCEPT ![f] = done]
              /\ host'[Srv(f)].memory = flow[f].newType
           \/ flow' = [flow EXCEPT ![f] = lost]
    BY <2>1, <2>3 DEF CallEnds, LossEnds, SameMachine
  <2>5. CASE flow' = [flow EXCEPT ![f] = thrown]
    BY <1>1, <1>2, <2>1, <2>4, <2>5, ResizeRunning
  <2>6. ASSUME NEW next, NEW newMarks, flow' = [flow EXCEPT ![f] = next],
               Advances(f, next, newMarks), next.at = "up",
               marks \subseteq newMarks, "undoFailed" \notin newMarks,
               \/ host'[Srv(f)].memory = flow[f].newType
               \/ "lost" \in newMarks
        PROVE  SoloInv'
    <3>1. /\ Srv(f)' = Srv(f) /\ flow'[f].newType = flow[f].newType
          /\ flow'[f].marks = newMarks
      <4>1. flow[f].op = "resize" /\ flow[f].at # "ok"
        BY <1>1
      <4>2. /\ flow' = [flow EXCEPT ![f] = next] /\ UNCHANGED servers
            /\ Advances(f, next, newMarks)
        BY <2>4, <2>6
      <4> QED
        BY <4>1, <4>2, ResizeNext
    <3>2. MemorySet(f)'
      BY <2>6, <3>1 DEF MemorySet, Has
    <3>3. /\ next.at \in {"memory", "up", "persist"} /\ next.at # "persist"
          /\ "vmStopped" \in newMarks /\ "vmStarted" \in newMarks
      BY <2>1, <2>6
    <3> QED
      BY <1>1, <2>4, <2>6, <3>2, <3>3, ResizeRunning
  <2>7. /\ "undoFailed" \notin marks \union {"composeUpdated"}
        /\ "undoFailed" \notin marks \union {"composeUpdated", "lost"}
        /\ "lost" \in marks \union {"composeUpdated", "lost"}
        /\ marks \subseteq marks \union {"composeUpdated"}
        /\ marks \subseteq marks \union {"composeUpdated", "lost"}
    BY <2>1
  <2>8. CASE /\ flow' = [flow EXCEPT ![f] = done]
             /\ host'[Srv(f)].memory = flow[f].newType
    BY <2>2, <2>6, <2>7, <2>8
  <2>9. CASE flow' = [flow EXCEPT ![f] = lost]
    BY <2>2, <2>6, <2>7, <2>9
  <2> QED
    BY <2>4, <2>5, <2>8, <2>9
<1>5. CASE ResizeUp(f)
  <2> DEFINE done == To(f, "persist")
             lost == Lost(To(f, "persist"))
  <2>1. /\ {"vmStopped", "vmStarted"} \subseteq marks
        /\ "undoFailed" \notin marks /\ MemorySet(f)
        /\ h.vm = "running" /\ h.type = flow[f].newType
        /\ Up(f).vm = "running" /\ Up(f).type = flow[f].newType
        /\ Up(f).container = "up" /\ Up(f).memory = h.memory
        /\ Up(f).due = h.due
    BY <1>1, <1>5 DEF ResizeUp, At, ResizeForward, Up, Host
  <2>2. /\ Advances(f, done, marks) /\ done.at = "persist"
        /\ Advances(f, lost, marks \union {"lost"}) /\ lost.at = "persist"
    BY AdvancesTo, AdvancesLost
  <2>3. \/ CallEnds(f, HasDocker(f), Up(f), done, thrown)
        \/ LossEnds(f, lost)
    BY <1>1, <1>5, CallsEndSo DEF ResizeUp, thrown
  <2> HIDE DEF done, lost
  <2>4. /\ UNCHANGED servers /\ host'[Srv(f)].vm = "running"
        /\ host'[Srv(f)].type = flow[f].newType
        /\ \/ flow' = [flow EXCEPT ![f] = thrown]
           \/ /\ flow' = [flow EXCEPT ![f] = done]
              /\ host'[Srv(f)].container = "up"
              /\ host'[Srv(f)].memory = h.memory /\ host'[Srv(f)].due = h.due
           \/ flow' = [flow EXCEPT ![f] = lost]
    BY <2>1, <2>3 DEF CallEnds, LossEnds, SameMachine
  <2>5. CASE flow' = [flow EXCEPT ![f] = thrown]
    BY <1>1, <1>2, <2>1, <2>4, <2>5, ResizeRunning
  <2>6. ASSUME NEW next, NEW newMarks, flow' = [flow EXCEPT ![f] = next],
               Advances(f, next, newMarks), next.at = "persist",
               {"vmStopped", "vmStarted"} \subseteq newMarks,
               "undoFailed" \notin newMarks,
               \/ /\ newMarks = marks /\ host'[Srv(f)].container = "up"
                  /\ host'[Srv(f)].memory = h.memory
                  /\ host'[Srv(f)].due = h.due
               \/ "lost" \in newMarks
        PROVE  SoloInv'
    <3>1. /\ Srv(f)' = Srv(f) /\ flow'[f].newType = flow[f].newType
          /\ flow'[f].marks = newMarks
      <4>1. flow[f].op = "resize" /\ flow[f].at # "ok"
        BY <1>1
      <4>2. /\ flow' = [flow EXCEPT ![f] = next] /\ UNCHANGED servers
            /\ Advances(f, next, newMarks)
        BY <2>4, <2>6
      <4> QED
        BY <4>1, <4>2, ResizeNext
    <3>2. ContainerBack(f)'
      BY <2>1, <2>6, <3>1 DEF ContainerBack, MemorySet, Has
    <3>3. /\ next.at \in {"memory", "up", "persist"} /\ next.at # "up"
          /\ "vmStopped" \in newMarks /\ "vmStarted" \in newMarks
      BY <2>6
    <3> QED
      BY <1>1, <2>4, <2>6, <3>2, <3>3, ResizeRunning
  <2>7. CASE /\ flow' = [flow EXCEPT ![f] = done]
             /\ host'[Srv(f)].container = "up"
             /\ host'[Srv(f)].memory = h.memory /\ host'[Srv(f)].due = h.due
    BY <2>1, <2>2, <2>6, <2>7
  <2>8. CASE flow' = [flow EXCEPT ![f] = lost]
    <3>1. /\ {"vmStopped", "vmStarted"} \subseteq marks \union {"lost"}
          /\ "undoFailed" \notin marks \union {"lost"}
          /\ "lost" \in marks \union {"lost"}
      BY <2>1
    <3> QED
      BY <2>2, <2>6, <2>8, <3>1
  <2> QED
    BY <2>4, <2>5, <2>7, <2>8
<1> QED
  BY <1>3, <1>4, <1>5

\* "ok" is reached only by a write that was checked, so with an address.
LEMMA ResizePersistSolo ==
  ASSUME OnePanel, Inv, SoloInv, TypeOK', NEW f \in Flows, ResizePersist(f)
  PROVE  SoloInv'
<1> DEFINE s   == Srv(f)
           row == [servers[s] EXCEPT !.instanceType = flow[f].newType]
<1>1. /\ flow[f] \in Flow /\ s \in Servers /\ servers[s] \in Row
      /\ servers \in [Servers -> Row] /\ flow \in [Flows -> Flow]
      /\ OutcomeInv(f) /\ ProgressInv(f) /\ PanelInv(f)
      /\ row \in Row /\ row.errorMessage = servers[s].errorMessage
      /\ row.instanceType = flow[f].newType
  <2>1. flow[f] \in Flow /\ servers[s] \in Row /\ flow[f].newType \in MachineTypes
    BY FlowFacts DEF Flow
  <2>2. /\ row \in Row /\ row.errorMessage = servers[s].errorMessage
        /\ row.instanceType = flow[f].newType
    BY <2>1 DEF Row
  <2> HIDE DEF row
  <2> QED
    BY <2>1, <2>2, FlowFacts, SoloFacts DEF Inv, TypeOK
<1>2. /\ flow[f].op = "resize" /\ flow[f].at = "persist"
      /\ UNCHANGED host
      /\ UpdateStatus(f, "running", row, "ok", "undoType")
      /\ ~WriteRefused(f, "undoType")
  BY NobodyContends DEF ResizePersist, At, UpdateStatus
<1>3. /\ ResizeForward(f)
      /\ "vmStopped" \in flow[f].marks /\ "vmStarted" \in flow[f].marks
      /\ "undoFailed" \notin flow[f].marks
      /\ host[s].vm = "running" /\ host[s].type = flow[f].newType
      /\ HasConn(f) => ContainerBack(f)
      /\ servers[s].instanceType = Original(f)
  BY <1>2, SoloFacts DEF ResizeForward
<1> HIDE DEF row
<1>4. ErrorOnlyAfterFailure' /\ RowSteady(f)'
  BY <1>1, <1>2, StatusRows DEF ServerStatus, StatusWrites
<1>5. CASE flow' = [flow EXCEPT ![f].checked = TRUE] /\ UNCHANGED servers
  <2>1. /\ flow'[f].at = "persist" /\ flow'[f].op = "resize"
        /\ flow'[f].marks = flow[f].marks /\ Srv(f)' = s
        /\ flow'[f].newType = flow[f].newType
        /\ HasConn(f)' = HasConn(f) /\ Original(f)' = Original(f)
    BY <1>1, <1>2, <1>5 DEF Flow, Srv, HasConn, Original
  <2>2. ContainerBack(f)' = ContainerBack(f)
    BY <1>2, <2>1 DEF ContainerBack, MemorySet, Has
  <2>3. ResizeForward(f)' /\ ResizeBack(f)'
    BY <1>2, <1>3, <1>5, <2>1, <2>2 DEF ResizeForward, ResizeBack
  <2>4. OutcomeInv(f)'
    BY <1>2, <1>3, <2>1 DEF OutcomeInv
  <2> QED
    BY <1>4, <2>3, <2>4, SoloAgain
<1>6. CASE Throw(f, "undoType", "other") /\ UNCHANGED servers
  <2> DEFINE next == Thrown(f, "undoType", "other")
  <2>1. flow' = [flow EXCEPT ![f] = next]
    BY <1>6 DEF Throw, Become
  <2>2. Advances(f, next, flow[f].marks) /\ next.at = "undoType"
    BY AdvancesThrown
  <2> HIDE DEF next
  <2>3. flow[f].at # "ok" /\ host'[s].vm = "running"
    BY <1>2, <1>3
  <2> QED
    BY <1>2, <1>3, <1>6, <2>1, <2>2, <2>3, ResizeRunning
<1>7. CASE /\ flow[f].checked /\ Goto(f, "ok")
           /\ servers' = [servers EXCEPT ![s] = [row EXCEPT !.status = "running"]]
  <2>1. /\ flow'[f].at = "ok" /\ flow'[f].op = "resize"
        /\ flow'[f].marks = flow[f].marks /\ Srv(f)' = s
        /\ flow'[f].newType = flow[f].newType
    BY <1>1, <1>2, <1>7 DEF Goto, Become, To, Flow, Srv
  <2>2. servers'[s].instanceType = flow[f].newType
    BY <1>1, <1>7 DEF Row
  <2>3. ContainerBack(f)
    BY <1>2, <1>3, <1>1, <1>7 DEF ProgressInv, HasConn
  <2>4. ContainerBack(f)'
    BY <1>2, <2>1, <2>3 DEF ContainerBack, MemorySet, Has
  <2>5. ResizeForward(f)' /\ ResizeBack(f)'
    BY <1>2, <1>3, <2>1, <2>2, <2>4 DEF ResizeForward, ResizeBack
  <2>6. OutcomeInv(f)'
    BY <2>1 DEF OutcomeInv, VmLabels
  <2> QED
    BY <1>4, <2>5, <2>6, SoloAgain
<1>8. servers[s].status # "absent"
  BY <1>1, <1>2 DEF PanelInv
<1>9. CASE ~flow[f].checked
  BY <1>2, <1>5, <1>6, <1>9 DEF UpdateStatus
<1>10. CASE flow[f].checked
  BY <1>2, <1>7, <1>8, <1>10 DEF UpdateStatus
<1> QED
  BY <1>9, <1>10

LEMMA ResizeSolo ==
  ASSUME OnePanel, Inv, SoloInv, TypeOK', NEW f \in Flows, ResizeSteps(f)
  PROVE  SoloInv'
BY ResizeStopped, ResizeStarted, ResizePersistSolo DEF ResizeSteps

LEMMA UndoSolo ==
  ASSUME OnePanel, Inv, SoloInv, TypeOK', NEW f \in Flows, NEW next,
         NEW marks, flow' = [flow EXCEPT ![f] = next],
         Advances(f, next, marks), UNCHANGED servers,
         flow[f].op = "resize", flow[f].at # "ok",
         next.at \in {"undoVm", "undoMemory", "undoUp", "undone",
                      "rolledBack", "rollbackFailed"},
         next.at = "rolledBack" => "undoFailed" \notin marks,
         "vmStopped" \in marks /\ "undoFailed" \notin marks =>
           /\ host'[Srv(f)].type = Original(f)
           /\ IF next.at = "undoVm"
              THEN host'[Srv(f)].vm = "stopped" /\ "vmStarted" \notin marks
              ELSE host'[Srv(f)].vm = "running"
  PROVE  SoloInv'
<1>1. /\ flow'[f].at = next.at /\ flow'[f].newType = flow[f].newType
      /\ flow'[f].marks = marks /\ Srv(f)' = Srv(f)
      /\ servers'[Srv(f)].instanceType = Original(f)
      /\ HasConn(f)' = HasConn(f) /\ Original(f)' = Original(f)
  BY ResizeNext
<1>2. ResizeForward(f)'
  BY <1>1 DEF ResizeForward
<1>3. ResizeBack(f)'
  BY <1>1 DEF ResizeBack
<1>4. /\ next.at \notin (VmLabels \ {"persist"}) \union {"panel", "idle"}
      /\ next.at # "persist"
  BY DEF VmLabels
<1> QED
  BY <1>2, <1>3, <1>4, ResizeStep

\* An attempt that fails is noted, and there is nothing left to promise.
LEMMA UndoFails ==
  ASSUME OnePanel, Inv, SoloInv, TypeOK', NEW f \in Flows,
         NEW label \in {"undoVm", "undoMemory", "undoUp", "undone"},
         flow' = [flow EXCEPT ![f] = Marked(f, label, "undoFailed")],
         UNCHANGED servers, flow[f].op = "resize", flow[f].at # "ok"
  PROVE  SoloInv'
<1> DEFINE next == Marked(f, label, "undoFailed")
<1>1. /\ Advances(f, next, flow[f].marks \union {"undoFailed"})
      /\ next.at = label
  BY AdvancesMarked
<1>2. flow' = [flow EXCEPT ![f] = next]
  OBVIOUS
<1> HIDE DEF next
<1>3. /\ "undoFailed" \in flow[f].marks \union {"undoFailed"}
      /\ next.at \in {"undoVm", "undoMemory", "undoUp", "undone"}
  BY <1>1
<1> QED
  BY <1>1, <1>2, <1>3, UndoSolo

LEMMA RollbackSolo ==
  ASSUME OnePanel, Inv, SoloInv, TypeOK', NEW f \in Flows, RollbackSteps(f)
  PROVE  SoloInv'
<1> DEFINE h       == host[Srv(f)]
           marks   == flow[f].marks
           hopeful == "vmStopped" \in marks /\ "undoFailed" \notin marks
<1>1. /\ flow[f].op = "resize" /\ flow[f].at # "ok" /\ ResizeBack(f)
      /\ flow[f] \in Flow /\ h \in Host
      /\ Original(f) \in MachineTypes
      /\ VmStarted(f) \in Host /\ Up(f) \in Host
      /\ VmResized(f, Original(f)) \in Host
      /\ SetMemory(f, Original(f)) \in Host
  BY SoloFacts, FlowFacts, EffectType
     DEF RollbackSteps, UndoType, UndoVm, UndoMemory, UndoDown,
         FinishRollback, At, Inv, Original, Flow, Row
<1>2. /\ VmResized(f, Original(f)).type = Original(f)
      /\ VmResized(f, Original(f)).vm = h.vm
      /\ VmStarted(f).vm = "running" /\ VmStarted(f).type = h.type
      /\ Up(f).vm = h.vm /\ Up(f).type = h.type
      /\ SetMemory(f, Original(f)).vm = h.vm
      /\ SetMemory(f, Original(f)).type = h.type
  BY <1>1 DEF VmResized, VmStarted, Up, SetMemory, Host
<1>3. ASSUME NEW label \in {"undoVm", "undoMemory", "undoUp", "undone"},
             flow' = [flow EXCEPT ![f] = Marked(f, label, "undoFailed")],
             UNCHANGED servers
      PROVE  SoloInv'
  BY <1>1, <1>3, UndoFails
<1>4. ASSUME NEW label \in {"undoVm", "undoMemory", "undoUp", "undone",
                            "rolledBack", "rollbackFailed"},
             flow' = [flow EXCEPT ![f] = To(f, label)],
             UNCHANGED servers,
             label = "rolledBack" => "undoFailed" \notin marks,
             hopeful => /\ host'[Srv(f)].type = Original(f)
                        /\ IF label = "undoVm"
                           THEN /\ host'[Srv(f)].vm = "stopped"
                                /\ "vmStarted" \notin marks
                           ELSE host'[Srv(f)].vm = "running"
      PROVE  SoloInv'
  <2> DEFINE next == To(f, label)
  <2>1. /\ flow' = [flow EXCEPT ![f] = next] /\ UNCHANGED servers
        /\ Advances(f, next, marks) /\ next.at = label
    BY <1>4, AdvancesTo
  <2> HIDE DEF next
  <2>2. /\ next.at \in {"undoVm", "undoMemory", "undoUp", "undone",
                       "rolledBack", "rollbackFailed"}
        /\ next.at = "rolledBack" => "undoFailed" \notin marks
    BY <1>4, <2>1
  <2>3. hopeful => /\ host'[Srv(f)].type = Original(f)
                   /\ IF next.at = "undoVm"
                      THEN /\ host'[Srv(f)].vm = "stopped"
                           /\ "vmStarted" \notin marks
                      ELSE host'[Srv(f)].vm = "running"
    BY <1>4, <2>1
  <2> QED
    BY <1>1, <2>1, <2>2, <2>3, UndoSolo
<1>5. ASSUME NEW label, Skip(f, label)
      PROVE  /\ flow' = [flow EXCEPT ![f] = To(f, label)]
             /\ UNCHANGED <<servers, host>>
  BY <1>5 DEF Skip, Goto, Become
<1>6. CASE UndoType(f)
  <2>1. /\ "undoFailed" \notin marks
        /\ "vmStarted" \in marks => h.vm = "running"
    BY <1>1, <1>6 DEF UndoType, At, ResizeBack
  <2>2. CASE Skip(f, "undoVm") /\ "vmStopped" \notin marks
    BY <1>4, <1>5, <2>2
  <2>3. CASE RemoteCall(f, CanResize(f), VmResized(f, Original(f)),
                        To(f, "undoVm"), Marked(f, "undoVm", "undoFailed"))
    <3> DEFINE effect == VmResized(f, Original(f))
               done   == To(f, "undoVm")
               thrown == Marked(f, "undoVm", "undoFailed")
    <3>1. CallEnds(f, CanResize(f), effect, done, thrown)
      BY <1>1, <2>3, CallsEndSo
    <3> HIDE DEF effect
    <3>2. CASE flow' = [flow EXCEPT ![f] = thrown]
      BY <1>3, <3>1, <3>2 DEF CallEnds
    <3>3. CASE /\ CanResize(f) /\ flow' = [flow EXCEPT ![f] = done]
               /\ SameMachine(host'[Srv(f)], effect)
      <4>1. h.vm = "stopped"
        BY <3>3 DEF CanResize
      <4>2. /\ host'[Srv(f)].type = Original(f)
            /\ host'[Srv(f)].vm = "stopped"
        BY <1>2, <3>3, <4>1 DEF SameMachine, effect
      <4>3. "vmStarted" \notin marks /\ UNCHANGED servers
        BY <2>1, <3>1, <4>1 DEF CallEnds
      <4> QED
        BY <1>4, <3>3, <4>2, <4>3
    <3> QED
      BY <3>1, <3>2, <3>3 DEF CallEnds
  <2> QED
    BY <1>6, <2>2, <2>3 DEF UndoType, Undo, Has
<1>7. CASE UndoVm(f)
  <2>1. hopeful => /\ h.vm = "stopped" /\ h.type = Original(f)
                   /\ "vmStarted" \notin marks
    BY <1>1, <1>7 DEF UndoVm, At, ResizeBack
  <2>2. CASE /\ Skip(f, "undoMemory")
             /\ ~("vmStopped" \in marks /\ "vmStarted" \notin marks)
    BY <1>4, <1>5, <2>1, <2>2
  <2>3. CASE RemoteCall(f, VmExists(f), VmStarted(f), To(f, "undoMemory"),
                        Marked(f, "undoMemory", "undoFailed"))
    <3> DEFINE done   == To(f, "undoMemory")
               thrown == Marked(f, "undoMemory", "undoFailed")
    <3>1. CallEnds(f, VmExists(f), VmStarted(f), done, thrown)
      BY <1>1, <2>3, CallsEndSo
    <3>2. CASE flow' = [flow EXCEPT ![f] = thrown]
      BY <1>3, <3>1, <3>2 DEF CallEnds
    <3>3. CASE /\ flow' = [flow EXCEPT ![f] = done]
               /\ SameMachine(host'[Srv(f)], VmStarted(f))
      <4>1. /\ host'[Srv(f)].type = h.type
            /\ host'[Srv(f)].vm = "running" /\ UNCHANGED servers
        BY <1>2, <3>1, <3>3 DEF SameMachine, CallEnds
      <4> QED
        BY <1>4, <2>1, <3>3, <4>1
    <3> QED
      BY <3>1, <3>2, <3>3 DEF CallEnds
  <2> QED
    BY <1>7, <2>2, <2>3 DEF UndoVm, Undo, Has
<1>8. ASSUME NEW label \in {"undoUp", "undone"}, NEW needed, NEW effect \in Host,
             UndoOverSsh(f, needed, HasDocker(f), effect, label),
             effect.vm = h.vm, effect.type = h.type,
             hopeful => h.vm = "running" /\ h.type = Original(f)
      PROVE  SoloInv'
  <2>1. CASE Skip(f, label)
    BY <1>4, <1>5, <1>8, <2>1
  <2>2. CASE \/ SshCall(f, HasDocker(f), effect, To(f, label),
                        Marked(f, label, "undoFailed"))
             \/ SilentLoss(f, To(f, label))
    <3> DEFINE done   == To(f, label)
               thrown == Marked(f, label, "undoFailed")
    <3>1. \/ CallEnds(f, HasDocker(f), effect, done, thrown)
          \/ LossEnds(f, done)
      BY <1>8, <2>2, CallsEndSo
    <3>2. /\ host'[Srv(f)].vm = h.vm /\ host'[Srv(f)].type = h.type
          /\ UNCHANGED servers
          /\ \/ flow' = [flow EXCEPT ![f] = done]
             \/ flow' = [flow EXCEPT ![f] = thrown]
      BY <1>8, <3>1 DEF CallEnds, LossEnds, SameMachine
    <3>3. CASE flow' = [flow EXCEPT ![f] = thrown]
      BY <1>3, <1>8, <3>2, <3>3
    <3>4. CASE flow' = [flow EXCEPT ![f] = done]
      BY <1>4, <1>8, <3>2, <3>4
    <3> QED
      BY <3>2, <3>3, <3>4
  <2> QED
    BY <1>8, <2>1, <2>2 DEF UndoOverSsh
<1>9. CASE UndoMemory(f) \/ UndoDown(f)
  <2>1. hopeful => h.vm = "running" /\ h.type = Original(f)
    BY <1>1, <1>9 DEF UndoMemory, UndoDown, At, ResizeBack
  <2> QED
    BY <1>1, <1>2, <1>8, <1>9, <2>1 DEF UndoMemory, UndoDown
<1>10. CASE FinishRollback(f)
  <2> DEFINE label == IF "undoFailed" \in marks THEN "rollbackFailed"
                      ELSE "rolledBack"
  <2>1. /\ hopeful => h.vm = "running" /\ h.type = Original(f)
        /\ Skip(f, label)
    BY <1>1, <1>10 DEF FinishRollback, At, ResizeBack, Has
  <2>2. /\ label \in {"rolledBack", "rollbackFailed"}
        /\ label = "rolledBack" => "undoFailed" \notin marks
    OBVIOUS
  <2> HIDE DEF label
  <2> QED
    BY <1>4, <1>5, <2>1, <2>2
<1> QED
  BY <1>6, <1>7, <1>9, <1>10 DEF RollbackSteps

-----------------------------------------------------------------------------
(* What the user and the cloud do.                                         *)

\* The panel becomes something else, and no row is written.
LEMMA PanelSolo ==
  ASSUME OnePanel, Inv, SoloInv, TypeOK', NEW f \in Flows, NEW next,
         flow' = [flow EXCEPT ![f] = next], UNCHANGED servers,
         ~next.checked, next.at \notin VmLabels,
         next.shown.status = "failed" =>
           servers[next.srv].status \in {"failed", "archived"},
         next.op = "archive" =>
           next.at \notin {"listTasks", "disableTasks", "ok"},
         next.at = "panel" => next.marks = {},
         next.op = "resize" =>
           /\ next.at = "down" /\ next.marks = {}
           /\ servers[next.srv].instanceType = next.server.instanceType
  PROVE  SoloInv'
<1>1. flow'[f] = next /\ Srv(f)' = next.srv
  BY DEF Inv, TypeOK, Srv
<1>2. ErrorOnlyAfterFailure'
  BY DEF SoloInv, ErrorOnlyAfterFailure
<1>3. RowSteady(f)'
  BY <1>1 DEF RowSteady
<1>4. OutcomeInv(f)'
  BY <1>1 DEF OutcomeInv
<1>5. (flow[f].op = "resize")' => ResizeForward(f)' /\ ResizeBack(f)'
  <2> SUFFICES ASSUME next.op = "resize"
               PROVE  ResizeForward(f)' /\ ResizeBack(f)'
    BY <1>1
  <2>1. /\ flow'[f].at = "down" /\ flow'[f].marks = {}
        /\ servers'[next.srv].instanceType = Original(f)'
    BY <1>1 DEF Original
  <2>2. ResizeForward(f)'
    BY <1>1, <2>1 DEF ResizeForward
  <2>3. ResizeBack(f)'
    BY <1>1, <2>1 DEF ResizeBack
  <2> QED
    BY <2>2, <2>3
<1> QED
  BY <1>2, <1>3, <1>4, <1>5, SoloAgain

LEMMA BeginDeploySolo ==
  ASSUME OnePanel, Inv, SoloInv, TypeOK', NEW f \in Flows, NEW name \in Names,
         NEW type \in MachineTypes, BeginDeploy(f, name, type),
         flow[f].at \in {"idle", "panel"}
  PROVE  SoloInv'
<1>1. /\ flow[f] \in Flow /\ RowSteady(f) /\ ErrorOnlyAfterFailure
      /\ servers \in [Servers -> Row] /\ flow \in [Flows -> Flow]
      /\ UNCHANGED <<host, tasks>>
  BY FlowFacts, SoloFacts DEF BeginDeploy, Inv, TypeOK
<1>2. CASE /\ flow' = [flow EXCEPT ![f] =
                        [@ EXCEPT !.op = "deploy", !.at = "error"]]
           /\ UNCHANGED servers
  <2> DEFINE next == [flow[f] EXCEPT !.op = "deploy", !.at = "error"]
  <2>1. /\ flow' = [flow EXCEPT ![f] = next]
        /\ next.op = "deploy" /\ next.at = "error" /\ next.srv = flow[f].srv
        /\ next.shown = flow[f].shown /\ next.checked = flow[f].checked
    BY <1>1, <1>2 DEF Flow
  <2> HIDE DEF next
  <2>2. ~next.checked
    BY <1>1, <2>1 DEF RowSteady, StatusWrites
  <2>3. next.shown.status = "failed" =>
          servers[next.srv].status \in {"failed", "archived"}
    BY <1>1, <2>1 DEF RowSteady, Srv
  <2> QED
    BY <1>2, <2>1, <2>2, <2>3, PanelSolo DEF VmLabels
<1>3. ASSUME NEW s \in Servers, servers[s].status = "absent",
             servers' = [servers EXCEPT ![s] =
               [NoRow EXCEPT !.name = name, !.status = "provisioning",
                             !.instanceType = type]],
             flow' = [flow EXCEPT ![f] =
               [IdleFlow EXCEPT !.op = "deploy", !.at = "bucket",
                                !.srv = s, !.newType = type]]
      PROVE  SoloInv'
  <2>1. /\ flow'[f].op = "deploy" /\ flow'[f].at = "bucket"
        /\ flow'[f].shown = NoRow /\ ~flow'[f].checked
    BY <1>1, <1>3 DEF IdleFlow
  <2>2. /\ servers'[s].status = "provisioning"
        /\ servers'[s].errorMessage = "none"
        /\ \A t \in Servers : t # s => servers'[t] = servers[t]
    BY <1>1, <1>3 DEF NoRow
  <2>3. ErrorOnlyAfterFailure'
    BY <1>1, <2>2 DEF ErrorOnlyAfterFailure
  <2>4. RowSteady(f)'
    BY <2>1, IdleFlowFacts DEF RowSteady
  <2>5. OutcomeInv(f)'
    BY <2>1 DEF OutcomeInv, VmLabels
  <2> QED
    BY <2>1, <2>3, <2>4, <2>5, SoloAgain
<1> QED
  BY <1>2, <1>3 DEF BeginDeploy

LEMMA SelectSolo ==
  ASSUME OnePanel, Inv, SoloInv, TypeOK', NEW f \in Flows, NEW op,
         Select(f, op)
  PROVE  SoloInv'
<1>1. PICK type, file :
        flow' = [flow EXCEPT ![f] =
                  [@ EXCEPT !.op = op, !.at = FirstAwait(op, servers[Srv(f)]),
                            !.server = servers[Srv(f)],
                            !.newType = type, !.file = file]]
  BY DEF Select
<1> DEFINE label == FirstAwait(op, servers[Srv(f)])
           next  == [flow[f] EXCEPT !.op = op, !.at = label,
                                    !.server = servers[Srv(f)],
                                    !.newType = type, !.file = file]
<1>2. flow' = [flow EXCEPT ![f] = next]
  BY <1>1
<1>3. /\ next.op = op /\ next.at = label /\ next.srv = flow[f].srv
      /\ next.shown = flow[f].shown /\ next.server = servers[Srv(f)]
      /\ next.checked = flow[f].checked /\ next.marks = flow[f].marks
  BY FlowFacts DEF Flow
<1>4. op \in {"backup", "restore", "stop", "update", "resize",
              "archive", "quickRestart", "start"}
  BY OfferedFits DEF Select
<1>5. /\ label \in {"tar", "stop", "down", "save", "up", "error"}
      /\ op = "resize" => label = "down"
  BY <1>4 DEF FirstAwait
<1>6. UNCHANGED servers /\ flow[f].at = "panel"
  BY DEF Select
<1> HIDE DEF label, next
<1>7. /\ ~flow[f].checked /\ flow[f].marks = {}
      /\ flow[f].shown.status = "failed" =>
           servers[flow[f].srv].status \in {"failed", "archived"}
  BY <1>6, SoloFacts DEF RowSteady, OutcomeInv, StatusWrites, Srv
<1>8. next.at \notin VmLabels \union {"panel", "listTasks", "disableTasks", "ok"}
  BY <1>3, <1>5 DEF VmLabels
<1> QED
  BY <1>2, <1>3, <1>5, <1>6, <1>7, <1>8, PanelSolo DEF Srv

LEMMA BeginRecoverySolo ==
  ASSUME OnePanel, Inv, SoloInv, TypeOK', NEW f \in Flows, BeginRecovery(f)
  PROVE  SoloInv'
<1>1. PICK start \in RecoveryStart :
        flow' = [flow EXCEPT ![f] =
                  [@ EXCEPT !.op = start[1], !.at = start[2],
                            !.server = flow[f].shown]]
  BY DEF BeginRecovery
<1> DEFINE next == [flow[f] EXCEPT !.op = start[1], !.at = start[2],
                                   !.server = flow[f].shown]
<1>2. flow' = [flow EXCEPT ![f] = next]
  BY <1>1
<1>3. /\ next.op = start[1] /\ next.at = start[2] /\ next.srv = flow[f].srv
      /\ next.shown = flow[f].shown /\ next.checked = flow[f].checked
  BY FlowFacts DEF Flow
<1>4. /\ start[1] \notin {"resize", "archive"}
      /\ start[2] \notin VmLabels \union {"panel"}
  BY DEF RecoveryStart, VmLabels
<1>5. UNCHANGED servers /\ flow[f].at = "panel"
  BY DEF BeginRecovery
<1> HIDE DEF next
<1>6. /\ ~flow[f].checked
      /\ flow[f].shown.status = "failed" =>
           servers[flow[f].srv].status \in {"failed", "archived"}
  BY <1>5, SoloFacts DEF RowSteady, StatusWrites, Srv
<1> QED
  BY <1>2, <1>3, <1>4, <1>5, <1>6, PanelSolo

LEMMA PanelsSolo ==
  ASSUME OnePanel, Inv, SoloInv, TypeOK', NEW f \in Flows,
         \/ \E s \in Servers : OpenPanel(f, s)
         \/ ClosePanel(f) \/ Dismiss(f)
  PROVE  SoloInv'
<1>1. ASSUME NEW srv, NEW shown,
             flow' = [flow EXCEPT ![f] =
                       [IdleFlow EXCEPT !.at = "panel", !.srv = srv,
                                        !.shown = shown]],
             UNCHANGED servers,
             shown.status = "failed" =>
               servers[srv].status \in {"failed", "archived"}
      PROVE  SoloInv'
  <2> DEFINE next == [IdleFlow EXCEPT !.at = "panel", !.srv = srv,
                                      !.shown = shown]
  <2>1. /\ next.at = "panel" /\ next.op = "none" /\ next.srv = srv
        /\ next.shown = shown /\ ~next.checked /\ next.marks = {}
    BY DEF IdleFlow
  <2>2. flow' = [flow EXCEPT ![f] = next]
    BY <1>1
  <2> HIDE DEF next
  <2>3. next.at \notin VmLabels
    BY <2>1 DEF VmLabels
  <2> QED
    BY <1>1, <2>1, <2>2, <2>3, PanelSolo
<1>2. CASE flow' = [flow EXCEPT ![f] = IdleFlow] /\ UNCHANGED servers
  <2>1. /\ IdleFlow.at = "idle" /\ IdleFlow.op = "none" /\ ~IdleFlow.checked
        /\ IdleFlow.shown.status # "failed"
    BY DEF IdleFlow, NoRow
  <2>2. IdleFlow.at \notin VmLabels
    BY <2>1 DEF VmLabels
  <2> QED
    BY <1>2, <2>1, <2>2, PanelSolo
<1>3. CASE \E s \in Servers : OpenPanel(f, s)
  BY <1>1, <1>3 DEF OpenPanel
<1>4. CASE Dismiss(f)
  <2>1. flow[f].shown.status = "failed" =>
          servers[flow[f].srv].status \in {"failed", "archived"}
    BY SoloFacts DEF RowSteady, Srv
  <2> QED
    BY <1>1, <1>2, <1>4, <2>1 DEF Dismiss
<1> QED
  BY <1>2, <1>3, <1>4 DEF ClosePanel

\* What becomes of a machine that nobody works on.
Drifts(s) ==
  /\ host'[s].type = host[s].type
  /\ host'[s].due => host[s].due /\ host'[s].memory = host[s].memory
  /\ host[s].container = "up" => host'[s].container = "up"
  /\ \/ host'[s].vm = host[s].vm
     \/ host[s].vm = "staging" /\ host'[s].vm = "running"

LEMMA DriftSolo ==
  ASSUME SoloInv, UNCHANGED <<servers, tasks, flow>>,
         \A s \in Servers : Drifts(s), TypeOK
  PROVE  SoloInv'
<1>1. ErrorOnlyAfterFailure'
  BY DEF SoloInv, ErrorOnlyAfterFailure
<1>2. ASSUME NEW f \in Flows
      PROVE  SoloFlowInv(f)'
  <2> DEFINE s == Srv(f)
  <2>1. /\ RowSteady(f) /\ OutcomeInv(f) /\ s \in Servers /\ Srv(f)' = s
        /\ Drifts(s)
    BY SoloFacts DEF Srv, TypeOK, Flow
  <2>2. RowSteady(f)'
    BY <2>1 DEF RowSteady
  <2>3. OutcomeInv(f)'
    BY <2>1 DEF OutcomeInv, Drifts
  <2>4. ASSUME flow[f].op = "resize"
        PROVE  ResizeForward(f)' /\ ResizeBack(f)'
    <3>1. ResizeForward(f) /\ ResizeBack(f)
      BY <2>4, SoloFacts
    <3>2. MemorySet(f) => MemorySet(f)'
      BY <2>1 DEF MemorySet, Drifts, Has
    <3>3. ContainerBack(f) => ContainerBack(f)'
      BY <2>1, <3>2 DEF ContainerBack, Drifts, Has
    <3>4. HasConn(f)' = HasConn(f) /\ Original(f)' = Original(f)
      BY DEF HasConn, Original
    <3>5. ResizeForward(f)'
      BY <2>1, <3>1, <3>2, <3>3, <3>4 DEF ResizeForward, Drifts
    <3>6. ResizeBack(f)'
      BY <2>1, <3>1, <3>4 DEF ResizeBack, Drifts
    <3> QED
      BY <3>5, <3>6
  <2> QED
    BY <2>2, <2>3, <2>4 DEF SoloFlowInv
<1> QED
  BY <1>1, <1>2 DEF SoloInv

LEMMA UserSolo ==
  ASSUME OnePanel, Inv, SoloInv, TypeOK', NEW f \in Flows, UserSteps(f)
  PROVE  SoloInv'
<1>1. flow[f] \in Flow /\ host \in [Servers -> Host]
  BY FlowFacts DEF Inv, TypeOK
<1>2. CASE \E op \in Ops \ {"deploy", "retryDeploy"} : Select(f, op)
  BY <1>2, SelectSolo
<1>3. CASE Deploy(f) \/ RetryDeploy(f)
  <2>1. flow[f].shown.name \in Names /\ flow[f].shown.instanceType \in MachineTypes
    BY <1>1 DEF Flow, Row
  <2> QED
    BY <1>3, <2>1, PlatformAssumption, BeginDeploySolo DEF Deploy, RetryDeploy
<1>4. CASE \E t \in Tasks : AddTask(f, t)
  <2>1. UNCHANGED <<servers, host, flow, faults>> /\ flow[f].at = "panel"
    BY <1>4 DEF AddTask
  <2>2. /\ ErrorOnlyAfterFailure /\ RowSteady(f) /\ OutcomeInv(f)
        /\ flow[f].op = "resize" => ResizeForward(f) /\ ResizeBack(f)
    BY SoloFacts
  <2>3. ErrorOnlyAfterFailure' /\ RowSteady(f)'
    BY <2>1, <2>2 DEF ErrorOnlyAfterFailure, RowSteady, Srv
  <2>4. OutcomeInv(f)'
    BY <2>1, <2>2 DEF OutcomeInv, Srv, VmLabels
  <2>5. (flow[f].op = "resize")' => ResizeForward(f)' /\ ResizeBack(f)'
    BY <2>1, <2>2 DEF ResizeForward, ResizeBack, MemorySet, ContainerBack,
       HasConn, Original, Srv, Has
  <2> QED
    BY <2>3, <2>4, <2>5, SoloAgain
<1>5. ASSUME UNCHANGED <<servers, tasks, flow>>,
             \A s \in Servers : host'[s] \in {host[s], [host[s] EXCEPT !.ssh = "live"]}
      PROVE  SoloInv'
  <2>1. \A s \in Servers : Drifts(s)
    BY <1>1, <1>5 DEF Drifts, Host
  <2> QED
    BY <1>5, <2>1, DriftSolo DEF Inv
<1>6. CASE WatchStats(f)
  BY <1>1, <1>5, <1>6 DEF WatchStats
<1>7. CASE MountPlayers(f)
  BY <1>5, <1>7 DEF MountPlayers
<1> QED
  BY <1>2, <1>3, <1>4, <1>6, <1>7, PanelsSolo, BeginRecoverySolo DEF UserSteps

LEMMA CloudSolo ==
  ASSUME Inv, SoloInv, CloudSteps \/ UnmountPlayers \/ UNCHANGED vars
  PROVE  SoloInv'
<1>1. host \in [Servers -> Host] /\ TypeOK
  BY DEF Inv, TypeOK
<1>2. ASSUME UNCHANGED <<servers, tasks, flow, host>>
      PROVE  SoloInv'
  <2>1. \A s \in Servers : Drifts(s)
    BY <1>2 DEF Drifts
  <2> QED
    BY <1>1, <1>2, <2>1, DriftSolo
<1>3. ASSUME NEW s \in Servers,
             UNCHANGED <<servers, tasks, flow>>,
             NEW h, host' = [host EXCEPT ![s] = h], h.type = host[s].type,
             h.due => host[s].due /\ h.memory = host[s].memory,
             host[s].container = "up" => h.container = "up",
             \/ h.vm = host[s].vm
             \/ host[s].vm = "staging" /\ h.vm = "running"
      PROVE  SoloInv'
  <2>1. \A t \in Servers : Drifts(t)
    BY <1>1, <1>3 DEF Drifts
  <2> QED
    BY <1>1, <1>3, <2>1, DriftSolo
<1>4. ASSUME NEW s \in Servers,
             \/ VmBoots(s) \/ CloudInitRuns(s) \/ DockerRestarts(s)
             \/ LineDrops(s) \/ DialEnds(s)
      PROVE  SoloInv'
  <2>1. host[s] \in Host
    BY <1>1
  <2>2. CASE VmBoots(s)
    <3> DEFINE h == [host[s] EXCEPT !.vm = "running"]
    <3>1. /\ h.type = host[s].type /\ h.due = host[s].due
          /\ h.memory = host[s].memory /\ h.container = host[s].container
          /\ h.vm = "running"
      BY <2>1 DEF Host
    <3>2. host' = [host EXCEPT ![s] = h] /\ host[s].vm = "staging"
      BY <2>2 DEF VmBoots
    <3> HIDE DEF h
    <3>3. /\ h.due => host[s].due /\ h.memory = host[s].memory
          /\ host[s].container = "up" => h.container = "up"
          /\ UNCHANGED <<servers, tasks, flow>>
      BY <2>2, <3>1 DEF VmBoots
    <3> QED
      BY <1>3, <3>1, <3>2, <3>3
  <2>3. CASE CloudInitRuns(s)
    <3> DEFINE h == Bootstrapped(host[s])
    <3>1. /\ h.type = host[s].type /\ ~h.due /\ h.container = "up"
          /\ h.vm = host[s].vm
      BY <2>1 DEF Host, Bootstrapped
    <3>2. host' = [host EXCEPT ![s] = h]
      BY <2>3 DEF CloudInitRuns
    <3> HIDE DEF h
    <3> QED
      BY <1>3, <2>3, <3>1, <3>2 DEF CloudInitRuns
  <2>4. CASE DockerRestarts(s)
    <3> DEFINE h == [host[s] EXCEPT !.container = "up"]
    <3>1. /\ h.type = host[s].type /\ h.due = host[s].due
          /\ h.memory = host[s].memory /\ h.container = "up"
          /\ h.vm = host[s].vm
      BY <2>1 DEF Host
    <3>2. host' = [host EXCEPT ![s] = h]
      BY <2>4 DEF DockerRestarts
    <3> HIDE DEF h
    <3>3. /\ h.due => host[s].due /\ h.memory = host[s].memory
          /\ host[s].container = "up" => h.container = "up"
          /\ UNCHANGED <<servers, tasks, flow>>
      BY <2>4, <3>1 DEF DockerRestarts
    <3> QED
      BY <1>3, <3>1, <3>2, <3>3
  <2>5. CASE LineDrops(s)
    <3> DEFINE h == HangUp(host[s])
    <3>1. /\ h.type = host[s].type /\ h.due = host[s].due
          /\ h.memory = host[s].memory /\ h.container = host[s].container
          /\ h.vm = host[s].vm
      BY <2>1 DEF Host, HangUp
    <3>2. host' = [host EXCEPT ![s] = h]
      BY <2>5 DEF LineDrops
    <3> HIDE DEF h
    <3> QED
      BY <1>3, <2>5, <3>1, <3>2 DEF LineDrops
  <2>6. CASE DialEnds(s)
    BY <1>2, <2>6 DEF DialEnds
  <2> QED
    BY <1>4, <2>2, <2>3, <2>4, <2>5, <2>6
<1> QED
  BY <1>2, <1>4 DEF CloudSteps, UnmountPlayers, vars

\* An idle panel promises nothing.
LEMMA IdleLabels ==
  /\ IdleFlow.at = "idle" /\ IdleFlow.op = "none" /\ ~IdleFlow.checked
  /\ IdleFlow.shown.status = "absent"
BY DEF IdleFlow, NoRow

LEMMA IdleSolo ==
  ASSUME NEW f \in Flows, flow[f] = IdleFlow
  PROVE  SoloFlowInv(f)
BY IdleLabels DEF SoloFlowInv, RowSteady, OutcomeInv, VmLabels

LEMMA ExitSolo ==
  ASSUME SoloInv, Exit
  PROVE  SoloInv'
<1>1. UNCHANGED servers /\ \A f \in Flows : flow'[f] = IdleFlow
  BY DEF Exit
<1>2. ErrorOnlyAfterFailure'
  BY <1>1 DEF SoloInv, ErrorOnlyAfterFailure
<1>3. ASSUME NEW f \in Flows
      PROVE  SoloFlowInv(f)'
  <2>1. flow'[f] = IdleFlow
    BY <1>1
  <2> QED
    BY <2>1, IdleLabels DEF SoloFlowInv, RowSteady, OutcomeInv, VmLabels
<1> QED
  BY <1>2, <1>3 DEF SoloInv

LEMMA InitSolo == PlatformInit => SoloInv
<1> SUFFICES ASSUME PlatformInit
             PROVE  SoloInv
  OBVIOUS
<1>1. ErrorOnlyAfterFailure
  BY IdleFlowFacts DEF PlatformInit, ErrorOnlyAfterFailure
<1>2. \A f \in Flows : SoloFlowInv(f)
  BY IdleSolo DEF PlatformInit
<1> QED
  BY <1>1, <1>2 DEF SoloInv

LEMMA NextSolo ==
  ASSUME OnePanel, Inv, SoloInv, [Next]_vars
  PROVE  SoloInv'
<1>1. TypeOK'
  BY NextType DEF Inv
<1>2. ASSUME NEW f \in Flows, ServiceSteps(f)
      PROVE  SoloInv'
  BY <1>1, <1>2, DeploySolo, StartStopSolo, ResizeSolo, RollbackSolo,
     BackupSolo, UpdateFlowSolo, ArchiveSolo, RecoverySolo
     DEF ServiceSteps, DeployServiceSteps
<1> QED
  BY <1>1, <1>2, UserSolo, CloudSolo, ExitSolo DEF Next

\* A panel that nobody interferes with can rely on what it has checked, seen
\* and achieved, however its process and the cloud behave.
THEOREM SoloInvCorrect == ASSUME OnePanel PROVE Spec => []SoloInv
<1>1. PlatformInit => SoloInv
  BY InitSolo
<1>2. Inv /\ SoloInv /\ [Next]_vars => SoloInv'
  BY NextSolo
<1> QED
  BY <1>1, <1>2, InvCorrect, PTL DEF Spec

\* No operation that succeeds leaves an error message on the row of a server
\* that runs: a checked write leaves a failed server only for "archived".
THEOREM ErrorOnlyAfterFailureAlone ==
  ASSUME OnePanel PROVE Spec => []ErrorOnlyAfterFailure
<1>1. SoloInv => ErrorOnlyAfterFailure
  BY DEF SoloInv
<1> QED
  BY <1>1, SoloInvCorrect, PTL

\* changeInstanceType returns with the VM and the row as promised, and unless
\* a command of its own was lost, with the container and, until the startup
\* script runs, with the memory; a rollback that reports success has made the
\* VM run again as the row says.
THEOREM ResizeOutcomeAlone ==
  ASSUME OnePanel PROVE Spec => []ResizeOutcome
<1>1. Inv /\ SoloInv => ResizeOutcome
  <2> SUFFICES ASSUME Inv, SoloInv, NEW f \in Flows
               PROVE  /\ At(f, "resize", "ok") =>
                           /\ host[Srv(f)].type = flow[f].newType
                           /\ host[Srv(f)].vm = "running"
                           /\ servers[Srv(f)].instanceType = flow[f].newType
                           /\ ContainerBack(f)
                      /\ At(f, "resize", "rolledBack") /\ Has(f, "vmStopped") =>
                           /\ host[Srv(f)].vm = "running"
                           /\ host[Srv(f)].type = servers[Srv(f)].instanceType
    BY DEF ResizeOutcome, ContainerBack, MemorySet
  <2>1. flow[f].op = "resize" => ResizeForward(f) /\ ResizeBack(f)
    BY SoloFacts
  <2> QED
    BY <2>1 DEF At, Has, ResizeForward, ResizeBack
<1> QED
  BY <1>1, InvCorrect, SoloInvCorrect, PTL

\* archive returns with nothing left of the server but its archived row.
THEOREM ArchiveOutcomeAlone ==
  ASSUME OnePanel PROVE Spec => []ArchiveOutcome
<1>1. SoloInv => ArchiveOutcome
  BY DEF SoloInv, SoloFlowInv, OutcomeInv, ArchiveOutcome, At
<1> QED
  BY <1>1, SoloInvCorrect, PTL

-----------------------------------------------------------------------------
(* Every step of ServerLifecycle is a step of ServerContract or a stutter. *)

ContractStep == Contract!Next \/ UNCHANGED Contract!cvars

LEMMA OneOfTheContract ==
  ASSUME NEW s \in Servers,
         \/ Contract!Register(s) \/ Contract!Build(s) \/ Contract!Save(s)
         \/ Contract!Destroy(s)
         \/ \E to \in Contract!ServerStatus : Contract!Move(s, to)
  PROVE  ContractStep
<1>1. \E t \in Servers :
        \/ Contract!Register(t) \/ Contract!Build(t) \/ Contract!Save(t)
        \/ Contract!Destroy(t)
        \/ \E to \in Contract!ServerStatus : Contract!Move(t, to)
  OBVIOUS
<1> QED
  BY <1>1, Zenon DEF ContractStep, Contract!Next

StatusesStay == \A s \in Servers : servers'[s].status = servers[s].status

LEMMA ContractStutters ==
  ASSUME SameVmsExist, StatusesStay,
         \A s \in Servers : Downloaded(s)' = Downloaded(s)
  PROVE  ContractStep
<1>1. [s \in Servers |-> servers'[s].status]
        = [s \in Servers |-> servers[s].status]
  BY DEF StatusesStay
<1>2. [s \in Servers |-> host'[s].vm # "absent"]
        = [s \in Servers |-> host[s].vm # "absent"]
  BY DEF SameVmsExist
<1>3. [s \in Servers |-> Downloaded(s)'] = [s \in Servers |-> Downloaded(s)]
  OBVIOUS
<1> QED
  BY <1>1, <1>2, <1>3 DEF ContractStep, Contract!cvars

\* A step of the lifecycle that writes no status, loads down nothing and
\* neither creates nor takes away a VM.
LEMMA QuietlyStutters ==
  ASSUME SameVmsExist, UNCHANGED <<servers, backups>>
  PROVE  ContractStep
<1>1. StatusesStay /\ \A s \in Servers : Downloaded(s)' = Downloaded(s)
  BY DEF StatusesStay, Downloaded
<1> QED
  BY <1>1, ContractStutters

LEMMA StatusMoves ==
  ASSUME NEW s \in Servers, NEW to \in ServerStatus, NEW row,
         servers \in [Servers -> Row],
         servers' = [servers EXCEPT ![s] = row], row.status = to,
         UNCHANGED <<host, backups>>,
         IsValidStatusTransition(servers[s].status, to),
         to = "running" => host[s].vm # "absent",
         to = "archived" => Downloaded(s) /\ host[s].vm = "absent"
  PROVE  ContractStep
<1> DEFINE status == [t \in Servers |-> servers[t].status]
           infra  == [t \in Servers |-> host[t].vm # "absent"]
           saved  == [t \in Servers |-> Downloaded(t)]
<1>1. status' = [status EXCEPT ![s] = to]
  OBVIOUS
<1>2. UNCHANGED <<infra, saved>>
  BY DEF Downloaded
<1>3. /\ status[s] = servers[s].status
      /\ infra[s] <=> host[s].vm # "absent"
      /\ saved[s] <=> Downloaded(s)
  OBVIOUS
<1>4. Contract!Move(s, to)
  BY <1>1, <1>2, <1>3
     DEF Contract!Move, Contract!IsValidStatusTransition,
         Contract!ValidTransitions, IsValidStatusTransition, ValidTransitions
<1>5. to \in Contract!ServerStatus
  BY DEF Contract!ServerStatus, ServerStatus
<1> QED
  BY <1>4, <1>5, OneOfTheContract

\* A write of a status is a move of the contract when it was checked, and a
\* stutter when it checks or throws.
LEMMA WriteMoves ==
  ASSUME Inv, SoloInv, NEW f \in Flows, NEW status \in ServerStatus,
         NEW row \in Row, NEW ok, NEW failed,
         UpdateStatus(f, status, row, ok, failed),
         <<flow[f].at, status>> \in StatusWrites,
         status = "archived" => flow[f].op = "archive"
  PROVE  ContractStep
<1> DEFINE s == Srv(f)
<1>1. /\ s \in Servers /\ servers \in [Servers -> Row]
      /\ RowSteady(f) /\ OutcomeInv(f) /\ ProgressInv(f)
      /\ UNCHANGED <<host, backups>>
  BY FlowFacts, SoloFacts DEF UpdateStatus, WriteRefused, Inv, TypeOK
<1>2. CASE UNCHANGED servers
  <2>1. SameVmsExist
    BY <1>1 DEF SameVmsExist
  <2> QED
    BY <1>1, <1>2, <2>1, QuietlyStutters
<1>3. CASE /\ flow[f].checked /\ servers[s].status # "absent"
           /\ servers' = [servers EXCEPT ![s] = [row EXCEPT !.status = status]]
  <2>1. IsValidStatusTransition(servers[s].status, status)
    BY <1>1, <1>3 DEF RowSteady, StatusWrites
  <2>2. status = "running" => host[s].vm # "absent"
    BY <1>1 DEF OutcomeInv, VmLabels, StatusWrites
  <2>3. status = "archived" => Downloaded(s) /\ host[s].vm = "absent"
    BY <1>1 DEF ProgressInv, StatusWrites
  <2>4. [row EXCEPT !.status = status].status = status
    BY DEF Row
  <2> QED
    BY <1>1, <1>3, <2>1, <2>2, <2>3, <2>4, StatusMoves
<1> QED
  BY <1>2, <1>3 DEF UpdateStatus, WriteRefused

LEMMA RowStutters ==
  ASSUME Inv, NEW f \in Flows, NEW row, NEW ok, NEW failed,
         UpdateRow(f, row, ok, failed),
         row.status = servers[Srv(f)].status
  PROVE  ContractStep
<1>1. servers \in [Servers -> Row] /\ UNCHANGED <<host, backups>>
  BY DEF UpdateRow, WriteRefused, Inv, TypeOK
<1>2. StatusesStay
  BY <1>1 DEF UpdateRow, WriteRefused, StatusesStay
<1>3. SameVmsExist /\ \A s \in Servers : Downloaded(s)' = Downloaded(s)
  BY <1>1 DEF SameVmsExist, Downloaded
<1> QED
  BY <1>2, <1>3, ContractStutters

LEMMA ProvisionBuilds ==
  ASSUME Inv, NEW f \in Flows, Provision(f)
  PROVE  ContractStep
<1>0. PICK s \in Servers : s = Srv(f)
  BY FlowFacts
<1> DEFINE status == [t \in Servers |-> servers[t].status]
           infra  == [t \in Servers |-> host[t].vm # "absent"]
           saved  == [t \in Servers |-> Downloaded(t)]
<1>1. /\ s \in Servers /\ host \in [Servers -> Host]
      /\ UNCHANGED <<servers, backups>>
      /\ servers[s].status = "provisioning"
  BY <1>0, FlowFacts DEF Provision, Inv, TypeOK, At, DeployInv, InDeploy
<1>2. CASE UNCHANGED host
  <2>1. SameVmsExist
    BY <1>2 DEF SameVmsExist
  <2> QED
    BY <1>1, <2>1, QuietlyStutters
<1>3. CASE /\ host'[s].vm = "staging"
           /\ \A t \in Servers : t # s => host'[t] = host[t]
  <2>1. infra' = [infra EXCEPT ![s] = TRUE]
    BY <1>1, <1>3
  <2>2. UNCHANGED <<status, saved>> /\ status[s] = "provisioning"
    BY <1>1 DEF Downloaded
  <2>3. Contract!Build(s)
    BY <2>1, <2>2 DEF Contract!Build
  <2> QED
    BY <1>1, <2>3, OneOfTheContract
<1> QED
  BY <1>0, <1>1, <1>2, <1>3 DEF Provision

LEMMA DownloadSaves ==
  ASSUME Inv, NEW f \in Flows, BackupDownload(f)
  PROVE  ContractStep
<1> DEFINE s      == Srv(f)
           status == [t \in Servers |-> servers[t].status]
           infra  == [t \in Servers |-> host[t].vm # "absent"]
           saved  == [t \in Servers |-> Downloaded(t)]
<1>1. /\ s \in Servers /\ flow[f] \in Flow
      /\ backups \in [Servers -> SUBSET Tarballs]
      /\ UNCHANGED servers /\ flow[f].file \in {"complete", "truncated"}
  BY FlowFacts DEF BackupDownload, InBackup, Inv, TypeOK, ProgressInv, Flow,
     Tarballs
<1>2. SameVmsExist
  <2>1. BackupServiceSteps(f) /\ ~ArchiveDestroy(f) /\ ~RecoveryDestroy(f)
    BY DEF BackupServiceSteps, BackupSteps, BackupDownload, InBackup,
       ArchiveDestroy, RecoveryDestroy, At
  <2> QED
    BY <2>1, OtherServicesKeepVms
<1>3. CASE \/ UNCHANGED backups
           \/ backups' = [backups EXCEPT ![s] = @ \union {"partial"}]
  <2>1. \A t \in Servers : Downloaded(t)' = Downloaded(t)
    BY <1>1, <1>3 DEF Downloaded
  <2> QED
    BY <1>1, <1>2, <2>1, ContractStutters DEF StatusesStay
<1>4. CASE /\ Reachable(f)
           /\ backups' = [backups EXCEPT ![s] = @ \union {flow[f].file}]
  <2>1. saved' = [saved EXCEPT ![s] = TRUE]
    BY <1>1, <1>4 DEF Downloaded
  <2>2. UNCHANGED <<status, infra>> /\ infra[s]
    BY <1>1, <1>2, <1>4 DEF SameVmsExist, Reachable
  <2>3. Contract!Save(s)
    BY <2>1, <2>2 DEF Contract!Save
  <2> QED
    BY <1>1, <2>3, OneOfTheContract
<1> QED
  BY <1>3, <1>4 DEF BackupDownload

LEMMA DestroyIsAllowed ==
  ASSUME Inv, SoloInv, NEW f \in Flows, ArchiveDestroy(f) \/ RecoveryDestroy(f)
  PROVE  ContractStep
<1>0. PICK s \in Servers : s = Srv(f)
  BY FlowFacts
<1> DEFINE status == [t \in Servers |-> servers[t].status]
           infra  == [t \in Servers |-> host[t].vm # "absent"]
           saved  == [t \in Servers |-> Downloaded(t)]
<1>1. /\ s \in Servers /\ host \in [Servers -> Host]
      /\ UNCHANGED <<servers, backups>>
      /\ host' \in {host, [host EXCEPT ![s] = Destroyed(f)]}
      /\ Destroyed(f).vm = "absent"
  BY <1>0, FlowFacts DEF ArchiveDestroy, RecoveryDestroy, RemoteCall, Inv, TypeOK,
     Destroyed, NoHost
<1>2. Downloaded(s) \/ servers[s].status = "failed"
  <2>1. CASE ArchiveDestroy(f)
    BY <1>0, <2>1, FlowFacts DEF ArchiveDestroy, At, ProgressInv
  <2>2. CASE RecoveryDestroy(f)
    <3>1. servers[s].status \in {"failed", "archived"}
      BY <1>0, <2>2, FlowFacts, SoloFacts
         DEF RecoveryDestroy, At, PanelInv, RowSteady
    <3> QED
      BY <1>0, <3>1, FlowFacts DEF RowInv
  <2> QED
    BY <2>1, <2>2
<1>3. CASE UNCHANGED host
  <2>1. SameVmsExist
    BY <1>3 DEF SameVmsExist
  <2> QED
    BY <1>1, <2>1, QuietlyStutters
<1>4. CASE host' = [host EXCEPT ![s] = Destroyed(f)]
  <2>1. infra' = [infra EXCEPT ![s] = FALSE]
    BY <1>1, <1>4
  <2>2. UNCHANGED <<status, saved>> /\ (saved[s] \/ status[s] = "failed")
    BY <1>1, <1>2 DEF Downloaded
  <2>3. Contract!Destroy(s)
    BY <2>1, <2>2 DEF Contract!Destroy
  <2> QED
    BY <1>1, <2>3, OneOfTheContract
<1> QED
  BY <1>1, <1>3, <1>4

LEMMA DeployRegisters ==
  ASSUME Inv, NEW f \in Flows, NEW name, NEW type, BeginDeploy(f, name, type)
  PROVE  ContractStep
<1> DEFINE status == [t \in Servers |-> servers[t].status]
           infra  == [t \in Servers |-> host[t].vm # "absent"]
           saved  == [t \in Servers |-> Downloaded(t)]
<1>1. servers \in [Servers -> Row] /\ UNCHANGED <<host, backups>>
  BY DEF BeginDeploy, Inv, TypeOK
<1>2. CASE UNCHANGED servers
  <2>1. SameVmsExist
    BY <1>1 DEF SameVmsExist
  <2> QED
    BY <1>1, <1>2, <2>1, QuietlyStutters
<1>3. ASSUME NEW s \in Servers, servers[s].status = "absent",
             servers' = [servers EXCEPT ![s] =
               [NoRow EXCEPT !.name = name, !.status = "provisioning",
                             !.instanceType = type]]
      PROVE  ContractStep
  <2>1. [NoRow EXCEPT !.name = name, !.status = "provisioning",
                      !.instanceType = type].status = "provisioning"
    BY DEF NoRow
  <2>2. status' = [status EXCEPT ![s] = "provisioning"]
    BY <1>1, <1>3, <2>1
  <2>3. UNCHANGED <<infra, saved>> /\ status[s] = "absent"
    BY <1>1, <1>3 DEF Downloaded
  <2>4. Contract!Register(s)
    BY <2>2, <2>3 DEF Contract!Register
  <2> QED
    BY <1>3, <2>4, OneOfTheContract
<1> QED
  BY <1>2, <1>3 DEF BeginDeploy

LEMMA DeployServiceContract ==
  ASSUME Inv, SoloInv, NEW f \in Flows, DeployServiceSteps(f)
  PROVE  ContractStep
<1> USE DEF ServerStatus, StatusWrites
<1>1. flow[f] \in Flow /\ servers[Srv(f)] \in Row
  BY FlowFacts
<1>2. ASSUME UNCHANGED <<servers, backups>>, ~Provision(f)
      PROVE  ContractStep
  BY <1>2, QuietlyStutters, DeployServiceKeepsVms
<1>3. ASSUME NEW label \in {"vmBoot", "cloudInit", "bucket"},
             flow[f].at = label
      PROVE  ~Provision(f)
  BY <1>3 DEF Provision, At
<1>4. CASE DeploySteps(f)
  <2>1. CASE EnsureStateBucket(f)
    BY <1>2, <1>3, <2>1 DEF EnsureStateBucket, At, RemoteCall
  <2>2. CASE Provision(f)
    BY <2>2, ProvisionBuilds
  <2>3. CASE SaveStaticIp(f)
    <3> DEFINE row == [servers[Srv(f)] EXCEPT !.staticIp = flow[f].ip]
    <3>1. row.status = servers[Srv(f)].status
      BY <1>1 DEF Row
    <3>2. UpdateRow(f, row, "vmBoot", "deployFailed")
      BY <2>3 DEF SaveStaticIp
    <3> HIDE DEF row
    <3> QED
      BY <3>1, <3>2, RowStutters
  <2>4. CASE WaitForVmBoot(f) \/ WaitForCloudInit(f)
    <3>1. UNCHANGED <<servers, backups>>
      BY <2>4 DEF WaitForVmBoot, WaitForCloudInit, Poll
    <3> QED
      BY <1>2, <1>3, <2>4, <3>1 DEF WaitForVmBoot, WaitForCloudInit, At
  <2>5. CASE DeployMarkRunning(f)
    BY <1>1, <2>5, WriteMoves DEF DeployMarkRunning, At
  <2>6. CASE DeployMarkFailed(f)
    <3>1. [servers[Srv(f)] EXCEPT !.errorMessage = flow[f].error] \in Row
      BY <1>1 DEF Row, Flow
    <3> QED
      BY <2>6, <3>1, WriteMoves DEF DeployMarkFailed, At
  <2> QED
    BY <1>4, <2>1, <2>2, <2>3, <2>4, <2>5, <2>6 DEF DeploySteps
<1>5. flow[f].op # "deploy" => ~Provision(f)
  BY DEF Provision, At
<1>6. CASE StartStopSteps(f)
  <2>1. CASE StartContainer(f) \/ StopContainer(f)
    BY <1>2, <1>5, <2>1
       DEF StartContainer, StopContainer, At, Exec, SshCall, SilentLoss
  <2>2. CASE StartMarkRunning(f)
    BY <1>1, <2>2, WriteMoves DEF StartMarkRunning, At
  <2>3. CASE StopMarkStopped(f)
    BY <1>1, <2>3, WriteMoves DEF StopMarkStopped, At
  <2> QED
    BY <1>6, <2>1, <2>2, <2>3 DEF StartStopSteps
<1>7. CASE ResizeSteps(f)
  <2>1. CASE \/ ResizeStopVm(f) \/ ResizeChangeType(f) \/ ResizeStartVm(f)
    BY <1>2, <1>5, <2>1
       DEF ResizeStopVm, ResizeChangeType, ResizeStartVm, At, RemoteCall
  <2>2. CASE ResizeDown(f) \/ ResizeMemory(f) \/ ResizeUp(f)
    BY <1>2, <1>5, <2>2
       DEF ResizeDown, ResizeMemory, ResizeUp, At, Skip, Exec, SshCall,
           SilentLoss
  <2>3. CASE ResizePersist(f)
    <3>1. [servers[Srv(f)] EXCEPT !.instanceType = flow[f].newType] \in Row
      BY <1>1 DEF Row, Flow
    <3> QED
      BY <2>3, <3>1, WriteMoves DEF ResizePersist, At
  <2> QED
    BY <1>7, <2>1, <2>2, <2>3 DEF ResizeSteps
<1>8. CASE RollbackSteps(f)
  <2>1. flow[f].op = "resize"
    BY <1>8 DEF RollbackSteps, UndoType, UndoVm, UndoMemory, UndoDown,
       FinishRollback, At
  <2>2. UNCHANGED <<servers, backups>>
    BY <1>8 DEF RollbackSteps, UndoType, UndoVm, UndoMemory, UndoDown,
       FinishRollback, Undo, UndoOverSsh, Skip, RemoteCall, SshCall, SilentLoss
  <2> QED
    BY <1>2, <1>5, <2>1, <2>2
<1> QED
  BY <1>4, <1>6, <1>7, <1>8 DEF DeployServiceSteps

LEMMA OtherServicesContract ==
  ASSUME Inv, SoloInv, NEW f \in Flows,
         BackupServiceSteps(f) \/ UpdateFlowSteps(f) \/ ArchiveSteps(f)
         \/ RecoverySteps(f)
  PROVE  ContractStep
<1> USE DEF ServerStatus, StatusWrites
<1>1. /\ servers[Srv(f)] \in Row
      /\ \A error \in {"other", "panel"} :
           [servers[Srv(f)] EXCEPT !.errorMessage = error] \in Row
      /\ [servers[Srv(f)] EXCEPT !.backupPath = "path"] \in Row
  BY FlowFacts DEF Row, ErrorKinds
<1>2. ASSUME UNCHANGED <<servers, backups>>
      PROVE  ContractStep
  <2>1. CASE ArchiveDestroy(f) \/ RecoveryDestroy(f)
    BY <2>1, DestroyIsAllowed
  <2>2. CASE ~ArchiveDestroy(f) /\ ~RecoveryDestroy(f)
    BY <1>2, <2>2, QuietlyStutters, OtherServicesKeepVms
  <2> QED
    BY <2>1, <2>2
<1>3. CASE BackupServiceSteps(f)
  <2>1. CASE BackupDownload(f)
    BY <2>1, DownloadSaves
  <2>2. CASE BackupTar(f) \/ BackupCleanup(f)
    BY <1>2, <2>2 DEF BackupTar, BackupCleanup, Exec, SshCall, SilentLoss
  <2>3. CASE RestoreSteps(f)
    BY <1>2, <2>3 DEF RestoreSteps, RestoreStop, RestoreUpload, RestoreUntar,
       RestoreUp, Exec, SshCall, SilentLoss
  <2> QED
    BY <1>3, <2>1, <2>2, <2>3 DEF BackupServiceSteps, BackupSteps
<1>4. CASE UpdateFlowSteps(f)
  <2>1. CASE \/ UpdateBroadcast(f) \/ UpdateSave(f) \/ UpdateQuit(f)
             \/ RestartSave(f) \/ RestartQuit(f)
    BY <1>2, <2>1 DEF UpdateBroadcast, UpdateSave, UpdateQuit, RestartSave,
       RestartQuit, RconCall
  <2>2. CASE \/ UpdatePull(f) \/ UpdateUp(f) \/ UpdateHealthCheck(f)
             \/ UpdateUndoUp(f) \/ RestartUp(f)
    BY <1>2, <2>2 DEF UpdatePull, UpdateUp, UpdateHealthCheck, UpdateUndoUp,
       RestartUp, Exec, SshCall, SilentLoss
  <2>3. CASE UpdateMarkRunning(f)
    BY <1>1, <2>3, WriteMoves DEF UpdateMarkRunning, At
  <2>4. CASE UpdateUndoMarkRunning(f)
    BY <1>1, <2>4, WriteMoves DEF UpdateUndoMarkRunning, At
  <2>5. CASE UpdateMarkFailed(f)
    BY <1>1, <2>5, WriteMoves DEF UpdateMarkFailed, At
  <2>6. CASE RestartMarkRunning(f)
    BY <1>1, <2>6, WriteMoves DEF RestartMarkRunning, At
  <2> QED
    BY <1>4, <2>1, <2>2, <2>3, <2>4, <2>5, <2>6
       DEF UpdateFlowSteps, UpdateSteps, QuickRestartSteps
<1>5. CASE ArchiveSteps(f)
  <2>1. CASE ArchiveDestroy(f)
    BY <2>1, DestroyIsAllowed
  <2>2. CASE ArchiveMarkFailed(f)
    BY <1>1, <2>2, WriteMoves DEF ArchiveMarkFailed, At
  <2>3. CASE ArchiveMarkArchived(f)
    BY <1>1, <2>3, WriteMoves DEF ArchiveMarkArchived, At
  <2>4. CASE ArchiveListTasks(f) \/ ArchiveDisableTasks(f)
    BY <1>2, <2>4 DEF ArchiveListTasks, ArchiveDisableTasks
  <2> QED
    BY <1>5, <2>1, <2>2, <2>3, <2>4 DEF ArchiveSteps
<1>6. CASE RecoverySteps(f)
  <2>1. CASE RecoveryDestroy(f)
    BY <2>1, DestroyIsAllowed
  <2>2. CASE RecoveryStopVm(f) \/ RecoveryStartVm(f)
    BY <1>2, <2>2 DEF RecoveryStopVm, RecoveryStartVm, CloudCall, RemoteCall
  <2>3. CASE RecoveryBootstrap(f) \/ RecoveryRestart(f)
    BY <1>2, <2>3
       DEF RecoveryBootstrap, RecoveryRestart, Exec, SshCall, SilentLoss
  <2>4. CASE RecoveryMarkFailed(f)
    <3>1. PICK row \in Row : UpdateStatus(f, "failed", row, "ok", "error")
      BY <1>1, <2>4 DEF RecoveryMarkFailed
    <3> QED
      BY <2>4, <3>1, WriteMoves DEF RecoveryMarkFailed
  <2>5. CASE RecoveryReconfigure(f)
    <3> DEFINE row == [servers[Srv(f)] EXCEPT !.errorMessage = "panel"]
    <3>1. UpdateRow(f, row, "ok", "error") /\ row.status = servers[Srv(f)].status
      BY <1>1, <2>5 DEF RecoveryReconfigure, Row
    <3> HIDE DEF row
    <3> QED
      BY <3>1, RowStutters
  <2> QED
    BY <1>6, <2>1, <2>2, <2>3, <2>4, <2>5 DEF RecoverySteps
<1> QED
  BY <1>3, <1>4, <1>5, <1>6

LEMMA NextContract ==
  ASSUME Inv, SoloInv, [Next]_vars
  PROVE  ContractStep
<1>1. ASSUME NEW f \in Flows, ServiceSteps(f)
      PROVE  ContractStep
  BY <1>1, DeployServiceContract, OtherServicesContract DEF ServiceSteps
<1>2. ASSUME NEW f \in Flows, UserSteps(f)
      PROVE  ContractStep
  <2>1. CASE Deploy(f) \/ RetryDeploy(f)
    BY <2>1, DeployRegisters DEF Deploy, RetryDeploy
  <2>2. CASE ~(Deploy(f) \/ RetryDeploy(f))
    <3>1. UNCHANGED <<servers, backups>>
      <4>1. \/ \E s \in Servers : OpenPanel(f, s)
            \/ ClosePanel(f) \/ Dismiss(f) \/ BeginRecovery(f)
            \/ WatchStats(f) \/ MountPlayers(f)
            \/ \E op : Select(f, op)
            \/ \E t : AddTask(f, t)
        BY <1>2, <2>2 DEF UserSteps
      <4>2. ASSUME \/ \E op : Select(f, op)
                   \/ \E t : AddTask(f, t)
            PROVE  UNCHANGED <<servers, backups>>
        BY <4>2 DEF Select, AddTask
      <4>3. ASSUME \/ \E s \in Servers : OpenPanel(f, s)
                   \/ ClosePanel(f) \/ Dismiss(f)
            PROVE  UNCHANGED <<servers, backups>>
        BY <4>3 DEF OpenPanel, ClosePanel, Dismiss
      <4>4. ASSUME BeginRecovery(f) \/ WatchStats(f) \/ MountPlayers(f)
            PROVE  UNCHANGED <<servers, backups>>
        BY <4>4 DEF BeginRecovery, WatchStats, MountPlayers
      <4> QED
        BY <4>1, <4>2, <4>3, <4>4
    <3> QED
      BY <1>2, <3>1, NobodyElseTakesVms, QuietlyStutters
  <2> QED
    BY <2>1, <2>2
<1>3. CASE CloudSteps \/ UnmountPlayers \/ Exit \/ UNCHANGED vars
  <2>1. UNCHANGED <<servers, backups>>
    BY <1>3 DEF CloudSteps, VmBoots, CloudInitRuns, DockerRestarts, LineDrops,
       DialEnds, UnmountPlayers, Exit, vars
  <2> QED
    BY <1>3, <2>1, NobodyElseTakesVms, QuietlyStutters
<1> QED
  BY <1>1, <1>2, <1>3 DEF Next

\* One operation at a time, with whatever services it is made of, keeps what
\* the CLI promises about a server: the services implement ServerContract.
THEOREM MeetsContractAlone == ASSUME OnePanel PROVE Spec => MeetsContract
<1>1. PlatformInit => Contract!Init
  <2> SUFFICES ASSUME PlatformInit
               PROVE  Contract!Init
    OBVIOUS
  <2>1. /\ [s \in Servers |-> servers[s].status] = [s \in Servers |-> "absent"]
        /\ [s \in Servers |-> host[s].vm # "absent"] = [s \in Servers |-> FALSE]
        /\ [s \in Servers |-> Downloaded(s)] = [s \in Servers |-> FALSE]
    BY DEF PlatformInit, NoRow, NoHost, Downloaded
  <2> QED
    BY <2>1 DEF Contract!Init
<1>2. Inv /\ SoloInv /\ [Next]_vars => [Contract!Next]_(Contract!cvars)
  BY NextContract DEF ContractStep
<1> QED
  BY <1>1, <1>2, InvCorrect, SoloInvCorrect, PTL
     DEF Spec, MeetsContract, Contract!Spec
=============================================================================
