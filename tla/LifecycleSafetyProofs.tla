------------------------ MODULE LifecycleSafetyProofs ------------------------
(***************************************************************************)
(* Proofs that Inv of ServerLifecycle is inductive, for any number of      *)
(* servers, panels and processes, and with it the safety properties that   *)
(* hold however their operations interleave.                               *)
(***************************************************************************)
EXTENDS ServerLifecycleProofs

-----------------------------------------------------------------------------
(* What a step leaves alone.                                               *)

\* The flow keeps its operation, its panel and what it has read.
Follows(f, next) ==
  /\ next.op = flow[f].op
  /\ next.srv = flow[f].srv
  /\ next.shown = flow[f].shown
  /\ next.server = flow[f].server

NoNewVm ==
  \A s \in Servers :
    host'[s].vm # "absent" =>
      host[s].vm # "absent" \/ servers[s].status = "provisioning"

VmsStay == \A s \in Servers : host'[s].vm = host[s].vm

\* What a call makes of the VM is the same VM.
SameVm(f, effect) == effect \in Host /\ effect.vm = host[Srv(f)].vm

BackupsKept ==
  \A s \in Servers : Downloaded(s) => Downloaded(s)'

\* A step of one flow that writes no row does not disturb the other flows.
LEMMA OtherFlows ==
  ASSUME Inv, TypeOK', NEW f \in Flows, NEW next,
         flow' = [flow EXCEPT ![f] = next],
         UNCHANGED servers, NoNewVm, BackupsKept
  PROVE  /\ \A s \in Servers : RowInv(s)'
         /\ \A g \in Flows : g # f => FlowInv(g)'
<1>1. ASSUME NEW s \in Servers
      PROVE  RowInv(s)'
  <2>1. RowInv(s) /\ servers'[s] = servers[s]
    BY DEF Inv
  <2> QED
    BY <2>1 DEF RowInv, NoNewVm, BackupsKept
<1>2. ASSUME NEW g \in Flows, g # f
      PROVE  FlowInv(g)'
  <2>1. FlowInv(g) /\ flow'[g] = flow[g] /\ flow[g].srv \in Servers
    BY <1>2 DEF Inv, TypeOK, Flow
  <2>2. DeployInv(g)' /\ PanelInv(g)' /\ StandingInv(g)'
    BY <2>1 DEF FlowInv, DeployInv, InDeploy, PanelInv, StandingInv, Srv
  <2>3. ProgressInv(g)'
    <3>1. flow[g].op = "archive" => servers[Srv(g)].status # "provisioning"
      BY <2>1 DEF FlowInv, PanelInv
    <3>2. ProgressInv(g)
      BY <2>1 DEF FlowInv
    <3> QED
      BY <2>1, <3>1, <3>2 DEF ProgressInv, Srv, NoNewVm, BackupsKept
  <2> QED
    BY <2>2, <2>3 DEF FlowInv
<1> QED
  BY <1>1, <1>2

\* Deployments under way are the same, or fewer.
LEMMA DeploymentsStay ==
  ASSUME Inv, TypeOK', NEW f \in Flows, NEW next,
         flow' = [flow EXCEPT ![f] = next],
         next.op = "deploy" /\ next.at \notin Terminal =>
           /\ flow[f].op = "deploy" /\ flow[f].at \notin Terminal
           /\ next.srv = flow[f].srv
  PROVE  OneDeploymentEach'
<1>1. /\ flow'[f] = next
      /\ \A g \in Flows : g # f => flow'[g] = flow[g]
  BY DEF Inv, TypeOK
<1> QED
  BY <1>1 DEF Inv, OneDeploymentEach, Srv

\* An operation other than a deployment moves on without writing a row.
LEMMA OperationStep ==
  ASSUME Inv, TypeOK', NEW f \in Flows, NEW next,
         flow' = [flow EXCEPT ![f] = next],
         flow[f].op # "deploy", Follows(f, next),
         UNCHANGED servers, NoNewVm, BackupsKept,
         ProgressInv(f)'
  PROVE  Inv'
<1>1. flow'[f] = next /\ FlowInv(f)
  BY DEF Inv, TypeOK
<1>2. DeployInv(f)' /\ PanelInv(f)' /\ StandingInv(f)'
  BY <1>1 DEF Follows, FlowInv, DeployInv, InDeploy, PanelInv, StandingInv, Srv
<1>3. FlowInv(f)'
  BY <1>2 DEF FlowInv
<1>4. OneDeploymentEach'
  BY DeploymentsStay DEF Follows
<1> QED
  BY <1>3, <1>4, OtherFlows DEF Inv

\* What a flow becomes when it moves on follows it.
LEMMA NextFollows ==
  ASSUME Inv, NEW f \in Flows, NEW label, NEW x
  PROVE  /\ Follows(f, To(f, label)) /\ To(f, label).at = label
         /\ ~To(f, label).checked /\ To(f, label).ip = flow[f].ip
         /\ Follows(f, Marked(f, label, x)) /\ Marked(f, label, x).at = label
         /\ ~Marked(f, label, x).checked
         /\ Follows(f, Thrown(f, label, x)) /\ Thrown(f, label, x).at = label
         /\ ~Thrown(f, label, x).checked /\ Thrown(f, label, x).error = x
<1>1. flow[f] \in Flow
  BY DEF Inv, TypeOK
<1> QED
  BY <1>1 DEF Follows, To, Marked, Thrown, Flow

LEMMA LostFollows ==
  ASSUME Inv, NEW f \in Flows, NEW label, NEW x
  PROVE  /\ Follows(f, Lost(To(f, label))) /\ Lost(To(f, label)).at = label
         /\ ~Lost(To(f, label)).checked
         /\ Follows(f, Lost(Marked(f, label, x)))
         /\ Lost(Marked(f, label, x)).at = label
         /\ ~Lost(Marked(f, label, x)).checked
<1>1. flow[f] \in Flow
  BY DEF Inv, TypeOK
<1> QED
  BY <1>1 DEF Follows, Lost, To, Marked, Flow

\* Labels at which an operation has made sure of nothing.
Plain(f, label) ==
  /\ label \notin {"markRunning", "markStopped", "undoMarkRunning", "persist",
                   "download", "rm", "destroyFailed", "markArchived"}
  /\ label = "up" => flow[f].op # "resize"
  /\ label = "destroy" => flow[f].op # "archive"

LEMMA PlainProgress ==
  ASSUME Inv, TypeOK', NEW f \in Flows, NEW next,
         flow' = [flow EXCEPT ![f] = next],
         Follows(f, next), Plain(f, next.at)
  PROVE  ProgressInv(f)'
<1>1. flow'[f] = next
  BY DEF Inv, TypeOK
<1> QED
  BY <1>1 DEF Follows, Plain, ProgressInv

-----------------------------------------------------------------------------
(* The shared kinds of steps keep Inv.                                     *)

\* A client in the pool says nothing about the VM.
LEMMA ClientSaysNothing ==
  ASSUME NEW f, NEW h \in Host
  PROVE  OverSsh(f, h).vm = h.vm /\ HangUp(h).vm = h.vm
BY DEF OverSsh, HangUp, Host

LEMMA EffectKeepsVm ==
  ASSUME Inv, NEW f \in Flows, NEW effect \in Host, NEW done, NEW thrown,
         RemoteStep(f, effect, done, thrown),
         effect.vm # "absent" => host[Srv(f)].vm # "absent" \/ VmsStay
  PROVE  NoNewVm
<1>1. /\ Srv(f) \in Servers /\ host \in [Servers -> Host]
      /\ host[Srv(f)] \in Host
  BY DEF Inv, TypeOK, Flow, Srv
<1>2. CASE UNCHANGED host \/ VmsStay
  BY <1>2 DEF NoNewVm, VmsStay
<1>3. CASE ~VmsStay
  <2>1. ASSUME NEW h, h.vm # "absent" => host[Srv(f)].vm # "absent",
               host' = [host EXCEPT ![Srv(f)] = h]
        PROVE  NoNewVm
    BY <1>1, <2>1 DEF NoNewVm
  <2>2. /\ OverSsh(f, effect).vm = effect.vm
        /\ OverSsh(f, host[Srv(f)]).vm = host[Srv(f)].vm
    BY <1>1, ClientSaysNothing
  <2> QED
    BY <1>2, <1>3, <2>1, <2>2 DEF RemoteStep
<1> QED
  BY <1>2, <1>3

\* A call over ssh either can succeed or leaves every VM as it is.
LEMMA SshIsRemote ==
  ASSUME Inv, NEW f \in Flows, NEW can, NEW effect, NEW done, NEW thrown,
         SshCall(f, can, effect, done, thrown) \/ SilentLoss(f, done)
  PROVE  RemoteStep(f, effect, done, thrown) /\ (can \/ VmsStay)
<1>1. RemoteStep(f, effect, done, thrown)
  BY DEF SshCall, SilentLoss, RemoteStep
<1>2. /\ Srv(f) \in Servers /\ host \in [Servers -> Host]
      /\ host[Srv(f)] \in Host
  BY DEF Inv, TypeOK, Flow, Srv
<1>3. OverSsh(f, host[Srv(f)]).vm = host[Srv(f)].vm
  BY <1>2, ClientSaysNothing
<1>4. can \/ host' = [host EXCEPT ![Srv(f)] = OverSsh(f, @)]
  BY DEF SshCall, SilentLoss
<1>5. can \/ VmsStay
  BY <1>2, <1>3, <1>4 DEF VmsStay
<1> QED
  BY <1>1, <1>5

\* A call that leaves the process, when what it may lead to is established.
LEMMA CallStep ==
  ASSUME Inv, TypeOK', NEW f \in Flows, NEW effect \in Host,
         NEW done, NEW thrown,
         RemoteStep(f, effect, done, thrown),
         flow[f].op # "deploy", Follows(f, done), Follows(f, thrown),
         effect.vm # "absent" => host[Srv(f)].vm # "absent" \/ VmsStay,
         Plain(f, thrown.at),
         Plain(f, done.at) \/ Become(f, thrown) \/ ProgressInv(f)'
  PROVE  Inv'
<1>1. NoNewVm /\ BackupsKept /\ UNCHANGED servers
  BY EffectKeepsVm DEF RemoteStep, BackupsKept, Downloaded
<1>2. CASE Become(f, thrown)
  BY <1>1, <1>2, PlainProgress, OperationStep DEF Become
<1>3. CASE Become(f, done) /\ ~Become(f, thrown)
  <2>1. ProgressInv(f)'
    BY <1>3, PlainProgress DEF Become
  <2> QED
    BY <1>1, <1>3, <2>1, OperationStep DEF Become
<1> QED
  BY <1>2, <1>3 DEF RemoteStep

\* A method skips a step.
LEMMA SkipStep ==
  ASSUME Inv, TypeOK', NEW f \in Flows, NEW label, Skip(f, label),
         flow[f].op # "deploy", Plain(f, label)
  PROVE  Inv'
<1>1. Follows(f, To(f, label)) /\ To(f, label).at = label
  BY NextFollows
<1>2. NoNewVm /\ BackupsKept /\ UNCHANGED servers
  BY DEF Skip, NoNewVm, BackupsKept, Downloaded
<1>3. flow' = [flow EXCEPT ![f] = To(f, label)]
  BY DEF Skip, Goto, Become
<1>4. ProgressInv(f)'
  BY <1>1, <1>3, PlainProgress
<1> QED
  BY <1>1, <1>2, <1>3, <1>4, OperationStep

\* A row is written, and the flow is of another server.
LEMMA OtherServer ==
  ASSUME NEW g \in Flows, FlowInv(g), flow'[g] = flow[g],
         servers'[Srv(g)] = servers[Srv(g)], UNCHANGED <<host, backups>>
  PROVE  FlowInv(g)'
<1>1. Srv(g)' = Srv(g)
  BY DEF Srv
<1>2. DeployInv(g)'
  BY <1>1 DEF FlowInv, DeployInv, InDeploy
<1>3. PanelInv(g)'
  BY <1>1 DEF FlowInv, PanelInv
<1>4. StandingInv(g)' /\ ProgressInv(g)'
  BY <1>1 DEF FlowInv, StandingInv, ProgressInv, Downloaded
<1> QED
  BY <1>2, <1>3, <1>4 DEF FlowInv

\* A row that is written by an operation with a right to do so.
LEMMA RowWritten ==
  ASSUME Inv, TypeOK', NEW f \in Flows, NEW row \in Row, NEW next,
         flow' = [flow EXCEPT ![f] = next],
         servers' = [servers EXCEPT ![Srv(f)] = row],
         UNCHANGED <<host, backups>>,
         Follows(f, next), Plain(f, next.at),
         flow[f].op \notin {"none", "backup", "restore"},
         flow[f].op = "deploy" =>
           flow[f].at \notin Terminal /\ next.at \in Terminal,
         row.staticIp = servers[Srv(f)].staticIp,
         servers[Srv(f)].errorMessage # "none" => row.errorMessage # "none",
         row.status \in {"running", "stopped", "failed", "archived"},
         row.status # "failed" => row.staticIp = "ip",
         row.status = "failed" => row.errorMessage # "none",
         row.status = "archived" =>
           /\ host[Srv(f)].vm = "absent"
           /\ Downloaded(Srv(f))
           /\ row.backupPath = "path"
  PROVE  Inv'
<1>1. /\ flow'[f] = next
      /\ \A g \in Flows : g # f => flow'[g] = flow[g]
      /\ \A g \in Flows : Srv(g) \in Servers
  BY DEF Inv, TypeOK, Flow, Srv
<1>2. /\ servers'[Srv(f)] = row
      /\ \A s \in Servers : s # Srv(f) => servers'[s] = servers[s]
  BY <1>1 DEF Inv, TypeOK
<1>3. ASSUME NEW s \in Servers
      PROVE  RowInv(s)'
  <2>1. RowInv(s)
    BY DEF Inv
  <2> QED
    BY <1>1, <1>2, <2>1 DEF RowInv, Downloaded
<1>4. FlowInv(f)
  BY DEF Inv
<1>5. ASSUME NEW g \in Flows, g # f, Srv(g) = Srv(f),
             flow[g].op = "deploy", flow[g].at \notin Terminal
      PROVE  servers[Srv(f)].status # "provisioning"
  <2>1. flow[f].op # "deploy"
    BY <1>5 DEF Inv, OneDeploymentEach
  <2> QED
    BY <1>4, <2>1 DEF FlowInv, PanelInv
<1>6. ASSUME NEW g \in Flows, g # f
      PROVE  FlowInv(g)'
  <2>1. FlowInv(g) /\ flow'[g] = flow[g] /\ Srv(g)' = Srv(g)
    BY <1>1, <1>6 DEF Inv, Srv
  <2>2. CASE Srv(g) # Srv(f)
    <3>1. servers'[Srv(g)] = servers[Srv(g)]
      BY <1>1, <1>2, <2>2
    <3> QED
      BY <2>1, <3>1, OtherServer
  <2>3. CASE Srv(g) = Srv(f)
    <3>1. servers'[Srv(g)] = row
      BY <1>2, <2>3
    <3>2. PanelInv(g)' /\ StandingInv(g)'
      BY <2>1, <2>3, <3>1 DEF FlowInv, PanelInv, StandingInv
    <3>3. ProgressInv(g)'
      BY <2>1 DEF FlowInv, ProgressInv, Downloaded
    <3>4. DeployInv(g)'
      BY <1>5, <1>6, <2>1, <2>3, <3>1
         DEF FlowInv, DeployInv, InDeploy, Terminal
    <3> QED
      BY <3>2, <3>3, <3>4 DEF FlowInv
  <2> QED
    BY <2>2, <2>3
<1>7. FlowInv(f)'
  <2>1. Srv(f)' = Srv(f)
    BY <1>1 DEF Follows, Srv
  <2>2. DeployInv(f)'
    BY <1>1, <2>1 DEF Follows, DeployInv, InDeploy, Terminal
  <2>3. PanelInv(f)' /\ StandingInv(f)'
    BY <1>1, <1>2, <1>4, <2>1
       DEF Follows, FlowInv, PanelInv, StandingInv
  <2>4. ProgressInv(f)'
    BY PlainProgress
  <2> QED
    BY <2>2, <2>3, <2>4 DEF FlowInv
<1>8. OneDeploymentEach'
  BY DeploymentsStay DEF Follows
<1> QED
  BY <1>3, <1>6, <1>7, <1>8 DEF Inv

\* A write that another process keeps from the database.
LEMMA RefusedStep ==
  ASSUME Inv, TypeOK', NEW f \in Flows, NEW failed, WriteRefused(f, failed),
         flow[f].op # "deploy", Plain(f, failed)
  PROVE  Inv'
<1> DEFINE next == Thrown(f, failed, "other")
<1>1. flow' = [flow EXCEPT ![f] = next]
  BY DEF WriteRefused, Throw, Become
<1>2. UNCHANGED servers /\ NoNewVm /\ BackupsKept
  BY DEF WriteRefused, NoNewVm, BackupsKept, Downloaded
<1>3. Follows(f, next) /\ Plain(f, next.at)
  BY NextFollows
<1> HIDE DEF next
<1>4. ProgressInv(f)'
  BY <1>1, <1>3, PlainProgress
<1> QED
  BY <1>1, <1>2, <1>3, <1>4, OperationStep

\* updateServer with a status, by an operation other than a deployment: what
\* is written must be true by the time of the write, not only of the check.
LEMMA StatusStep ==
  ASSUME Inv, TypeOK', NEW f \in Flows, NEW status, NEW row \in Row,
         NEW ok, NEW failed, UpdateStatus(f, status, row, ok, failed),
         flow[f].op \notin {"none", "deploy", "backup", "restore"},
         Plain(f, ok), Plain(f, failed),
         status \in {"running", "stopped", "failed", "archived"},
         row.staticIp = servers[Srv(f)].staticIp,
         servers[Srv(f)].errorMessage # "none" => row.errorMessage # "none",
         status # "failed" /\ flow[f].checked =>
           servers[Srv(f)].staticIp = "ip",
         status = "failed" => row.errorMessage # "none",
         status = "archived" =>
           /\ host[Srv(f)].vm = "absent"
           /\ Downloaded(Srv(f))
           /\ row.backupPath = "path",
         /\ flow[f].op = "resize" /\ flow[f].at = "persist"
         /\ IsValidStatusTransition(servers[Srv(f)].status, status)
         => flow[f].server.staticIp # "none"
  PROVE  Inv'
<1>1. /\ flow[f] \in Flow
      /\ servers[Srv(f)].status # "absent"
      /\ FlowInv(f)
  BY DEF Inv, TypeOK, FlowInv, PanelInv
<1>2. UNCHANGED <<host, backups>>
  BY DEF UpdateStatus, WriteRefused
<1>3. CASE ~flow[f].checked
  <2>1. UNCHANGED servers /\ NoNewVm /\ BackupsKept
    BY <1>2, <1>3 DEF UpdateStatus, NoNewVm, BackupsKept, Downloaded
  <2>2. CASE IsValidStatusTransition(servers[Srv(f)].status, status)
    <3> DEFINE next == [flow[f] EXCEPT !.checked = TRUE]
    <3>1. flow' = [flow EXCEPT ![f] = next]
      BY <1>1, <1>3, <2>2 DEF UpdateStatus
    <3>2. Follows(f, next) /\ next.at = flow[f].at /\ next.file = flow[f].file
      BY <1>1 DEF Follows, Flow
    <3>3. flow'[f] = next
      BY <3>1 DEF Inv, TypeOK
    <3> HIDE DEF next
    <3>4. ProgressInv(f)'
      BY <1>1, <1>2, <2>2, <3>2, <3>3 DEF FlowInv, ProgressInv, Follows, Srv,
         Downloaded
    <3> QED
      BY <2>1, <3>1, <3>2, <3>4, OperationStep
  <2>3. CASE ~IsValidStatusTransition(servers[Srv(f)].status, status)
    <3> DEFINE next == Thrown(f, failed, "other")
    <3>1. flow' = [flow EXCEPT ![f] = next]
      BY <1>1, <1>3, <2>3 DEF UpdateStatus, Throw, Become
    <3>2. Follows(f, next) /\ Plain(f, next.at)
      BY NextFollows
    <3> HIDE DEF next
    <3>3. ProgressInv(f)'
      BY <3>1, <3>2, PlainProgress
    <3> QED
      BY <2>1, <3>1, <3>2, <3>3, OperationStep
  <2> QED
    BY <2>2, <2>3
<1>4. CASE flow[f].checked /\ ~WriteRefused(f, failed)
  <2> DEFINE next == To(f, ok)
             new  == [row EXCEPT !.status = status]
  <2>1. flow' = [flow EXCEPT ![f] = next]
    BY <1>4 DEF UpdateStatus, Goto, Become
  <2>2. servers' = [servers EXCEPT ![Srv(f)] = new]
    BY <1>1, <1>4 DEF UpdateStatus
  <2>3. Follows(f, next) /\ Plain(f, next.at)
    BY NextFollows
  <2>4. /\ new \in Row /\ new.status = status
        /\ new.staticIp = row.staticIp /\ new.errorMessage = row.errorMessage
        /\ new.backupPath = row.backupPath
    BY DEF Row, ServerStatus
  <2> HIDE DEF next, new
  <2> QED
    BY <1>2, <1>4, <2>1, <2>2, <2>3, <2>4, RowWritten
<1>5. CASE WriteRefused(f, failed)
  BY <1>5, RefusedStep
<1> QED
  BY <1>3, <1>4, <1>5

-----------------------------------------------------------------------------
(* The services keep Inv.                                                  *)

\* Who may take a step of an operation, and how far it has come.
LEMMA FlowFacts ==
  ASSUME Inv, NEW f \in Flows
  PROVE  /\ flow[f] \in Flow /\ Srv(f) \in Servers
         /\ servers[Srv(f)] \in Row /\ host[Srv(f)] \in Host
         /\ DeployInv(f) /\ PanelInv(f) /\ StandingInv(f) /\ ProgressInv(f)
         /\ RowInv(Srv(f))
BY DEF Inv, TypeOK, Flow, Srv, FlowInv

\* Commands on a VM, and a new type, leave the VM what it is.
LEMMA SameVms ==
  ASSUME Inv, NEW f \in Flows
  PROVE  /\ SameVm(f, host[Srv(f)])
         /\ SameVm(f, Up(f)) /\ SameVm(f, Down(f)) /\ SameVm(f, Halt(f))
         /\ SameVm(f, Bootstrapped(host[Srv(f)]))
         /\ \A type \in MachineTypes :
              /\ SameVm(f, VmResized(f, type))
              /\ SameVm(f, SetMemory(f, type))
<1>1. /\ host[Srv(f)] \in Host /\ Up(f) \in Host /\ Down(f) \in Host
      /\ Halt(f) \in Host /\ Bootstrapped(host[Srv(f)]) \in Host
      /\ \A type \in MachineTypes :
           VmResized(f, type) \in Host /\ SetMemory(f, type) \in Host
  BY EffectType DEF Inv
<1>2. host[Srv(f)] \in Host
  BY <1>1
<1>3. /\ Up(f).vm = host[Srv(f)].vm /\ Down(f).vm = host[Srv(f)].vm
      /\ Halt(f).vm = host[Srv(f)].vm
      /\ Bootstrapped(host[Srv(f)]).vm = host[Srv(f)].vm
      /\ \A type \in MachineTypes :
           /\ VmResized(f, type).vm = host[Srv(f)].vm
           /\ SetMemory(f, type).vm = host[Srv(f)].vm
  BY <1>2 DEF Up, Down, Halt, VmResized, SetMemory, Bootstrapped, Host
<1> QED
  BY <1>1, <1>3 DEF SameVm

\* A call over ssh that tells no more than that the row read has an address.
LEMMA SshStep ==
  ASSUME Inv, TypeOK', NEW f \in Flows, NEW effect, NEW done, NEW thrown,
         RemoteStep(f, effect, done, thrown),
         flow[f].op # "deploy", Follows(f, done), Follows(f, thrown),
         SameVm(f, effect),
         Plain(f, thrown.at), ~done.checked,
         done.at \notin {"download", "rm", "destroy", "destroyFailed",
                          "markArchived"},
         Become(f, thrown) \/ flow[f].server.staticIp = "ip"
  PROVE  Inv'
<1>1. CASE Become(f, thrown)
  BY <1>1, CallStep DEF SameVm
<1>2. CASE Become(f, done) /\ flow[f].server.staticIp = "ip"
  <2>1. flow'[f] = done
    BY <1>2 DEF Inv, TypeOK, Become
  <2>2. ProgressInv(f)'
    BY <1>2, <2>1 DEF Follows, ProgressInv, Downloaded
  <2> QED
    BY <2>2, CallStep DEF SameVm
<1> QED
  BY <1>1, <1>2 DEF RemoteStep

LEMMA StartStopInv ==
  ASSUME Inv, TypeOK', NEW f \in Flows, StartStopSteps(f)
  PROVE  Inv'
<1>1. CASE StartContainer(f)
  <2>1. /\ RemoteStep(f, Up(f), To(f, "markRunning"), Thrown(f, "error", "other"))
        /\ \/ Become(f, Thrown(f, "error", "other"))
           \/ flow[f].server.staticIp = "ip"
    BY <1>1 DEF StartContainer, Exec, SshCall, SilentLoss,
           RemoteStep, HasDocker, Reachable
  <2>2. flow[f].op = "start" /\ SameVm(f, Up(f))
    BY <1>1, SameVms DEF StartContainer, At
  <2> QED
    BY <2>1, <2>2, SshStep, NextFollows DEF Plain
<1>2. CASE StartMarkRunning(f)
  BY <1>2, StatusStep, FlowFacts
     DEF StartMarkRunning, At, Plain, StandingInv, ProgressInv
<1>3. CASE StopContainer(f)
  <2>1. /\ RemoteStep(f, Down(f), To(f, "markStopped"), Thrown(f, "error", "other"))
        /\ \/ Become(f, Thrown(f, "error", "other"))
           \/ flow[f].server.staticIp = "ip"
    BY <1>3 DEF StopContainer, Exec, SshCall, SilentLoss,
           RemoteStep, HasDocker, Reachable
  <2>2. flow[f].op = "stop" /\ SameVm(f, Down(f))
    BY <1>3, SameVms DEF StopContainer, At
  <2> QED
    BY <2>1, <2>2, SshStep, NextFollows DEF Plain
<1>4. CASE StopMarkStopped(f)
  BY <1>4, StatusStep, FlowFacts
     DEF StopMarkStopped, At, Plain, StandingInv, ProgressInv
<1> QED
  BY <1>1, <1>2, <1>3, <1>4 DEF StartStopSteps

LEMMA ResizeInv ==
  ASSUME Inv, TypeOK', NEW f \in Flows, ResizeSteps(f)
  PROVE  Inv'
<1>1. CASE ResizeDown(f)
  <2>1. flow[f].op = "resize" /\ SameVm(f, Down(f))
    BY <1>1, SameVms DEF ResizeDown, At
  <2>2. CASE WasRunning(f) /\ HasConn(f)
    <3>1. RemoteStep(f, Down(f), To(f, "stopVm"), Thrown(f, "undoType", "other"))
      BY <1>1, <2>2 DEF ResizeDown, Exec, SshCall, SilentLoss,
           RemoteStep
    <3> QED
      BY <2>1, <3>1, CallStep, NextFollows DEF Plain, SameVm
  <2>3. CASE ~(WasRunning(f) /\ HasConn(f))
    <3>1. Skip(f, "stopVm")
      BY <1>1, <2>3 DEF ResizeDown
    <3> QED
      BY <2>1, <3>1, SkipStep DEF Plain
  <2> QED
    BY <2>2, <2>3
<1>2. CASE ResizeStopVm(f)
  <2>1. /\ RemoteStep(f, VmStopped(f), Marked(f, "changeType", "vmStopped"),
                      Thrown(f, "undoType", "other"))
        /\ host[Srv(f)].vm # "absent" \/ VmsStay
    BY <1>2 DEF ResizeStopVm, RemoteCall, RemoteStep, VmExists, VmsStay
  <2>2. flow[f].op = "resize" /\ VmStopped(f) \in Host
    BY <1>2, EffectType DEF ResizeStopVm, At, Inv
  <2> QED
    BY <2>1, <2>2, CallStep, NextFollows DEF Plain
<1>3. CASE ResizeChangeType(f)
  <2>1. RemoteStep(f, VmResized(f, flow[f].newType),
                   Marked(f, "startVm", "machineChanged"),
                   Thrown(f, "undoType", "other"))
    BY <1>3 DEF ResizeChangeType, RemoteCall, RemoteStep
  <2>2. /\ flow[f].op = "resize"
        /\ SameVm(f, VmResized(f, flow[f].newType))
    BY <1>3, FlowFacts, SameVms DEF ResizeChangeType, At, Flow
  <2> QED
    BY <2>1, <2>2, CallStep, NextFollows DEF Plain, SameVm
<1>4. CASE ResizeStartVm(f)
  <2> DEFINE label == IF HasConn(f) THEN "memory" ELSE "persist"
             done  == Marked(f, label, "vmStarted")
  <2>1. /\ RemoteStep(f, VmStarted(f), done, Thrown(f, "undoType", "other"))
        /\ host[Srv(f)].vm # "absent" \/ VmsStay
    BY <1>4 DEF ResizeStartVm, RemoteCall, RemoteStep, VmExists, VmsStay
  <2>2. flow[f].op = "resize" /\ VmStarted(f) \in Host
    BY <1>4, EffectType DEF ResizeStartVm, At, Inv
  <2>3. Follows(f, done) /\ done.at = label /\ ~done.checked
    BY NextFollows
  <2>4. Plain(f, done.at) \/ Become(f, Thrown(f, "undoType", "other"))
        \/ ProgressInv(f)'
    <3>1. CASE HasConn(f)
      BY <2>3, <3>1 DEF Plain
    <3>2. CASE ~HasConn(f) /\ Become(f, done)
      <4>1. flow'[f] = done
        BY <3>2 DEF Inv, TypeOK, Become
      <4> QED
        BY <2>2, <2>3, <3>2, <4>1 DEF HasConn, Follows, ProgressInv
    <3> QED
      BY <2>1, <3>1, <3>2 DEF RemoteStep
  <2> HIDE DEF done
  <2> QED
    BY <2>1, <2>2, <2>3, <2>4, CallStep, NextFollows DEF Plain
<1>5. CASE ResizeMemory(f)
  <2> DEFINE done   == Marked(f, "up", "composeUpdated")
             thrown == Thrown(f, "undoType", "other")
  <2>1. PICK next \in {done, Lost(done)} :
          /\ RemoteStep(f, SetMemory(f, flow[f].newType), next, thrown)
          /\ Become(f, thrown) \/ flow[f].server.staticIp = "ip"
    BY <1>5 DEF ResizeMemory, SshCall, SilentLoss, RemoteStep,
                HasDocker, Reachable
  <2>2. /\ flow[f].op = "resize"
        /\ SameVm(f, SetMemory(f, flow[f].newType))
    BY <1>5, FlowFacts, SameVms DEF ResizeMemory, At, Flow
  <2>3. /\ Follows(f, next) /\ next.at = "up" /\ ~next.checked
        /\ Follows(f, thrown) /\ thrown.at = "undoType"
    BY NextFollows, LostFollows
  <2> HIDE DEF done, thrown
  <2> QED
    BY <2>1, <2>2, <2>3, SshStep DEF Plain
<1>6. CASE ResizeUp(f)
  <2> DEFINE done   == To(f, "persist")
             thrown == Thrown(f, "undoType", "other")
  <2>1. PICK next \in {done, Lost(done)} :
          /\ RemoteStep(f, Up(f), next, thrown)
          /\ Become(f, thrown) \/ flow[f].server.staticIp = "ip"
    BY <1>6 DEF ResizeUp, SshCall, SilentLoss, RemoteStep, HasDocker, Reachable
  <2>2. flow[f].op = "resize" /\ SameVm(f, Up(f))
    BY <1>6, SameVms DEF ResizeUp, At
  <2>3. /\ Follows(f, next) /\ next.at = "persist" /\ ~next.checked
        /\ Follows(f, thrown) /\ thrown.at = "undoType"
    BY NextFollows, LostFollows
  <2> HIDE DEF done, thrown
  <2> QED
    BY <2>1, <2>2, <2>3, SshStep DEF Plain
<1>7. CASE ResizePersist(f)
  <2> DEFINE row == [servers[Srv(f)] EXCEPT !.instanceType = flow[f].newType]
  <2>1. /\ row \in Row /\ row.staticIp = servers[Srv(f)].staticIp
        /\ row.errorMessage = servers[Srv(f)].errorMessage
    BY FlowFacts DEF Row, Flow
  <2>2. flow[f].op = "resize" /\ flow[f].at = "persist"
    BY <1>7 DEF ResizePersist, At
  <2>3. UpdateStatus(f, "running", row, "ok", "undoType")
    BY <1>7 DEF ResizePersist
  <2>4. flow[f].server.staticIp \in {"none", "ip", "zero"}
    BY FlowFacts DEF Flow, Row
  <2>5. flow[f].checked => servers[Srv(f)].staticIp = "ip"
    BY <2>2, <2>4, FlowFacts DEF ProgressInv, StandingInv
  <2>6. IsValidStatusTransition(servers[Srv(f)].status, "running") =>
          flow[f].server.staticIp # "none"
    BY <2>2, FlowFacts
       DEF StandingInv, IsValidStatusTransition, ValidTransitions
  <2> HIDE DEF row
  <2> QED
    BY <2>1, <2>2, <2>3, <2>5, <2>6, StatusStep DEF Plain
<1> QED
  BY <1>1, <1>2, <1>3, <1>4, <1>5, <1>6, <1>7 DEF ResizeSteps

\* One attempt of a rollback.
LEMMA UndoStep ==
  ASSUME Inv, TypeOK', NEW f \in Flows, NEW needed, NEW can,
         NEW effect \in Host, NEW next,
         \/ Undo(f, needed, can, effect, next)
         \/ UndoOverSsh(f, needed, can, effect, next),
         flow[f].op = "resize", Plain(f, next),
         can => (effect.vm # "absent" => host[Srv(f)].vm # "absent")
  PROVE  Inv'
<1>1. CASE needed
  <2> DEFINE done   == To(f, next)
             thrown == Marked(f, next, "undoFailed")
  <2>1. RemoteStep(f, effect, done, thrown) /\ (can \/ VmsStay)
    <3>1. CASE RemoteCall(f, can, effect, done, thrown)
      BY <3>1 DEF RemoteCall, RemoteStep, VmsStay
    <3>2. CASE SshCall(f, can, effect, done, thrown) \/ SilentLoss(f, done)
      BY <3>2, SshIsRemote
    <3> QED
      BY <1>1, <3>1, <3>2 DEF Undo, UndoOverSsh
  <2>2. effect.vm # "absent" => host[Srv(f)].vm # "absent" \/ VmsStay
    BY <2>1
  <2>3. /\ Follows(f, done) /\ Follows(f, thrown)
        /\ Plain(f, done.at) /\ Plain(f, thrown.at)
    BY NextFollows
  <2> HIDE DEF done, thrown
  <2> QED
    BY <2>1, <2>2, <2>3, CallStep
<1>2. CASE ~needed
  <2>1. Skip(f, next)
    BY <1>2 DEF Undo, UndoOverSsh
  <2> QED
    BY <2>1, SkipStep
<1> QED
  BY <1>1, <1>2

LEMMA RollbackInv ==
  ASSUME Inv, TypeOK', NEW f \in Flows, RollbackSteps(f)
  PROVE  Inv'
<1>1. CASE UndoType(f)
  <2>1. SameVm(f, VmResized(f, Original(f)))
    BY FlowFacts, SameVms DEF Original, Flow, Row
  <2> QED
    BY <1>1, <2>1, UndoStep DEF UndoType, At, Plain, SameVm
<1>2. CASE UndoVm(f)
  <2>1. /\ VmExists(f) => host[Srv(f)].vm # "absent"
        /\ VmStarted(f) \in Host
    BY EffectType DEF VmExists, Inv
  <2> QED
    BY <1>2, <2>1, UndoStep DEF UndoVm, At, Plain
<1>3. CASE UndoMemory(f)
  <2>1. SameVm(f, SetMemory(f, Original(f)))
    BY FlowFacts, SameVms DEF Original, Flow, Row
  <2> DEFINE needed == /\ HasConn(f) /\ Has(f, "composeUpdated")
                       /\ Original(f) \in Catalog
  <2>2. /\ UndoOverSsh(f, needed, HasDocker(f), SetMemory(f, Original(f)),
                       "undoUp")
        /\ flow[f].op = "resize"
    BY <1>3 DEF UndoMemory, At
  <2> HIDE DEF needed
  <2> QED
    BY <2>1, <2>2, UndoStep DEF Plain, SameVm
<1>4. CASE UndoDown(f)
  <2>1. SameVm(f, Up(f))
    BY SameVms
  <2> QED
    BY <1>4, <2>1, UndoStep DEF UndoDown, At, Plain, SameVm
<1>5. CASE FinishRollback(f)
  <2>1. CASE Has(f, "undoFailed")
    <3>1. flow[f].op = "resize" /\ Skip(f, "rollbackFailed")
      BY <1>5, <2>1 DEF FinishRollback, At
    <3> QED
      BY <3>1, SkipStep DEF Plain
  <2>2. CASE ~Has(f, "undoFailed")
    <3>1. flow[f].op = "resize" /\ Skip(f, "rolledBack")
      BY <1>5, <2>2 DEF FinishRollback, At
    <3> QED
      BY <3>1, SkipStep DEF Plain
  <2> QED
    BY <2>1, <2>2
<1> QED
  BY <1>1, <1>2, <1>3, <1>4, <1>5 DEF RollbackSteps

\* A call that establishes nothing.
LEMMA PlainCall ==
  ASSUME Inv, TypeOK', NEW f \in Flows, NEW can, NEW effect \in Host,
         NEW ok, NEW failed,
         RemoteStep(f, effect, To(f, ok), Thrown(f, failed, "other")),
         can \/ VmsStay,
         flow[f].op # "deploy", Plain(f, ok), Plain(f, failed),
         can => (effect.vm # "absent" => host[Srv(f)].vm # "absent")
  PROVE  Inv'
<1> DEFINE done   == To(f, ok)
           thrown == Thrown(f, failed, "other")
<1>1. effect.vm # "absent" => host[Srv(f)].vm # "absent" \/ VmsStay
  OBVIOUS
<1>2. /\ Follows(f, done) /\ Follows(f, thrown)
      /\ Plain(f, done.at) /\ Plain(f, thrown.at)
  BY NextFollows
<1>3. RemoteStep(f, effect, done, thrown)
  OBVIOUS
<1> HIDE DEF done, thrown
<1> QED
  BY <1>1, <1>2, <1>3, CallStep

\* A command that establishes nothing, and one of the cloud provider.
LEMMA PlainExec ==
  ASSUME Inv, TypeOK', NEW f \in Flows, NEW can, NEW effect, NEW ok, NEW failed,
         Exec(f, can, effect, ok, failed),
         flow[f].op # "deploy", Plain(f, ok), Plain(f, failed),
         SameVm(f, effect)
  PROVE  Inv'
<1>1. /\ RemoteStep(f, effect, To(f, ok), Thrown(f, failed, "other"))
      /\ can \/ VmsStay
  BY SshIsRemote DEF Exec
<1> QED
  BY <1>1, PlainCall DEF SameVm

LEMMA PlainCloudCall ==
  ASSUME Inv, TypeOK', NEW f \in Flows, NEW can, NEW effect \in Host,
         NEW ok, NEW failed,
         CloudCall(f, can, effect, ok, failed),
         flow[f].op # "deploy", Plain(f, ok), Plain(f, failed),
         can => host[Srv(f)].vm # "absent"
  PROVE  Inv'
<1>1. /\ RemoteStep(f, effect, To(f, ok), Thrown(f, failed, "other"))
      /\ can \/ VmsStay
  BY DEF CloudCall, RemoteCall, RemoteStep, VmsStay
<1> QED
  BY <1>1, PlainCall

LEMMA BackupServiceInv ==
  ASSUME Inv, TypeOK', NEW f \in Flows, BackupServiceSteps(f)
  PROVE  Inv'
<1>1. CASE BackupTar(f)
  <2>1. PICK file \in {"complete", "truncated"} :
          RemoteStep(f, host[Srv(f)], Tarred(f, file),
                     Thrown(f, "error", "other"))
    BY <1>1 DEF BackupTar, SshCall, SilentLoss, RemoteStep
  <2> DEFINE done   == Tarred(f, file)
             thrown == Thrown(f, "error", "other")
  <2>2. /\ Follows(f, done) /\ done.at = "download" /\ done.file = file
        /\ ~done.checked
    BY FlowFacts DEF Tarred, To, Follows, Flow
  <2>3. Follows(f, thrown) /\ Plain(f, thrown.at)
    BY NextFollows DEF Plain
  <2>4. flow[f].op # "deploy"
    BY <1>1 DEF BackupTar, InBackup
  <2>5. ASSUME Become(f, done)
        PROVE  ProgressInv(f)'
    <3>1. flow'[f] = done
      BY <2>5 DEF Inv, TypeOK, Become
    <3> QED
      BY <2>2, <2>4, <3>1 DEF Follows, ProgressInv
  <2>6. Become(f, thrown) \/ ProgressInv(f)'
    BY <2>1, <2>5 DEF RemoteStep
  <2> HIDE DEF done, thrown
  <2>7. RemoteStep(f, host[Srv(f)], done, thrown)
    BY <2>1 DEF done, thrown
  <2> QED
    BY <2>2, <2>3, <2>4, <2>6, <2>7, CallStep, SameVms DEF SameVm
<1>2. CASE BackupDownload(f)
  <2>1. /\ flow[f].op \in {"backup", "archive", "update"}
        /\ UNCHANGED servers /\ NoNewVm
    <3>1. OverSsh(f, host[Srv(f)]).vm = host[Srv(f)].vm
      BY FlowFacts, ClientSaysNothing
    <3>2. Srv(f) \in Servers /\ host \in [Servers -> Host]
      BY FlowFacts DEF Inv, TypeOK
    <3> QED
      BY <1>2, <3>1, <3>2 DEF BackupDownload, InBackup, NoNewVm
  <2>2. /\ Srv(f) \in Servers /\ backups \in [Servers -> SUBSET Tarballs]
        /\ flow[f].file \in {"complete", "truncated"}
    BY <1>2, FlowFacts
       DEF Inv, TypeOK, Flow, Tarballs, ProgressInv, BackupDownload, InBackup
  <2>3. CASE /\ Reachable(f) /\ Goto(f, "rm")
             /\ backups' = [backups EXCEPT ![Srv(f)] = @ \union {flow[f].file}]
    <3> DEFINE next == To(f, "rm")
    <3>1. flow' = [flow EXCEPT ![f] = next] /\ Follows(f, next) /\ next.at = "rm"
      BY <2>3, NextFollows DEF Goto, Become
    <3>2. BackupsKept /\ Downloaded(Srv(f))'
      <4>1. \A s \in Servers : backups[s] \subseteq backups'[s]
        BY <2>2, <2>3
      <4>2. flow[f].file \in backups'[Srv(f)] /\ Srv(f)' = Srv(f)
        BY <2>2, <2>3, <3>1 DEF Follows, Srv, Inv, TypeOK
      <4> QED
        BY <2>2, <4>1, <4>2 DEF BackupsKept, Downloaded
    <3>3. flow'[f] = next
      BY <3>1 DEF Inv, TypeOK
    <3> HIDE DEF next
    <3>4. ProgressInv(f)'
      BY <2>1, <2>3, <3>1, <3>2, <3>3 DEF ProgressInv, Follows, Srv, Reachable
    <3> QED
      BY <2>1, <3>1, <3>2, <3>4, OperationStep
  <2>4. CASE /\ Throw(f, "error", "other")
             /\ \/ UNCHANGED backups
                \/ backups' = [backups EXCEPT ![Srv(f)] = @ \union {"partial"}]
    <3> DEFINE next == Thrown(f, "error", "other")
    <3>1. flow' = [flow EXCEPT ![f] = next] /\ Follows(f, next)
          /\ Plain(f, next.at)
      BY <2>4, NextFollows DEF Throw, Become, Plain
    <3>2. BackupsKept
      BY <2>2, <2>4 DEF BackupsKept, Downloaded
    <3> HIDE DEF next
    <3>3. ProgressInv(f)'
      BY <3>1, PlainProgress
    <3> QED
      BY <2>1, <3>1, <3>2, <3>3, OperationStep
  <2> QED
    BY <1>2, <2>3, <2>4 DEF BackupDownload
<1>3. CASE BackupCleanup(f)
  <2>1. CASE flow[f].op = "archive"
    <3> DEFINE done == To(f, "destroy")
    <3>1. /\ RemoteStep(f, host[Srv(f)], done, Thrown(f, "error", "other"))
          /\ Downloaded(Srv(f)) /\ flow[f].server.staticIp = "ip"
          /\ UNCHANGED backups
      BY <1>3, <2>1, FlowFacts
         DEF BackupCleanup, InBackup, AfterBackup, SshCall,
             RemoteStep, ProgressInv, Exec, SilentLoss
    <3>2. Follows(f, done) /\ done.at = "destroy"
      BY NextFollows
    <3>3. Become(f, done) => flow'[f] = done
      BY DEF Inv, TypeOK, Become
    <3> HIDE DEF done
    <3>4. Become(f, done) => ProgressInv(f)'
      BY <3>1, <3>2, <3>3 DEF ProgressInv, Follows, Srv, Downloaded
    <3> DEFINE thrown == Thrown(f, "error", "other")
    <3>5. Follows(f, thrown) /\ Plain(f, thrown.at)
      BY NextFollows DEF Plain
    <3>6. Become(f, thrown) \/ ProgressInv(f)'
      BY <3>1, <3>4 DEF RemoteStep
    <3> QED
      BY <2>1, <3>1, <3>2, <3>5, <3>6, CallStep, SameVms DEF SameVm
  <2>2. CASE flow[f].op = "backup"
    <3>1. Exec(f, Reachable(f), host[Srv(f)], "ok", "error")
      BY <1>3, <2>2 DEF BackupCleanup, AfterBackup
    <3> QED
      BY <2>2, <3>1, PlainExec, SameVms DEF Plain
  <2>3. CASE flow[f].op = "update"
    <3>1. Exec(f, Reachable(f), host[Srv(f)], "broadcast", "error")
      BY <1>3, <2>3 DEF BackupCleanup, AfterBackup
    <3> QED
      BY <2>3, <3>1, PlainExec, SameVms DEF Plain
  <2> QED
    BY <1>3, <2>1, <2>2, <2>3 DEF BackupCleanup, InBackup
<1>4. CASE RestoreStop(f)
  BY <1>4, PlainExec, SameVms DEF RestoreStop, At, Plain
<1>5. CASE RestoreUpload(f)
  <2>1. /\ RemoteStep(f, host[Srv(f)], To(f, "untar"),
                      Thrown(f, "error", "other"))
        /\ flow[f].op = "restore"
    BY <1>5 DEF RestoreUpload, SshCall, RemoteStep, At
  <2>2. VmsStay
    <3>1. Srv(f) \in Servers /\ host \in [Servers -> Host]
      BY FlowFacts DEF Inv, TypeOK
    <3>2. OverSsh(f, host[Srv(f)]).vm = host[Srv(f)].vm
      BY FlowFacts, ClientSaysNothing
    <3> QED
      BY <1>5, <3>1, <3>2 DEF RestoreUpload, SshCall, VmsStay
  <2> QED
    BY <2>1, <2>2, PlainCall, SameVms DEF Plain, SameVm
<1>6. CASE RestoreUntar(f)
  BY <1>6, PlainExec, SameVms DEF RestoreUntar, At, Plain
<1>7. CASE RestoreUp(f)
  BY <1>7, PlainExec, SameVms DEF RestoreUp, At, Plain
<1> QED
  BY <1>1, <1>2, <1>3, <1>4, <1>5, <1>6, <1>7
     DEF BackupServiceSteps, BackupSteps, RestoreSteps

\* An RCON command stops no VM and starts none.
LEMMA RconStep ==
  ASSUME Inv, TypeOK', NEW f \in Flows, NEW quits, NEW ok, NEW failed,
         RconCall(f, quits, ok, failed),
         flow[f].op # "deploy", Plain(f, ok), Plain(f, failed)
  PROVE  Inv'
<1>1. UNCHANGED servers /\ BackupsKept
  BY DEF RconCall, BackupsKept, Downloaded
<1>2. NoNewVm
  <2>1. host \in [Servers -> Host] /\ (rcon # Nobody => rcon \in Servers)
    BY DEF Inv, TypeOK
  <2>2. host' = host \/ (rcon # Nobody
                         /\ host' = [host EXCEPT ![rcon].container = "exited"])
    BY DEF RconCall
  <2> QED
    BY <2>1, <2>2 DEF NoNewVm, Host
<1>3. ASSUME NEW next, flow' = [flow EXCEPT ![f] = next],
             Follows(f, next), NEW label, next.at = label, Plain(f, label)
      PROVE  Inv'
  BY <1>1, <1>2, <1>3, PlainProgress, OperationStep
<1>4. ASSUME NEW label, Goto(f, label), Plain(f, label)
      PROVE  Inv'
  <2>1. /\ flow' = [flow EXCEPT ![f] = To(f, label)]
        /\ Follows(f, To(f, label)) /\ To(f, label).at = label
    BY <1>4, NextFollows DEF Goto, Become
  <2> QED
    BY <1>3, <1>4, <2>1
<1>5. CASE Throw(f, failed, "other")
  <2> DEFINE next == Thrown(f, failed, "other")
  <2>1. /\ flow' = [flow EXCEPT ![f] = next]
        /\ Follows(f, next) /\ next.at = failed
    BY <1>5, NextFollows DEF Throw, Become
  <2> HIDE DEF next
  <2> QED
    BY <1>3, <2>1
<1>6. Plain(f, "hung")
  BY DEF Plain
<1> QED
  BY <1>4, <1>5, <1>6 DEF RconCall

\* A docker command that leads up to a write of "running".
LEMMA DockerStep ==
  ASSUME Inv, TypeOK', NEW f \in Flows, NEW effect,
         NEW ok \in {"markRunning", "undoMarkRunning"}, NEW failed,
         Exec(f, HasDocker(f), effect, ok, failed),
         flow[f].op # "deploy", Plain(f, failed), SameVm(f, effect)
  PROVE  Inv'
<1>1. /\ RemoteStep(f, effect, To(f, ok), Thrown(f, failed, "other"))
      /\ \/ Become(f, Thrown(f, failed, "other"))
         \/ flow[f].server.staticIp = "ip"
  BY DEF Exec, SshCall, SilentLoss,
           RemoteStep, HasDocker, Reachable
<1> QED
  BY <1>1, SshStep, NextFollows

LEMMA UpdateFlowInv ==
  ASSUME Inv, TypeOK', NEW f \in Flows, UpdateFlowSteps(f)
  PROVE  Inv'
<1>0. SameVm(f, Up(f)) /\ SameVm(f, host[Srv(f)])
  BY SameVms
<1>1. CASE UpdateBroadcast(f)
  BY <1>1, RconStep DEF UpdateBroadcast, At, Plain
<1>2. CASE UpdateSave(f)
  BY <1>2, RconStep DEF UpdateSave, At, Plain
<1>3. CASE UpdateQuit(f)
  BY <1>3, RconStep DEF UpdateQuit, At, Plain
<1>4. CASE UpdatePull(f)
  BY <1>0, <1>4, PlainExec DEF UpdatePull, At, Plain
<1>5. CASE UpdateUp(f)
  BY <1>0, <1>5, PlainExec DEF UpdateUp, At, Plain
<1>6. CASE UpdateHealthCheck(f)
  BY <1>0, <1>6, DockerStep DEF UpdateHealthCheck, At, Plain
<1>7. CASE UpdateMarkRunning(f)
  BY <1>7, StatusStep, FlowFacts
     DEF UpdateMarkRunning, At, Plain, StandingInv, ProgressInv
<1>8. CASE UpdateUndoUp(f)
  BY <1>0, <1>8, DockerStep DEF UpdateUndoUp, At, Plain
<1>9. CASE UpdateUndoMarkRunning(f)
  BY <1>9, StatusStep, FlowFacts
     DEF UpdateUndoMarkRunning, At, Plain, StandingInv, ProgressInv
<1>10. CASE UpdateMarkFailed(f)
  <2> DEFINE row == [servers[Srv(f)] EXCEPT !.errorMessage = "other"]
  <2>1. /\ row \in Row /\ row.staticIp = servers[Srv(f)].staticIp
        /\ row.errorMessage = "other"
    BY FlowFacts DEF Row, ErrorKinds
  <2>2. /\ flow[f].op = "update" /\ flow[f].at = "updateFailed"
        /\ UpdateStatus(f, "failed", row, "error", "error")
    BY <1>10 DEF UpdateMarkFailed, At
  <2> HIDE DEF row
  <2> QED
    BY <2>1, <2>2, StatusStep DEF Plain
<1>11. CASE RestartSave(f)
  BY <1>11, RconStep DEF RestartSave, At, Plain
<1>12. CASE RestartQuit(f)
  BY <1>12, RconStep DEF RestartQuit, At, Plain
<1>13. CASE RestartUp(f)
  BY <1>0, <1>13, DockerStep DEF RestartUp, At, Plain
<1>14. CASE RestartMarkRunning(f)
  BY <1>14, StatusStep, FlowFacts
     DEF RestartMarkRunning, At, Plain, StandingInv, ProgressInv
<1> QED
  BY <1>1, <1>2, <1>3, <1>4, <1>5, <1>6, <1>7, <1>8, <1>9, <1>10,
     <1>11, <1>12, <1>13, <1>14
     DEF UpdateFlowSteps, UpdateSteps, QuickRestartSteps

MadeAbsent(f) == Destroyed(f) \in Host /\ Destroyed(f).vm = "absent"

LEMMA DestroyedFacts ==
  ASSUME Inv, NEW f \in Flows
  PROVE  MadeAbsent(f)
<1>1. HangUp(host[Srv(f)]) \in Host /\ Destroyed(f) \in Host
  BY FlowFacts, ClientType, EffectType DEF Inv
<1> QED
  BY <1>1 DEF MadeAbsent, Destroyed, NoHost, Host

LEMMA ArchiveInv ==
  ASSUME Inv, TypeOK', NEW f \in Flows, ArchiveSteps(f)
  PROVE  Inv'
<1>0. MadeAbsent(f)
  BY DestroyedFacts
<1>1. CASE ArchiveDestroy(f)
  <2>1. PICK thrown \in {Thrown(f, "error", "other"), To(f, "destroyFailed")} :
          RemoteCall(f, TRUE, Destroyed(f), To(f, "markArchived"), thrown)
    BY <1>1 DEF ArchiveDestroy
  <2>2. Destroyed(f).vm = "absent"
    BY <1>0 DEF MadeAbsent
  <2>3. /\ flow[f].op = "archive" /\ Srv(f) \in Servers
        /\ Downloaded(Srv(f)) /\ flow[f].server.staticIp = "ip"
    BY <1>1, FlowFacts DEF ArchiveDestroy, At, ProgressInv
  <2>4. UNCHANGED <<servers, backups>> /\ NoNewVm /\ BackupsKept
    <3>1. RemoteStep(f, Destroyed(f), To(f, "markArchived"), thrown)
      BY <2>1 DEF RemoteCall, RemoteStep
    <3> QED
      BY <1>0, <2>2, <3>1, EffectKeepsVm
         DEF MadeAbsent, RemoteStep, BackupsKept, Downloaded
  <2>5. ASSUME NEW next, flow' = [flow EXCEPT ![f] = next], Follows(f, next),
               \/ next.at \in {"error", "destroyFailed"}
               \/ next.at = "markArchived" /\ host'[Srv(f)].vm = "absent"
        PROVE  Inv'
    <3>1. flow'[f] = next
      BY <2>5 DEF Inv, TypeOK
    <3>2. ProgressInv(f)'
      BY <2>3, <2>4, <2>5, <3>1 DEF ProgressInv, Follows, Srv, Downloaded
    <3> QED
      BY <2>3, <2>4, <2>5, <3>2, OperationStep
  <2>6. CASE Become(f, To(f, "markArchived"))
             /\ host' = [host EXCEPT ![Srv(f)] = Destroyed(f)]
    <3>1. host'[Srv(f)].vm = "absent"
      BY <2>2, <2>3, <2>6 DEF Inv, TypeOK
    <3> QED
      BY <2>5, <2>6, <3>1, NextFollows DEF Become
  <2>7. CASE Become(f, thrown)
    <3>1. Follows(f, thrown) /\ thrown.at \in {"error", "destroyFailed"}
      BY <2>1, NextFollows
    <3> QED
      BY <2>5, <2>7, <3>1 DEF Become
  <2> QED
    BY <2>1, <2>6, <2>7 DEF RemoteCall
<1>2. CASE ArchiveMarkFailed(f)
  <2> DEFINE row == [servers[Srv(f)] EXCEPT !.errorMessage = "other"]
  <2>1. /\ row \in Row /\ row.staticIp = servers[Srv(f)].staticIp
        /\ row.errorMessage = "other"
    BY FlowFacts DEF Row, ErrorKinds
  <2>2. /\ flow[f].op = "archive" /\ flow[f].at = "destroyFailed"
        /\ UpdateStatus(f, "failed", row, "error", "error")
    BY <1>2 DEF ArchiveMarkFailed, At
  <2> HIDE DEF row
  <2> QED
    BY <2>1, <2>2, StatusStep DEF Plain
<1>3. CASE ArchiveMarkArchived(f)
  <2> DEFINE row == [servers[Srv(f)] EXCEPT !.backupPath = "path"]
  <2>1. /\ row \in Row /\ row.staticIp = servers[Srv(f)].staticIp
        /\ row.errorMessage = servers[Srv(f)].errorMessage
        /\ row.backupPath = "path"
    BY FlowFacts DEF Row
  <2>2. /\ flow[f].op = "archive" /\ flow[f].at = "markArchived"
        /\ UpdateStatus(f, "archived", row, "listTasks", "error")
    BY <1>3 DEF ArchiveMarkArchived, At
  <2>3. /\ host[Srv(f)].vm = "absent" /\ Downloaded(Srv(f))
        /\ servers[Srv(f)].staticIp = "ip"
    BY <2>2, FlowFacts DEF ProgressInv, StandingInv
  <2> HIDE DEF row
  <2> QED
    BY <2>1, <2>2, <2>3, StatusStep DEF Plain
<1>4. ASSUME NEW next, flow' = [flow EXCEPT ![f] = next],
             UNCHANGED <<servers, host, backups>>,
             flow[f].op = "archive", Follows(f, next),
             next.at \in {"disableTasks", "ok", "error"}
      PROVE  Inv'
  <2>1. NoNewVm /\ BackupsKept
    BY <1>4 DEF NoNewVm, BackupsKept, Downloaded
  <2>2. ProgressInv(f)'
    BY <1>4, PlainProgress DEF Plain
  <2> QED
    BY <1>4, <2>1, <2>2, OperationStep
<1>5. CASE ArchiveListTasks(f)
  <2> DEFINE next == [flow[f] EXCEPT !.at = "disableTasks",
                                     !.listed = tasks[Srv(f)]]
  <2>1. Follows(f, next) /\ next.at = "disableTasks"
    BY FlowFacts DEF Follows, Flow
  <2>2. flow' = [flow EXCEPT ![f] = next] /\ flow[f].op = "archive"
        /\ UNCHANGED <<servers, host, backups>>
    BY <1>5 DEF ArchiveListTasks, At, Inv, TypeOK
  <2> HIDE DEF next
  <2> QED
    BY <1>4, <2>1, <2>2
<1>6. CASE ArchiveDisableTasks(f)
  BY <1>4, <1>6, NextFollows DEF ArchiveDisableTasks, At, Goto, Throw, Become
<1> QED
  BY <1>1, <1>2, <1>3, <1>5, <1>6 DEF ArchiveSteps

LEMMA RecoveryInv ==
  ASSUME Inv, TypeOK', NEW f \in Flows, RecoverySteps(f)
  PROVE  Inv'
<1>0. /\ SameVm(f, Up(f)) /\ SameVm(f, Bootstrapped(host[Srv(f)]))
      /\ MadeAbsent(f)
  BY SameVms, DestroyedFacts
<1>1. CASE RecoveryDestroy(f)
  <2>1. PICK thrown \in {Thrown(f, "error", "other"), To(f, "markFailed")} :
          RemoteCall(f, TRUE, Destroyed(f), To(f, "markFailed"), thrown)
    BY <1>1 DEF RecoveryDestroy
  <2>2. RemoteStep(f, Destroyed(f), To(f, "markFailed"), thrown)
    BY <2>1 DEF RemoteCall, RemoteStep
  <2>3. Follows(f, thrown) /\ thrown.at \in {"error", "markFailed"}
    BY <2>1, NextFollows
  <2>4. flow[f].op = "destroy"
    BY <1>1 DEF RecoveryDestroy, At
  <2> QED
    BY <1>0, <2>2, <2>3, <2>4, CallStep, NextFollows DEF Plain, MadeAbsent
<1>2. CASE RecoveryStopVm(f)
  <2>1. VmExists(f) => host[Srv(f)].vm # "absent"
    BY DEF VmExists
  <2>2. VmStopped(f) \in Host
    BY EffectType DEF Inv
  <2> QED
    BY <1>2, <2>1, <2>2, PlainCloudCall DEF RecoveryStopVm, At, Plain
<1>3. CASE RecoveryStartVm(f)
  <2>1. VmExists(f) => host[Srv(f)].vm # "absent"
    BY DEF VmExists
  <2>2. VmStarted(f) \in Host
    BY EffectType DEF Inv
  <2> QED
    BY <1>3, <2>1, <2>2, PlainCloudCall DEF RecoveryStartVm, At, Plain
<1>4. CASE RecoveryMarkFailed(f)
  <2> DEFINE row == IF flow[f].op = "retryVmBoot"
                    THEN [servers[Srv(f)] EXCEPT !.errorMessage = "panel"]
                    ELSE servers[Srv(f)]
  <2>1. servers[Srv(f)].errorMessage # "none"
    BY <1>4, FlowFacts DEF RecoveryMarkFailed, PanelInv
  <2>2. /\ row \in Row /\ row.staticIp = servers[Srv(f)].staticIp
        /\ row.errorMessage # "none"
    BY <2>1, FlowFacts DEF Row, ErrorKinds
  <2>3. /\ flow[f].op \in {"destroy", "abort", "retryVmBoot"}
        /\ UpdateStatus(f, "failed", row, "ok", "error")
    BY <1>4 DEF RecoveryMarkFailed
  <2> HIDE DEF row
  <2> QED
    BY <2>2, <2>3, StatusStep DEF Plain
<1>5. CASE RecoveryReconfigure(f)
  <2> DEFINE row  == [servers[Srv(f)] EXCEPT !.errorMessage = "panel"]
             next == To(f, "ok")
  <2>1. /\ row \in Row /\ row.staticIp = servers[Srv(f)].staticIp
        /\ row.errorMessage = "panel" /\ row.status = servers[Srv(f)].status
        /\ row.backupPath = servers[Srv(f)].backupPath
    BY FlowFacts DEF Row, ErrorKinds
  <2>2. /\ flow[f].op = "reconfigure"
        /\ servers[Srv(f)].status \notin {"absent", "provisioning"}
    BY <1>5, FlowFacts DEF RecoveryReconfigure, At, PanelInv
  <2>7. CASE WriteRefused(f, "error")
    BY <2>2, <2>7, RefusedStep DEF Plain
  <2> SUFFICES ASSUME ~WriteRefused(f, "error")
               PROVE  Inv'
    BY <2>7
  <2>3. /\ servers' = [servers EXCEPT ![Srv(f)] = row]
        /\ flow' = [flow EXCEPT ![f] = next]
        /\ UNCHANGED <<host, backups>>
    BY <1>5, <2>2 DEF RecoveryReconfigure, UpdateRow, Goto, Become
  <2>4. Follows(f, next) /\ next.at = "ok"
    BY NextFollows
  <2>5. servers[Srv(f)].status \in {"running", "stopped", "failed", "archived"}
    BY <2>2, FlowFacts DEF Row, ServerStatus
  <2>6. /\ servers[Srv(f)].status # "failed" => servers[Srv(f)].staticIp = "ip"
        /\ servers[Srv(f)].status = "archived" =>
             /\ host[Srv(f)].vm = "absent" /\ Downloaded(Srv(f))
             /\ servers[Srv(f)].backupPath = "path"
    BY <2>5, FlowFacts DEF RowInv
  <2> HIDE DEF row, next
  <2> QED
    BY <2>1, <2>2, <2>3, <2>4, <2>5, <2>6, RowWritten DEF Plain
<1>6. CASE RecoveryBootstrap(f)
  <2>1. PICK there \in BOOLEAN :
          Exec(f, there /\ Reachable(f), Bootstrapped(host[Srv(f)]),
               "ok", "error")
    BY <1>6 DEF RecoveryBootstrap
  <2>2. flow[f].op # "deploy"
    BY <1>6 DEF RecoveryBootstrap, At
  <2> DEFINE can    == there /\ Reachable(f)
             effect == Bootstrapped(host[Srv(f)])
  <2>3. Exec(f, can, effect, "ok", "error") /\ SameVm(f, effect)
    BY <1>0, <2>1
  <2> HIDE DEF can, effect
  <2> QED
    BY <2>2, <2>3, PlainExec DEF Plain
<1>7. CASE RecoveryRestart(f)
  BY <1>0, <1>7, PlainExec DEF RecoveryRestart, At, Plain
<1> QED
  BY <1>1, <1>2, <1>3, <1>4, <1>5, <1>6, <1>7 DEF RecoverySteps

-----------------------------------------------------------------------------
(* A deployment keeps Inv.                                                 *)

\* A deployment moves on without writing its row.
LEMMA DeployStep ==
  ASSUME Inv, TypeOK', NEW f \in Flows, NEW next,
         flow' = [flow EXCEPT ![f] = next], Follows(f, next),
         flow[f].op = "deploy", flow[f].at \notin Terminal,
         UNCHANGED servers, NoNewVm, BackupsKept, DeployInv(f)'
  PROVE  Inv'
<1>1. flow'[f] = next /\ FlowInv(f)
  BY DEF Inv, TypeOK
<1>2. PanelInv(f)' /\ StandingInv(f)' /\ ProgressInv(f)'
  BY <1>1 DEF Follows, FlowInv, PanelInv, StandingInv, ProgressInv, Srv
<1>3. FlowInv(f)'
  BY <1>2 DEF FlowInv
<1>4. OneDeploymentEach'
  BY DeploymentsStay DEF Follows
<1> QED
  BY <1>3, <1>4, OtherFlows DEF Inv

\* A deployment that fails before its row says more than "provisioning".
LEMMA DeployThrows ==
  ASSUME Inv, TypeOK', NEW f \in Flows, NEW error, error # "none",
         Throw(f, "deployFailed", error),
         flow[f].op = "deploy", flow[f].at \notin Terminal,
         UNCHANGED servers, NoNewVm, BackupsKept
  PROVE  Inv'
<1> DEFINE next == Thrown(f, "deployFailed", error)
<1>1. flow' = [flow EXCEPT ![f] = next] /\ flow'[f] = next
  BY DEF Throw, Become, Inv, TypeOK
<1>2. Follows(f, next) /\ next.at = "deployFailed" /\ next.error = error
  BY NextFollows
<1>3. servers[Srv(f)].status # "absent"
  BY FlowFacts DEF DeployInv
<1> HIDE DEF next
<1>4. DeployInv(f)'
  BY <1>1, <1>2, <1>3 DEF DeployInv, InDeploy, Follows, Srv
<1> QED
  BY <1>1, <1>2, <1>4, DeployStep

\* A polling loop that is left only with what the next label says.
LEMMA PollStep ==
  ASSUME Inv, TypeOK', NEW f \in Flows, NEW ready, NEW label, NEW timeout,
         Poll(f, ready, label, timeout), timeout # "none", NoNewVm,
         flow[f].op = "deploy", flow[f].at \in {"vmBoot", "cloudInit"},
         label \in {"cloudInit", "markRunning"},
         label = "markRunning" /\ ready => flow[f].ip = "ip"
  PROVE  Inv'
<1>1. /\ UNCHANGED servers /\ NoNewVm /\ BackupsKept
      /\ flow[f].at \notin Terminal
  BY DEF Poll, BackupsKept, Terminal, Downloaded
<1>2. ASSUME NEW next, flow' = [flow EXCEPT ![f] = next], Follows(f, next),
             next.ip = flow[f].ip,
             \/ next.at \in {"vmBoot", "cloudInit"}
             \/ next.at = "markRunning" /\ flow[f].ip = "ip"
      PROVE  Inv'
  <2>1. flow'[f] = next
    BY <1>2 DEF Inv, TypeOK
  <2>2. /\ flow[f].ip # "none" /\ servers[Srv(f)].staticIp = flow[f].ip
        /\ servers[Srv(f)].status # "absent"
    BY <1>1, FlowFacts DEF DeployInv, InDeploy
  <2>3. DeployInv(f)'
    BY <1>1, <1>2, <2>1, <2>2 DEF DeployInv, InDeploy, Follows, Srv
  <2> QED
    BY <1>1, <1>2, <2>3, DeployStep
<1>3. CASE ready /\ Goto(f, label)
  <2> DEFINE next == To(f, label)
  <2>1. flow' = [flow EXCEPT ![f] = next]
    BY <1>3 DEF Goto, Become
  <2>2. Follows(f, next) /\ next.at = label /\ next.ip = flow[f].ip
    BY NextFollows
  <2> HIDE DEF next
  <2> QED
    BY <1>2, <1>3, <2>1, <2>2
<1>4. CASE flow' = [flow EXCEPT ![f].polls = @ + 1]
  <2> DEFINE next == [flow[f] EXCEPT !.polls = @ + 1]
  <2>1. flow' = [flow EXCEPT ![f] = next]
    BY <1>4 DEF Inv, TypeOK
  <2>2. Follows(f, next) /\ next.at = flow[f].at /\ next.ip = flow[f].ip
    BY FlowFacts DEF Follows, Flow
  <2> HIDE DEF next
  <2> QED
    BY <1>2, <2>1, <2>2
<1>5. CASE Throw(f, "deployFailed", timeout)
  BY <1>1, <1>5, DeployThrows
<1> QED
  BY <1>3, <1>4, <1>5 DEF Poll

\* A write that throws: in its last one the deployment gives up for good.
LEMMA DeployGivesUp ==
  ASSUME Inv, TypeOK', NEW f \in Flows, NEW failed \in {"deployFailed", "error"},
         Throw(f, failed, "other"),
         flow[f].op = "deploy", flow[f].at \notin Terminal,
         UNCHANGED servers, NoNewVm, BackupsKept
  PROVE  Inv'
<1>1. CASE failed = "deployFailed"
  BY <1>1, DeployThrows
<1>2. CASE failed = "error"
  <2> DEFINE next == Thrown(f, "error", "other")
  <2>1. /\ flow' = [flow EXCEPT ![f] = next] /\ flow'[f] = next
        /\ Follows(f, next) /\ next.at = "error"
    BY <1>2, NextFollows DEF Throw, Become, Inv, TypeOK
  <2> HIDE DEF next
  <2>2. DeployInv(f)'
    BY <2>1 DEF DeployInv, InDeploy, Terminal
  <2> QED
    BY <2>1, <2>2, DeployStep
<1> QED
  BY <1>1, <1>2

LEMMA DeployRefused ==
  ASSUME Inv, TypeOK', NEW f \in Flows, NEW failed \in {"deployFailed", "error"},
         WriteRefused(f, failed),
         flow[f].op = "deploy", flow[f].at \notin Terminal
  PROVE  Inv'
<1>1. /\ Throw(f, failed, "other") /\ UNCHANGED servers
      /\ NoNewVm /\ BackupsKept
  BY DEF WriteRefused, NoNewVm, BackupsKept, Downloaded
<1> QED
  BY <1>1, DeployGivesUp

\* The row of a deployment is its own until its address is saved.
LEMMA SaveStaticIpInv ==
  ASSUME Inv, TypeOK', NEW f \in Flows, SaveStaticIp(f)
  PROVE  Inv'
<1> DEFINE s    == Srv(f)
           row  == [servers[s] EXCEPT !.staticIp = flow[f].ip]
           next == To(f, "vmBoot")
<1>1. /\ flow[f].op = "deploy" /\ flow[f].at = "saveIp" /\ flow[f].ip # "none"
      /\ servers[s].status = "provisioning" /\ servers[s].staticIp = "none"
  BY FlowFacts DEF SaveStaticIp, At, DeployInv, InDeploy
<1>2. /\ row.status = "provisioning" /\ row.staticIp = flow[f].ip
      /\ row.errorMessage = servers[s].errorMessage
  BY <1>1, FlowFacts DEF Row
<1>3. Follows(f, next) /\ next.at = "vmBoot" /\ next.ip = flow[f].ip
  BY NextFollows
<1>10. CASE WriteRefused(f, "deployFailed")
  BY <1>1, <1>10, DeployRefused DEF Terminal
<1> SUFFICES ASSUME ~WriteRefused(f, "deployFailed")
             PROVE  Inv'
  BY <1>10
<1>4. /\ flow' = [flow EXCEPT ![f] = next]
      /\ servers' = [servers EXCEPT ![s] = row]
      /\ UNCHANGED <<host, backups>>
  BY <1>1 DEF SaveStaticIp, UpdateRow, Goto, Become
<1> HIDE DEF row, next
<1>5. /\ flow'[f] = next /\ servers'[s] = row
      /\ \A g \in Flows : g # f => flow'[g] = flow[g] /\ Srv(g)' = Srv(g)
      /\ \A t \in Servers : t # s => servers'[t] = servers[t]
      /\ \A g \in Flows : Srv(g) \in Servers
  BY <1>4, FlowFacts DEF Inv, TypeOK, Srv
<1>6. ASSUME NEW t \in Servers
      PROVE  RowInv(t)'
  <2>1. RowInv(t)
    BY DEF Inv
  <2> QED
    BY <1>1, <1>2, <1>4, <1>5, <2>1 DEF RowInv, Downloaded
<1>7. ASSUME NEW g \in Flows, g # f
      PROVE  FlowInv(g)'
  <2>1. FlowInv(g) /\ flow'[g] = flow[g] /\ Srv(g)' = Srv(g)
    BY <1>5, <1>7 DEF Inv
  <2>2. CASE Srv(g) # s
    <3>1. servers'[Srv(g)] = servers[Srv(g)]
      BY <1>5, <2>2
    <3> QED
      BY <1>4, <2>1, <3>1, OtherServer
  <2>3. CASE Srv(g) = s
    <3>1. servers'[Srv(g)] = row
      BY <1>5, <2>3
    <3>2. ~(flow[g].op = "deploy" /\ flow[g].at \notin Terminal)
      BY <1>1, <1>7, <2>3 DEF Inv, OneDeploymentEach, Terminal
    <3>3. DeployInv(g)'
      BY <2>1, <3>2 DEF DeployInv, InDeploy, Terminal
    <3>4. PanelInv(g)'
      BY <1>1, <1>2, <2>1, <2>3, <3>1 DEF FlowInv, PanelInv
    <3>5. StandingInv(g)'
      BY <1>1, <2>1, <2>3 DEF FlowInv, StandingInv
    <3>6. ProgressInv(g)'
      BY <1>4, <2>1 DEF FlowInv, ProgressInv, Downloaded
    <3> QED
      BY <3>3, <3>4, <3>5, <3>6 DEF FlowInv
  <2> QED
    BY <2>2, <2>3
<1>8. FlowInv(f)'
  <2>1. Srv(f)' = s /\ FlowInv(f)
    BY <1>3, <1>5 DEF Follows, Srv, Inv
  <2>2. DeployInv(f)'
    BY <1>1, <1>2, <1>3, <1>5, <2>1 DEF Follows, DeployInv, InDeploy
  <2>3. PanelInv(f)'
    BY <1>1, <1>2, <1>3, <1>5, <2>1 DEF Follows, FlowInv, PanelInv
  <2>4. StandingInv(f)' /\ ProgressInv(f)'
    BY <1>1, <1>3, <1>5, <2>1
       DEF Follows, FlowInv, StandingInv, ProgressInv
  <2> QED
    BY <2>2, <2>3, <2>4 DEF FlowInv
<1>9. OneDeploymentEach'
  BY <1>1, <1>3, <1>4, DeploymentsStay DEF Follows, Terminal
<1> QED
  BY <1>6, <1>7, <1>8, <1>9 DEF Inv

\* updateServer with a status, by a deployment.
LEMMA DeployStatusStep ==
  ASSUME Inv, TypeOK', NEW f \in Flows, NEW status, NEW row \in Row,
         NEW ok \in Terminal, NEW failed \in {"deployFailed", "error"},
         UpdateStatus(f, status, row, ok, failed),
         flow[f].op = "deploy",
         \/ flow[f].at = "markRunning" /\ status = "running"
            /\ failed = "deployFailed"
         \/ flow[f].at = "deployFailed" /\ status = "failed"
            /\ row.errorMessage # "none",
         row.staticIp = servers[Srv(f)].staticIp,
         servers[Srv(f)].errorMessage # "none" => row.errorMessage # "none"
  PROVE  Inv'
<1>1. /\ flow[f] \in Flow /\ servers[Srv(f)].status # "absent"
      /\ flow[f].at \notin Terminal
      /\ flow[f].at = "markRunning" => servers[Srv(f)].staticIp = "ip"
  BY FlowFacts DEF DeployInv, InDeploy, Terminal
<1>2. UNCHANGED <<host, backups>>
  BY DEF UpdateStatus, WriteRefused
<1>3. CASE ~flow[f].checked
  <2>1. UNCHANGED servers /\ NoNewVm /\ BackupsKept
    BY <1>2, <1>3 DEF UpdateStatus, NoNewVm, BackupsKept, Downloaded
  <2>2. CASE flow' = [flow EXCEPT ![f].checked = TRUE]
    <3> DEFINE next == [flow[f] EXCEPT !.checked = TRUE]
    <3>1. flow' = [flow EXCEPT ![f] = next] /\ flow'[f] = next
      BY <2>2 DEF Inv, TypeOK
    <3>2. /\ Follows(f, next) /\ next.at = flow[f].at
          /\ next.ip = flow[f].ip /\ next.error = flow[f].error
      BY <1>1 DEF Follows, Flow
    <3> HIDE DEF next
    <3>3. DeployInv(f)'
      BY <2>1, <3>1, <3>2, FlowFacts DEF DeployInv, InDeploy, Follows, Srv
    <3> QED
      BY <1>1, <2>1, <3>1, <3>2, <3>3, DeployStep
  <2>3. CASE Throw(f, failed, "other")
    BY <1>1, <2>1, <2>3, DeployGivesUp
  <2> QED
    BY <1>3, <2>2, <2>3 DEF UpdateStatus
<1>4. CASE flow[f].checked /\ ~WriteRefused(f, failed)
  <2> DEFINE next == To(f, ok)
             new  == [row EXCEPT !.status = status]
  <2>1. flow' = [flow EXCEPT ![f] = next]
    BY <1>4 DEF UpdateStatus, Goto, Become
  <2>2. servers' = [servers EXCEPT ![Srv(f)] = new]
    BY <1>1, <1>4 DEF UpdateStatus
  <2>3. Follows(f, next) /\ next.at = ok /\ Plain(f, next.at)
    BY NextFollows DEF Plain, Terminal
  <2>4. /\ new \in Row /\ new.status = status
        /\ new.staticIp = row.staticIp /\ new.errorMessage = row.errorMessage
    BY DEF Row, ServerStatus
  <2> HIDE DEF next, new
  <2> QED
    BY <1>1, <1>2, <1>4, <2>1, <2>2, <2>3, <2>4, RowWritten
<1>5. CASE WriteRefused(f, failed)
  BY <1>1, <1>5, DeployRefused
<1> QED
  BY <1>3, <1>4, <1>5

LEMMA ProvisionInv ==
  ASSUME Inv, TypeOK', NEW f \in Flows, Provision(f)
  PROVE  Inv'
<1>1. /\ flow[f].op = "deploy" /\ flow[f].at = "provision"
      /\ flow[f].at \notin Terminal
      /\ servers[Srv(f)].status = "provisioning"
      /\ servers[Srv(f)].staticIp = "none"
      /\ UNCHANGED <<servers, backups>>
  BY FlowFacts DEF Provision, At, DeployInv, InDeploy, Terminal
<1>2. NoNewVm /\ BackupsKept
  <2>1. Srv(f) \in Servers /\ host \in [Servers -> Host]
    BY FlowFacts DEF Inv, TypeOK
  <2>2. \A s \in Servers : s # Srv(f) => host'[s] = host[s]
    BY <2>1 DEF Provision
  <2> QED
    BY <1>1, <2>2 DEF NoNewVm, BackupsKept, Downloaded
<1>3. ASSUME NEW ip \in {"ip", "zero"}, GotoSaveIp(f, ip)
      PROVE  Inv'
  <2> DEFINE next == [flow[f] EXCEPT !.at = "saveIp", !.ip = ip]
  <2>1. flow' = [flow EXCEPT ![f] = next] /\ flow'[f] = next
    BY <1>3 DEF GotoSaveIp, Inv, TypeOK
  <2>2. Follows(f, next) /\ next.at = "saveIp" /\ next.ip = ip
    BY FlowFacts DEF Follows, Flow
  <2> HIDE DEF next
  <2>3. DeployInv(f)'
    BY <1>1, <1>3, <2>1, <2>2 DEF DeployInv, InDeploy, Follows, Srv
  <2> QED
    BY <1>1, <1>2, <2>1, <2>2, <2>3, DeployStep
<1>4. CASE Throw(f, "deployFailed", "provision")
  BY <1>1, <1>2, <1>4, DeployThrows
<1> QED
  BY <1>3, <1>4 DEF Provision

LEMMA DeployStepsInv ==
  ASSUME Inv, TypeOK', NEW f \in Flows, DeploySteps(f)
  PROVE  Inv'
<1>1. CASE EnsureStateBucket(f)
  <2>1. /\ flow[f].op = "deploy" /\ flow[f].at = "bucket"
        /\ flow[f].at \notin Terminal
        /\ servers[Srv(f)].status = "provisioning"
        /\ servers[Srv(f)].staticIp = "none"
        /\ UNCHANGED <<servers, backups>>
    BY <1>1, FlowFacts
       DEF EnsureStateBucket, At, DeployInv, InDeploy, RemoteCall, Terminal
  <2>2. NoNewVm /\ BackupsKept
    <3>1. /\ UNCHANGED host
          /\ UNCHANGED backups
      <4>1. host \in [Servers -> Host] /\ Srv(f) \in Servers
        BY FlowFacts DEF Inv, TypeOK
      <4> QED
        BY <1>1, <4>1 DEF EnsureStateBucket, RemoteCall
    <3> QED
      BY <3>1 DEF NoNewVm, BackupsKept, Downloaded
  <2>3. CASE Become(f, To(f, "provision"))
    <3> DEFINE next == To(f, "provision")
    <3>1. /\ flow' = [flow EXCEPT ![f] = next] /\ flow'[f] = next
          /\ Follows(f, next) /\ next.at = "provision"
      <4>1. Follows(f, next) /\ next.at = "provision"
        BY NextFollows
      <4>2. flow' = [flow EXCEPT ![f] = next]
        BY <2>3 DEF Become
      <4>3. flow'[f] = next
        BY <4>2 DEF Inv, TypeOK
      <4> QED
        BY <4>1, <4>2, <4>3
    <3> HIDE DEF next
    <3>2. DeployInv(f)'
      BY <2>1, <3>1 DEF DeployInv, InDeploy, Follows, Srv
    <3> QED
      BY <2>1, <2>2, <3>1, <3>2, DeployStep
  <2>4. CASE Become(f, Thrown(f, "deployFailed", "other"))
    BY <2>1, <2>2, <2>4, DeployThrows DEF Throw
  <2> QED
    BY <1>1, <2>3, <2>4 DEF EnsureStateBucket, RemoteCall
<1>2. CASE Provision(f)
  BY <1>2, ProvisionInv
<1>3. CASE SaveStaticIp(f)
  BY <1>3, SaveStaticIpInv
<1>4. CASE WaitForVmBoot(f)
  <2>1. NoNewVm
    BY <1>4 DEF WaitForVmBoot, NoNewVm
  <2> QED
    BY <1>4, <2>1, PollStep DEF WaitForVmBoot, At
<1>5. CASE WaitForCloudInit(f)
  <2>1. NoNewVm
    <3>1. [host[Srv(f)] EXCEPT !.ssh = "live"].vm = host[Srv(f)].vm
      BY FlowFacts DEF Host
    <3>2. Srv(f) \in Servers /\ host \in [Servers -> Host]
      BY FlowFacts DEF Inv, TypeOK
    <3> QED
      BY <1>5, <3>1, <3>2 DEF WaitForCloudInit, NoNewVm
  <2> QED
    BY <1>5, <2>1, PollStep DEF WaitForCloudInit, At
<1>6. CASE DeployMarkRunning(f)
  BY <1>6, DeployStatusStep, FlowFacts DEF DeployMarkRunning, At, Terminal
<1>7. CASE DeployMarkFailed(f)
  <2> DEFINE row == [servers[Srv(f)] EXCEPT !.errorMessage = flow[f].error]
  <2>1. flow[f].op = "deploy" /\ flow[f].at = "deployFailed"
        /\ flow[f].error # "none"
    BY <1>7, FlowFacts DEF DeployMarkFailed, At, DeployInv, InDeploy
  <2>2. flow[f].error \in ErrorKinds \union {"none"}
    BY FlowFacts DEF Flow
  <2>3. /\ row \in Row /\ row.staticIp = servers[Srv(f)].staticIp
        /\ row.errorMessage # "none"
    BY <2>1, <2>2, FlowFacts DEF Row
  <2>4. UpdateStatus(f, "failed", row, "error", "error")
    BY <1>7 DEF DeployMarkFailed
  <2> HIDE DEF row
  <2> QED
    BY <2>1, <2>3, <2>4, DeployStatusStep DEF Terminal
<1> QED
  BY <1>1, <1>2, <1>3, <1>4, <1>5, <1>6, <1>7 DEF DeploySteps

-----------------------------------------------------------------------------
(* What the users and the cloud do keeps Inv.                              *)

\* A flow becomes something else, and nothing is written.
LEMMA QuietStep ==
  ASSUME Inv, TypeOK', NEW f \in Flows, NEW next,
         flow' = [flow EXCEPT ![f] = next],
         UNCHANGED <<servers, host, backups>>,
         next.op = "deploy" => next.at \in Terminal,
         PanelInv(f)', StandingInv(f)', ProgressInv(f)'
  PROVE  Inv'
<1>1. NoNewVm /\ BackupsKept
  BY DEF NoNewVm, BackupsKept, Downloaded
<1>2. flow'[f] = next
  BY DEF Inv, TypeOK
<1>3. DeployInv(f)'
  BY <1>2 DEF DeployInv, InDeploy, Terminal
<1>4. FlowInv(f)'
  BY <1>3 DEF FlowInv
<1>5. OneDeploymentEach'
  BY DeploymentsStay
<1> QED
  BY <1>1, <1>4, <1>5, OtherFlows DEF Inv

\* Nothing happens but in the cloud, and no VM comes into being.
LEMMA CloudStep ==
  ASSUME Inv, TypeOK', UNCHANGED <<servers, backups, flow>>,
         \A s \in Servers : host'[s].vm # "absent" => host[s].vm # "absent"
  PROVE  Inv'
<1>1. ASSUME NEW s \in Servers
      PROVE  RowInv(s)'
  <2>1. RowInv(s)
    BY DEF Inv
  <2> QED
    BY <2>1 DEF RowInv, Downloaded
<1>2. ASSUME NEW g \in Flows
      PROVE  FlowInv(g)'
  <2>1. FlowInv(g) /\ Srv(g) \in Servers
    BY FlowFacts DEF Inv
  <2>2. ProgressInv(g)'
    BY <2>1 DEF FlowInv, ProgressInv, Srv, Downloaded
  <2>3. DeployInv(g)' /\ PanelInv(g)' /\ StandingInv(g)'
    BY <2>1 DEF FlowInv, DeployInv, InDeploy, PanelInv, StandingInv, Srv
  <2> QED
    BY <2>2, <2>3 DEF FlowInv
<1>3. OneDeploymentEach'
  BY DEF Inv, OneDeploymentEach, Srv
<1> QED
  BY <1>1, <1>2, <1>3 DEF Inv

LEMMA CloudInv ==
  ASSUME Inv, TypeOK', CloudSteps
  PROVE  Inv'
<1>1. PICK s \in Servers :
        \/ VmBoots(s) \/ CloudInitRuns(s) \/ DockerRestarts(s)
        \/ LineDrops(s) \/ DialEnds(s)
  BY DEF CloudSteps
<1>2. host \in [Servers -> Host]
  BY DEF Inv, TypeOK
<1>3. CASE VmBoots(s)
  <2>1. \A t \in Servers : host'[t].vm # "absent" => host[t].vm # "absent"
    BY <1>2, <1>3 DEF VmBoots, Host
  <2> QED
    BY <1>3, <2>1, CloudStep DEF VmBoots
<1>4. CASE CloudInitRuns(s)
  <2>1. \A t \in Servers : host'[t].vm # "absent" => host[t].vm # "absent"
    BY <1>2, <1>4 DEF CloudInitRuns, Host
  <2> QED
    BY <1>4, <2>1, CloudStep DEF CloudInitRuns
<1>5. CASE DockerRestarts(s)
  <2>1. \A t \in Servers : host'[t].vm # "absent" => host[t].vm # "absent"
    BY <1>2, <1>5 DEF DockerRestarts, Host
  <2> QED
    BY <1>5, <2>1, CloudStep DEF DockerRestarts
<1>6. CASE DialEnds(s)
  BY <1>6, CloudStep DEF DialEnds
<1>7. CASE LineDrops(s)
  <2>1. HangUp(host[s]).vm = host[s].vm
    BY <1>2, ClientSaysNothing
  <2>2. \A t \in Servers : host'[t].vm # "absent" => host[t].vm # "absent"
    BY <1>2, <1>7, <2>1 DEF LineDrops
  <2> QED
    BY <1>7, <2>2, CloudStep DEF LineDrops
<1> QED
  BY <1>1, <1>3, <1>4, <1>5, <1>6, <1>7

\* A panel without a server.
LEMMA IdleFlowFacts ==
  /\ IdleFlow.at = "idle" /\ IdleFlow.op = "none"
  /\ IdleFlow.shown = NoRow /\ IdleFlow.server = NoRow
  /\ NoRow.status = "absent" /\ NoRow.staticIp = "none"
  /\ NoRow.errorMessage = "none"
BY DEF IdleFlow, NoRow

LEMMA IdleInv ==
  ASSUME NEW f \in Flows, flow[f] = IdleFlow
  PROVE  FlowInv(f)
BY IdleFlowFacts
   DEF FlowInv, DeployInv, InDeploy, PanelInv, StandingInv, ProgressInv

\* A deployment begins with a row that nobody else can be at work on.
LEMMA BeginDeployInv ==
  ASSUME Inv, TypeOK', NEW f \in Flows, NEW name \in Names,
         NEW type \in MachineTypes, BeginDeploy(f, name, type)
  PROVE  Inv'
<1>1. CASE flow' = [flow EXCEPT ![f] =
                     [@ EXCEPT !.op = "deploy", !.at = "error"]]
           /\ UNCHANGED servers
  <2> DEFINE next == [flow[f] EXCEPT !.op = "deploy", !.at = "error"]
  <2>1. flow' = [flow EXCEPT ![f] = next] /\ flow'[f] = next
    BY <1>1 DEF Inv, TypeOK
  <2>2. /\ next.op = "deploy" /\ next.at = "error" /\ next.srv = flow[f].srv
        /\ next.shown = flow[f].shown /\ next.server = flow[f].server
    BY FlowFacts DEF Flow
  <2>3. UNCHANGED <<servers, host, backups>>
    BY <1>1 DEF BeginDeploy
  <2> HIDE DEF next
  <2>4. PanelInv(f)' /\ StandingInv(f)' /\ ProgressInv(f)'
    BY <2>1, <2>2, <2>3, FlowFacts
       DEF PanelInv, StandingInv, ProgressInv, Srv
  <2> QED
    BY <2>1, <2>2, <2>3, <2>4, QuietStep DEF Terminal
<1>2. ASSUME NEW s \in Servers, servers[s].status = "absent",
             servers' = [servers EXCEPT ![s] =
               [NoRow EXCEPT !.name = name, !.status = "provisioning",
                             !.instanceType = type]],
             flow' = [flow EXCEPT ![f] =
               [IdleFlow EXCEPT !.op = "deploy", !.at = "bucket",
                                !.srv = s, !.newType = type]],
             UNCHANGED <<host, backups>>
      PROVE  Inv'
  <2> DEFINE row  == [NoRow EXCEPT !.name = name, !.status = "provisioning",
                                   !.instanceType = type]
             next == [IdleFlow EXCEPT !.op = "deploy", !.at = "bucket",
                                      !.srv = s, !.newType = type]
  <2>1. /\ row.status = "provisioning" /\ row.staticIp = "none"
        /\ next.op = "deploy" /\ next.at = "bucket" /\ next.srv = s
        /\ next.shown = NoRow /\ next.server = NoRow
    BY DEF NoRow, IdleFlow
  <2>2. /\ flow'[f] = next /\ servers'[s] = row
        /\ \A g \in Flows : g # f => flow'[g] = flow[g] /\ Srv(g)' = Srv(g)
        /\ \A t \in Servers : t # s => servers'[t] = servers[t]
    BY <1>2 DEF Inv, TypeOK, Srv
  <2> HIDE DEF row, next
  <2>3. host[s].vm = "absent" /\ servers[s].staticIp = "none"
    BY <1>2 DEF Inv, RowInv
  <2>4. ASSUME NEW t \in Servers
        PROVE  RowInv(t)'
    <3>1. RowInv(t)
      BY DEF Inv
    <3> QED
      BY <1>2, <2>1, <2>2, <3>1 DEF RowInv, Downloaded
  <2>5. ASSUME NEW g \in Flows, Srv(g) = s
        PROVE  ~(flow[g].op = "deploy" /\ flow[g].at \notin Terminal)
    BY <1>2, <2>5, FlowFacts DEF DeployInv
  <2>6. ASSUME NEW g \in Flows, g # f
        PROVE  FlowInv(g)'
    <3>1. FlowInv(g) /\ flow'[g] = flow[g] /\ Srv(g)' = Srv(g)
      BY <2>2, <2>6 DEF Inv
    <3>2. CASE Srv(g) # s
      <4>1. servers'[Srv(g)] = servers[Srv(g)]
        BY <2>2, <3>2, FlowFacts
      <4> QED
        BY <1>2, <3>1, <4>1, OtherServer
    <3>3. CASE Srv(g) = s
      <4>1. DeployInv(g)'
        BY <2>5, <3>1, <3>3 DEF DeployInv, InDeploy, Terminal
      <4>2. PanelInv(g)'
        BY <1>2, <2>3, <3>1, <3>3 DEF FlowInv, PanelInv
      <4>3. StandingInv(g)'
        BY <1>2, <2>3, <3>1, <3>3 DEF FlowInv, PanelInv, StandingInv
      <4>4. ProgressInv(g)'
        BY <1>2, <3>1 DEF FlowInv, ProgressInv, Downloaded
      <4> QED
        BY <4>1, <4>2, <4>3, <4>4 DEF FlowInv
    <3> QED
      BY <3>2, <3>3
  <2>7. FlowInv(f)'
    BY <2>1, <2>2, IdleFlowFacts
       DEF FlowInv, DeployInv, InDeploy, PanelInv, StandingInv, ProgressInv,
           Srv, Terminal
  <2>8. OneDeploymentEach'
    <3>1. Srv(f)' = s
      BY <2>1, <2>2 DEF Srv
    <3>2. ASSUME NEW g \in Flows, g # f,
                 flow'[g].op = "deploy", flow'[g].at \notin Terminal
          PROVE  Srv(g)' # s
      BY <2>2, <2>5, <3>2
    <3>3. ASSUME NEW g \in Flows, NEW h \in Flows, g # f, h # f,
                 flow'[g].op = "deploy", flow'[g].at \notin Terminal,
                 flow'[h].op = "deploy", flow'[h].at \notin Terminal,
                 Srv(g)' = Srv(h)'
          PROVE  g = h
      BY <2>2, <3>3 DEF Inv, OneDeploymentEach
    <3> QED
      BY <3>1, <3>2, <3>3 DEF OneDeploymentEach
  <2> QED
    BY <2>4, <2>6, <2>7, <2>8 DEF Inv
<1> QED
  BY <1>1, <1>2 DEF BeginDeploy

LEMMA OpenPanelInv ==
  ASSUME Inv, TypeOK', NEW f \in Flows, NEW s \in Servers, OpenPanel(f, s)
  PROVE  Inv'
<1> DEFINE next == [IdleFlow EXCEPT !.at = "panel", !.srv = s,
                                    !.shown = servers[s]]
<1>1. flow' = [flow EXCEPT ![f] = next] /\ flow'[f] = next
  BY DEF OpenPanel, Inv, TypeOK
<1>2. /\ next.at = "panel" /\ next.op = "none" /\ next.srv = s
      /\ next.shown = servers[s] /\ next.server = NoRow
  BY DEF IdleFlow
<1>3. /\ UNCHANGED <<servers, host, backups>>
      /\ servers[s].status # "absent" /\ RowInv(s) /\ servers[s] \in Row
  BY DEF OpenPanel, Inv, TypeOK
<1> HIDE DEF next
<1>4. PanelInv(f)'
  BY <1>1, <1>2, <1>3 DEF PanelInv, Srv, RowInv
<1>5. StandingInv(f)' /\ ProgressInv(f)'
  BY <1>1, <1>2, IdleFlowFacts DEF StandingInv, ProgressInv
<1> QED
  BY <1>1, <1>2, <1>3, <1>4, <1>5, QuietStep

LEMMA ClosePanelInv ==
  ASSUME Inv, TypeOK', NEW f \in Flows, ClosePanel(f)
  PROVE  Inv'
<1>1. /\ flow' = [flow EXCEPT ![f] = IdleFlow] /\ flow'[f] = IdleFlow
      /\ UNCHANGED <<servers, host, backups>>
  BY DEF ClosePanel, Inv, TypeOK
<1>2. PanelInv(f)' /\ StandingInv(f)' /\ ProgressInv(f)'
  BY <1>1, IdleFlowFacts DEF PanelInv, StandingInv, ProgressInv
<1> QED
  BY <1>1, <1>2, IdleFlowFacts, QuietStep

LEMMA DismissInv ==
  ASSUME Inv, TypeOK', NEW f \in Flows, Dismiss(f)
  PROVE  Inv'
<1> DEFINE panel == [IdleFlow EXCEPT !.at = "panel", !.srv = flow[f].srv,
                                     !.shown = flow[f].shown]
<1>1. /\ panel.at = "panel" /\ panel.op = "none" /\ panel.srv = flow[f].srv
      /\ panel.shown = flow[f].shown /\ panel.server = NoRow
  BY DEF IdleFlow
<1>2. UNCHANGED <<servers, host, backups>>
  BY DEF Dismiss
<1>3. flow' = [flow EXCEPT ![f] = IdleFlow]
      \/ flow' = [flow EXCEPT ![f] = panel]
  BY DEF Dismiss
<1> HIDE DEF panel
<1>4. CASE flow' = [flow EXCEPT ![f] = IdleFlow]
  <2>1. flow'[f] = IdleFlow
    BY <1>4 DEF Inv, TypeOK
  <2>2. PanelInv(f)' /\ StandingInv(f)' /\ ProgressInv(f)'
    BY <2>1, IdleFlowFacts DEF PanelInv, StandingInv, ProgressInv
  <2> QED
    BY <1>2, <1>4, <2>2, IdleFlowFacts, QuietStep
<1>5. CASE flow' = [flow EXCEPT ![f] = panel]
  <2>1. flow'[f] = panel
    BY <1>5 DEF Inv, TypeOK
  <2>2. PanelInv(f)'
    BY <1>1, <1>2, <2>1, FlowFacts DEF PanelInv, Srv
  <2>3. StandingInv(f)' /\ ProgressInv(f)'
    BY <1>1, <2>1, IdleFlowFacts DEF StandingInv, ProgressInv
  <2> QED
    BY <1>1, <1>2, <1>5, <2>2, <2>3, QuietStep
<1> QED
  BY <1>3, <1>4, <1>5

\* What the panel offers fits the status it shows.
LEMMA OfferedFits ==
  ASSUME NEW row, NEW op \in Offered(row)
  PROVE  /\ op \in {"backup", "restore", "stop", "update", "resize",
                    "archive", "quickRestart", "start"}
         /\ op \in {"backup", "restore"}
            \/ row.status \in {"running", "stopped", "failed"}
<1>1. CASE row.status = "running"
  BY <1>1 DEF Offered
<1>2. CASE row.status = "stopped"
  BY <1>2 DEF Offered
<1>3. CASE row.status = "failed"
  BY <1>3 DEF Offered
<1>4. CASE row.status \notin {"running", "stopped", "failed"}
  BY <1>4 DEF Offered
<1> QED
  BY <1>1, <1>2, <1>3, <1>4

LEMMA SelectInv ==
  ASSUME Inv, TypeOK', NEW f \in Flows, NEW op, Select(f, op)
  PROVE  Inv'
<1>1. PICK type, file :
        flow' = [flow EXCEPT ![f] =
                  [@ EXCEPT !.op = op, !.at = FirstAwait(op, servers[Srv(f)]),
                            !.server = servers[Srv(f)],
                            !.newType = type, !.file = file]]
  BY DEF Select
<1> DEFINE label == FirstAwait(op, servers[Srv(f)])
           next  == [flow[f] EXCEPT !.op = op, !.at = label,
                                    !.server = servers[Srv(f)],
                                    !.newType = type, !.file = file]
<1>2. flow' = [flow EXCEPT ![f] = next] /\ flow'[f] = next
  BY <1>1 DEF Inv, TypeOK
<1>3. /\ next.op = op /\ next.at = label /\ next.srv = flow[f].srv
      /\ next.shown = flow[f].shown /\ next.server = servers[Srv(f)]
  BY FlowFacts DEF Flow
<1>4. /\ op \in {"backup", "restore", "stop", "update", "resize",
                 "archive", "quickRestart", "start"}
      /\ op \in {"backup", "restore"}
         \/ flow[f].shown.status \in {"running", "stopped", "failed"}
  BY OfferedFits DEF Select
<1>5. /\ label \in {"tar", "stop", "down", "save", "up", "error"}
      /\ label = "up" => op = "start"
  BY <1>4 DEF FirstAwait
<1>6. UNCHANGED <<servers, host, backups>>
  BY DEF Select
<1> HIDE DEF label, next
<1>7. PanelInv(f)'
  BY <1>2, <1>3, <1>4, <1>6, FlowFacts DEF PanelInv, Srv
<1>8. StandingInv(f)'
  <2>1. op = "resize" /\ servers[Srv(f)].staticIp = "none" =>
          servers[Srv(f)].status = "failed"
    BY <1>4, FlowFacts DEF PanelInv, RowInv
  <2> QED
    BY <1>2, <1>3, <1>6, <2>1 DEF StandingInv, Srv
<1>9. ProgressInv(f)'
  BY <1>2, <1>3, <1>5 DEF ProgressInv
<1> QED
  BY <1>2, <1>3, <1>4, <1>6, <1>7, <1>8, <1>9, QuietStep

LEMMA BeginRecoveryInv ==
  ASSUME Inv, TypeOK', NEW f \in Flows, BeginRecovery(f)
  PROVE  Inv'
<1>1. PICK start \in RecoveryStart :
        flow' = [flow EXCEPT ![f] =
                  [@ EXCEPT !.op = start[1], !.at = start[2],
                            !.server = flow[f].shown]]
  BY DEF BeginRecovery
<1> DEFINE next == [flow[f] EXCEPT !.op = start[1], !.at = start[2],
                                   !.server = flow[f].shown]
<1>2. flow' = [flow EXCEPT ![f] = next] /\ flow'[f] = next
  BY <1>1 DEF Inv, TypeOK
<1>3. /\ next.op = start[1] /\ next.at = start[2] /\ next.srv = flow[f].srv
      /\ next.shown = flow[f].shown /\ next.server = flow[f].shown
  BY FlowFacts DEF Flow
<1>4. /\ start[1] \in {"destroy", "abort", "retryVmBoot", "rerunBootstrap",
                       "restartContainer", "reconfigure"}
      /\ start[2] \in {"destroy", "markFailed", "stopVm", "bootstrap",
                       "restart", "note"}
  BY DEF RecoveryStart
<1>5. flow[f].shown.status = "failed" /\ UNCHANGED <<servers, host, backups>>
  BY DEF BeginRecovery
<1> HIDE DEF next
<1>6. PanelInv(f)'
  BY <1>2, <1>3, <1>4, <1>5, FlowFacts DEF PanelInv, Srv
<1>7. StandingInv(f)' /\ ProgressInv(f)'
  BY <1>2, <1>3, <1>4, <1>5, FlowFacts
     DEF PanelInv, StandingInv, ProgressInv, Srv
<1> QED
  BY <1>2, <1>3, <1>4, <1>5, <1>6, <1>7, QuietStep

LEMMA UserInv ==
  ASSUME Inv, TypeOK', NEW f \in Flows, UserSteps(f)
  PROVE  Inv'
<1>1. CASE \E s \in Servers : OpenPanel(f, s)
  BY <1>1, OpenPanelInv
<1>2. CASE \E op \in Ops \ {"deploy", "retryDeploy"} : Select(f, op)
  BY <1>2, SelectInv
<1>3. CASE Deploy(f)
  BY <1>3, PlatformAssumption, BeginDeployInv DEF Deploy
<1>4. CASE RetryDeploy(f)
  <2>1. flow[f].shown.name \in Names
        /\ flow[f].shown.instanceType \in MachineTypes
    BY FlowFacts DEF Flow, Row
  <2> QED
    BY <1>4, <2>1, BeginDeployInv DEF RetryDeploy
<1>5. CASE (\E t \in Tasks : AddTask(f, t)) \/ MountPlayers(f)
  BY <1>5, CloudStep DEF AddTask, MountPlayers
<1>6. CASE WatchStats(f)
  <2>1. host \in [Servers -> Host]
    BY DEF Inv, TypeOK
  <2>2. \A s \in Servers : host'[s].vm # "absent" => host[s].vm # "absent"
    BY <1>6, <2>1 DEF WatchStats, Host
  <2> QED
    BY <1>6, <2>2, CloudStep DEF WatchStats
<1> QED
  BY <1>1, <1>2, <1>3, <1>4, <1>5, <1>6, ClosePanelInv, DismissInv,
     BeginRecoveryInv DEF UserSteps

LEMMA ExitInv ==
  ASSUME Inv, TypeOK', Exit
  PROVE  Inv'
<1>1. \A f \in Flows : flow'[f] = IdleFlow
  BY DEF Exit
<1>2. UNCHANGED <<servers, backups>> /\ VmsStay
  <2>1. \A s \in Servers : [host[s] EXCEPT !.ssh = "none"].vm = host[s].vm
    BY DEF Inv, TypeOK, Host
  <2> QED
    BY <2>1 DEF Exit, VmsStay
<1>3. \A s \in Servers : RowInv(s)'
  BY <1>2 DEF Inv, RowInv, Downloaded, VmsStay
<1>4. ASSUME NEW f \in Flows
      PROVE  FlowInv(f)'
  BY <1>1, IdleFlowFacts
     DEF FlowInv, DeployInv, InDeploy, PanelInv, StandingInv, ProgressInv
<1>5. OneDeploymentEach'
  BY <1>1, IdleFlowFacts DEF OneDeploymentEach
<1> QED
  BY <1>3, <1>4, <1>5 DEF Inv

-----------------------------------------------------------------------------
(* The theorems.                                                           *)

LEMMA InitInv == PlatformInit => Inv
<1> SUFFICES ASSUME PlatformInit
             PROVE  Inv
  OBVIOUS
<1>1. TypeOK
  BY InitType
<1>2. ASSUME NEW s \in Servers
      PROVE  RowInv(s)
  <2>1. servers[s] = NoRow /\ host[s].vm = "absent"
    BY DEF PlatformInit, NoHost
  <2> QED
    BY <2>1, IdleFlowFacts DEF RowInv
<1>3. \A f \in Flows : flow[f] = IdleFlow
  BY DEF PlatformInit
<1>4. \A f \in Flows : FlowInv(f)
  BY <1>3, IdleInv
<1>5. OneDeploymentEach
  BY <1>3, IdleFlowFacts DEF OneDeploymentEach
<1> QED
  BY <1>1, <1>2, <1>4, <1>5 DEF Inv

LEMMA NextInv == Inv /\ [Next]_vars => Inv'
<1> SUFFICES ASSUME Inv, [Next]_vars
             PROVE  Inv'
  OBVIOUS
<1>1. TypeOK'
  BY NextType DEF Inv
<1>2. ASSUME NEW f \in Flows, ServiceSteps(f)
      PROVE  Inv'
  BY <1>1, <1>2, DeployStepsInv, StartStopInv, ResizeInv, RollbackInv,
     BackupServiceInv, UpdateFlowInv, ArchiveInv, RecoveryInv
     DEF ServiceSteps, DeployServiceSteps
<1>3. CASE UnmountPlayers
  BY <1>1, <1>3, CloudStep DEF UnmountPlayers
<1>4. CASE UNCHANGED vars
  BY <1>1, <1>4, CloudStep DEF vars
<1> QED
  BY <1>1, <1>2, <1>3, <1>4, UserInv, CloudInv, ExitInv DEF Next

\* Whatever panels are open and however their operations interleave, the rows
\* say what is true of the cloud and the disk, and every operation can rely on
\* what it has read and achieved.
THEOREM InvCorrect == Spec => []Inv
<1>1. PlatformInit => Inv
  BY InitInv
<1>2. Inv /\ [Next]_vars => Inv'
  BY NextInv
<1> QED
  BY <1>1, <1>2, PTL DEF Spec

\* No panel, however stale, brings a VM back that the list of servers does
\* not show.
THEOREM EveryVmIsListedAlways == Spec => []EveryVmIsListed
<1>1. Inv => EveryVmIsListed
  BY DEF Inv, RowInv, EveryVmIsListed
<1> QED
  BY <1>1, InvCorrect, PTL

\* A server becomes archived only with a complete backup on the disk.
THEOREM ArchivedIsSavedAlways == Spec => []ArchivedIsSaved
<1>1. Inv => ArchivedIsSaved
  BY DEF Inv, RowInv, ArchivedIsSaved
<1> QED
  BY <1>1, InvCorrect, PTL

\* deploy writes "running" only for a server whose address it has saved.
THEOREM OnlineHasAddressAlways == Spec => []OnlineHasAddress
<1>1. Inv => OnlineHasAddress
  BY DEF Inv, RowInv, OnlineHasAddress
<1> QED
  BY <1>1, InvCorrect, PTL

\* The recovery panel's writes of "failed" without a message find one.
THEOREM FailureExplainedAlways == Spec => []FailureExplained
<1>1. Inv => FailureExplained
  BY DEF Inv, RowInv, FailureExplained
<1> QED
  BY <1>1, InvCorrect, PTL

-----------------------------------------------------------------------------
(* Who creates a VM, and who takes one away.                               *)

SameVmsExist ==
  \A s \in Servers : host'[s].vm = "absent" <=> host[s].vm = "absent"

KeepsVm(f, effect) ==
  effect \in Host /\ (effect.vm = "absent" <=> host[Srv(f)].vm = "absent")

LEMMA StepKeepsVms ==
  ASSUME Inv, NEW f \in Flows, NEW effect, NEW done, NEW thrown,
         RemoteStep(f, effect, done, thrown), KeepsVm(f, effect)
  PROVE  SameVmsExist
<1>1. /\ host \in [Servers -> Host] /\ Srv(f) \in Servers
      /\ host[Srv(f)] \in Host
  BY FlowFacts DEF Inv, TypeOK
<1>2. /\ OverSsh(f, effect).vm = effect.vm
      /\ OverSsh(f, host[Srv(f)]).vm = host[Srv(f)].vm
  BY <1>1, ClientSaysNothing DEF KeepsVm
<1>3. CASE UNCHANGED host
  BY <1>3 DEF SameVmsExist
<1>4. ASSUME NEW h, host' = [host EXCEPT ![Srv(f)] = h],
             h.vm = "absent" <=> host[Srv(f)].vm = "absent"
      PROVE  SameVmsExist
  BY <1>1, <1>4 DEF SameVmsExist
<1> QED
  BY <1>2, <1>3, <1>4 DEF RemoteStep, KeepsVm

LEMMA CallKeepsVms ==
  ASSUME Inv, NEW f \in Flows, NEW can, NEW effect, NEW done, NEW thrown,
         RemoteCall(f, can, effect, done, thrown), can => KeepsVm(f, effect)
  PROVE  SameVmsExist
<1>1. host \in [Servers -> Host] /\ Srv(f) \in Servers
  BY FlowFacts DEF Inv, TypeOK
<1>2. \/ UNCHANGED host
      \/ can /\ host' = [host EXCEPT ![Srv(f)] = effect]
  BY DEF RemoteCall
<1> QED
  BY <1>1, <1>2 DEF SameVmsExist, KeepsVm

LEMMA SshKeepsVms ==
  ASSUME Inv, NEW f \in Flows, NEW can, NEW effect, NEW done, NEW thrown,
         SshCall(f, can, effect, done, thrown), KeepsVm(f, effect)
  PROVE  SameVmsExist
<1>1. RemoteStep(f, effect, done, thrown)
  BY DEF SshCall, RemoteStep
<1> QED
  BY <1>1, StepKeepsVms

LEMMA LossKeepsVms ==
  ASSUME Inv, NEW f \in Flows, NEW done, SilentLoss(f, done)
  PROVE  SameVmsExist
<1>1. RemoteStep(f, host[Srv(f)], done, done)
  BY DEF SilentLoss, RemoteStep
<1>2. KeepsVm(f, host[Srv(f)])
  BY FlowFacts DEF KeepsVm
<1> QED
  BY <1>1, <1>2, StepKeepsVms

LEMMA ExecKeepsVms ==
  ASSUME Inv, NEW f \in Flows, NEW can, NEW effect, NEW ok, NEW failed,
         Exec(f, can, effect, ok, failed), KeepsVm(f, effect)
  PROVE  SameVmsExist
BY SshKeepsVms, LossKeepsVms DEF Exec

LEMMA RconKeepsVms ==
  ASSUME Inv, NEW f \in Flows, NEW quits, NEW ok, NEW failed,
         RconCall(f, quits, ok, failed)
  PROVE  SameVmsExist
<1>1. host \in [Servers -> Host] /\ (rcon # Nobody => rcon \in Servers)
  BY DEF Inv, TypeOK
<1>2. host' = host \/ (rcon # Nobody
                       /\ host' = [host EXCEPT ![rcon].container = "exited"])
  BY DEF RconCall
<1> QED
  BY <1>1, <1>2 DEF SameVmsExist, Host

\* The effects of all calls but a destroy.
LEMMA EffectsKeepVm ==
  ASSUME Inv, NEW f \in Flows
  PROVE  /\ KeepsVm(f, host[Srv(f)])
         /\ KeepsVm(f, Up(f)) /\ KeepsVm(f, Down(f)) /\ KeepsVm(f, Halt(f))
         /\ KeepsVm(f, Bootstrapped(host[Srv(f)]))
         /\ VmExists(f) => KeepsVm(f, VmStopped(f)) /\ KeepsVm(f, VmStarted(f))
         /\ \A type \in MachineTypes :
              /\ KeepsVm(f, VmResized(f, type))
              /\ KeepsVm(f, SetMemory(f, type))
         /\ flow[f].newType \in MachineTypes /\ Original(f) \in MachineTypes
<1>1. /\ SameVm(f, host[Srv(f)])
      /\ SameVm(f, Up(f)) /\ SameVm(f, Down(f)) /\ SameVm(f, Halt(f))
      /\ SameVm(f, Bootstrapped(host[Srv(f)]))
      /\ \A type \in MachineTypes :
           SameVm(f, VmResized(f, type)) /\ SameVm(f, SetMemory(f, type))
  BY SameVms
<1>2. VmStopped(f) \in Host /\ VmStarted(f) \in Host
  BY EffectType DEF Inv
<1>3. host[Srv(f)] \in Host /\ HangUp(host[Srv(f)]) \in Host
  BY FlowFacts, ClientType
<1>4. VmStopped(f).vm = "stopped" /\ VmStarted(f).vm = "running"
  BY <1>3 DEF VmStopped, VmStarted, Host
<1>5. flow[f].newType \in MachineTypes /\ Original(f) \in MachineTypes
  BY FlowFacts DEF Flow, Row, Original
<1> QED
  BY <1>1, <1>2, <1>4, <1>5 DEF SameVm, KeepsVm, VmExists

LEMMA DeployServiceKeepsVms ==
  ASSUME Inv, NEW f \in Flows, DeployServiceSteps(f), ~Provision(f)
  PROVE  SameVmsExist
<1>1. ASSUME UNCHANGED host
      PROVE  SameVmsExist
  BY <1>1 DEF SameVmsExist
<1>2. CASE DeploySteps(f)
  <2>1. CASE EnsureStateBucket(f)
    BY <2>1, CallKeepsVms, EffectsKeepVm DEF EnsureStateBucket
  <2>2. CASE \/ SaveStaticIp(f) \/ WaitForVmBoot(f)
             \/ DeployMarkRunning(f) \/ DeployMarkFailed(f)
    BY <1>1, <2>2 DEF SaveStaticIp, WaitForVmBoot,
       DeployMarkRunning, DeployMarkFailed, UpdateRow, UpdateStatus,
       WriteRefused
  <2>3. CASE WaitForCloudInit(f)
    <3>1. host \in [Servers -> Host]
      BY DEF Inv, TypeOK
    <3> QED
      BY <2>3, <3>1 DEF WaitForCloudInit, SameVmsExist, Host
  <2> QED
    BY <1>2, <2>1, <2>2, <2>3 DEF DeploySteps
<1>3. CASE StartStopSteps(f)
  <2>1. CASE StartContainer(f)
    BY <2>1, ExecKeepsVms, EffectsKeepVm DEF StartContainer
  <2>2. CASE StopContainer(f)
    BY <2>2, ExecKeepsVms, EffectsKeepVm DEF StopContainer
  <2>3. CASE StartMarkRunning(f) \/ StopMarkStopped(f)
    BY <1>1, <2>3 DEF StartMarkRunning, StopMarkStopped, UpdateStatus,
       WriteRefused
  <2> QED
    BY <1>3, <2>1, <2>2, <2>3 DEF StartStopSteps
<1>4. CASE ResizeSteps(f)
  <2>1. CASE ResizeDown(f)
    <3>1. CASE Skip(f, "stopVm")
      BY <1>1, <3>1 DEF Skip
    <3>2. CASE Exec(f, HasDocker(f), Down(f), "stopVm", "undoType")
      BY <3>2, ExecKeepsVms, EffectsKeepVm
    <3> QED
      BY <2>1, <3>1, <3>2 DEF ResizeDown
  <2>2. CASE ResizeStopVm(f)
    BY <2>2, CallKeepsVms, EffectsKeepVm DEF ResizeStopVm
  <2>3. CASE ResizeChangeType(f)
    BY <2>3, CallKeepsVms, EffectsKeepVm DEF ResizeChangeType
  <2>4. CASE ResizeStartVm(f)
    BY <2>4, CallKeepsVms, EffectsKeepVm DEF ResizeStartVm
  <2>5. CASE ResizeMemory(f)
    BY <2>5, SshKeepsVms, LossKeepsVms, EffectsKeepVm DEF ResizeMemory
  <2>6. CASE ResizeUp(f)
    BY <2>6, SshKeepsVms, LossKeepsVms, EffectsKeepVm DEF ResizeUp
  <2>7. CASE ResizePersist(f)
    BY <1>1, <2>7 DEF ResizePersist, UpdateStatus,
       WriteRefused
  <2> QED
    BY <1>4, <2>1, <2>2, <2>3, <2>4, <2>5, <2>6, <2>7 DEF ResizeSteps
<1>5. CASE RollbackSteps(f)
  <2>1. ASSUME NEW needed, NEW can, NEW effect, NEW next,
               \/ Undo(f, needed, can, effect, next)
               \/ UndoOverSsh(f, needed, can, effect, next),
               KeepsVm(f, effect)
        PROVE  SameVmsExist
    <3>1. CASE Skip(f, next)
      BY <1>1, <3>1 DEF Skip
    <3>2. CASE RemoteCall(f, can, effect, To(f, next),
                          Marked(f, next, "undoFailed"))
      BY <2>1, <3>2, CallKeepsVms
    <3>3. CASE \/ SshCall(f, can, effect, To(f, next),
                           Marked(f, next, "undoFailed"))
               \/ SilentLoss(f, To(f, next))
      BY <2>1, <3>3, SshKeepsVms, LossKeepsVms
    <3> QED
      BY <2>1, <3>1, <3>2, <3>3 DEF Undo, UndoOverSsh
  <2>2. CASE UndoType(f)
    BY <2>1, <2>2, EffectsKeepVm DEF UndoType
  <2>3. CASE UndoVm(f)
    <3>1. CASE Skip(f, "undoMemory")
      BY <1>1, <3>1 DEF Skip
    <3>2. CASE RemoteCall(f, VmExists(f), VmStarted(f), To(f, "undoMemory"),
                          Marked(f, "undoMemory", "undoFailed"))
      BY <3>2, CallKeepsVms, EffectsKeepVm
    <3> QED
      BY <2>3, <3>1, <3>2 DEF UndoVm, Undo
  <2>4. CASE UndoMemory(f)
    BY <2>1, <2>4, EffectsKeepVm DEF UndoMemory
  <2>5. CASE UndoDown(f)
    BY <2>1, <2>5, EffectsKeepVm DEF UndoDown
  <2>6. CASE FinishRollback(f)
    BY <1>1, <2>6 DEF FinishRollback, Skip
  <2> QED
    BY <1>5, <2>2, <2>3, <2>4, <2>5, <2>6 DEF RollbackSteps
<1> QED
  BY <1>2, <1>3, <1>4, <1>5 DEF DeployServiceSteps

LEMMA OtherServicesKeepVms ==
  ASSUME Inv, NEW f \in Flows,
         BackupServiceSteps(f) \/ UpdateFlowSteps(f) \/ ArchiveSteps(f)
         \/ RecoverySteps(f),
         ~ArchiveDestroy(f), ~RecoveryDestroy(f)
  PROVE  SameVmsExist
<1>1. ASSUME UNCHANGED host
      PROVE  SameVmsExist
  BY <1>1 DEF SameVmsExist
<1>2. ASSUME NEW can, NEW effect, NEW ok, NEW failed,
             Exec(f, can, effect, ok, failed), KeepsVm(f, effect)
      PROVE  SameVmsExist
  BY <1>2, ExecKeepsVms
<1>3. CASE BackupServiceSteps(f)
  <2>1. CASE BackupTar(f)
    BY <2>1, SshKeepsVms, LossKeepsVms, EffectsKeepVm DEF BackupTar
  <2>2. CASE BackupCleanup(f)
    BY <1>2, <2>2, EffectsKeepVm DEF BackupCleanup
  <2>3. CASE BackupDownload(f)
    <3>1. OverSsh(f, host[Srv(f)]).vm = host[Srv(f)].vm
      BY FlowFacts, ClientSaysNothing
    <3>2. host \in [Servers -> Host] /\ Srv(f) \in Servers
      BY FlowFacts DEF Inv, TypeOK
    <3> QED
      BY <2>3, <3>1, <3>2 DEF BackupDownload, SameVmsExist
  <2>4. CASE RestoreStop(f)
    BY <1>2, <2>4, EffectsKeepVm DEF RestoreStop
  <2>5. CASE RestoreUpload(f)
    BY <2>5, SshKeepsVms, EffectsKeepVm DEF RestoreUpload
  <2>6. CASE RestoreUntar(f)
    BY <1>2, <2>6, EffectsKeepVm DEF RestoreUntar
  <2>7. CASE RestoreUp(f)
    BY <1>2, <2>7, EffectsKeepVm DEF RestoreUp
  <2> QED
    BY <1>3, <2>1, <2>2, <2>3, <2>4, <2>5, <2>6, <2>7
       DEF BackupServiceSteps, BackupSteps, RestoreSteps
<1>4. CASE UpdateFlowSteps(f)
  <2>1. CASE \/ UpdateBroadcast(f) \/ UpdateSave(f) \/ UpdateQuit(f)
             \/ RestartSave(f) \/ RestartQuit(f)
    BY <2>1, RconKeepsVms
       DEF UpdateBroadcast, UpdateSave, UpdateQuit, RestartSave, RestartQuit
  <2>2. CASE UpdatePull(f) \/ UpdateHealthCheck(f)
    BY <1>2, <2>2, EffectsKeepVm DEF UpdatePull, UpdateHealthCheck
  <2>3. CASE UpdateUp(f)
    BY <1>2, <2>3, EffectsKeepVm DEF UpdateUp
  <2>4. CASE UpdateUndoUp(f)
    BY <1>2, <2>4, EffectsKeepVm DEF UpdateUndoUp
  <2>5. CASE RestartUp(f)
    BY <1>2, <2>5, EffectsKeepVm DEF RestartUp
  <2>6. CASE \/ UpdateMarkRunning(f) \/ UpdateUndoMarkRunning(f)
             \/ UpdateMarkFailed(f) \/ RestartMarkRunning(f)
    BY <1>1, <2>6 DEF UpdateMarkRunning, UpdateUndoMarkRunning,
       UpdateMarkFailed, RestartMarkRunning, UpdateStatus,
       WriteRefused
  <2> QED
    BY <1>4, <2>1, <2>2, <2>3, <2>4, <2>5, <2>6
       DEF UpdateFlowSteps, UpdateSteps, QuickRestartSteps
<1>5. CASE ArchiveSteps(f)
  BY <1>1, <1>5 DEF ArchiveSteps, ArchiveMarkFailed, ArchiveMarkArchived,
     ArchiveListTasks, ArchiveDisableTasks, UpdateStatus,
       WriteRefused
<1>6. CASE RecoverySteps(f)
  <2>1. CASE RecoveryStopVm(f)
    BY <2>1, CallKeepsVms, EffectsKeepVm DEF RecoveryStopVm, CloudCall
  <2>2. CASE RecoveryStartVm(f)
    BY <2>2, CallKeepsVms, EffectsKeepVm DEF RecoveryStartVm, CloudCall
  <2>3. CASE RecoveryBootstrap(f)
    <3>1. PICK there \in BOOLEAN :
            Exec(f, there /\ Reachable(f), Bootstrapped(host[Srv(f)]),
                 "ok", "error")
      BY <2>3 DEF RecoveryBootstrap
    <3>2. KeepsVm(f, Bootstrapped(host[Srv(f)]))
      BY EffectsKeepVm
    <3> HIDE DEF Bootstrapped
    <3> QED
      BY <1>2, <3>1, <3>2
  <2>4. CASE RecoveryRestart(f)
    BY <1>2, <2>4, EffectsKeepVm DEF RecoveryRestart
  <2>5. CASE RecoveryMarkFailed(f) \/ RecoveryReconfigure(f)
    BY <1>1, <2>5
       DEF RecoveryMarkFailed, RecoveryReconfigure, UpdateStatus, UpdateRow,
       WriteRefused
  <2> QED
    BY <1>6, <2>1, <2>2, <2>3, <2>4, <2>5 DEF RecoverySteps
<1> QED
  BY <1>3, <1>4, <1>5, <1>6

\* The user, the cloud and an exit take no VM away by themselves.
LEMMA NobodyElseTakesVms ==
  ASSUME Inv,
         \/ \E f \in Flows : UserSteps(f)
         \/ CloudSteps \/ UnmountPlayers \/ Exit \/ UNCHANGED vars
  PROVE  SameVmsExist
<1>1. ASSUME UNCHANGED host
      PROVE  SameVmsExist
  BY <1>1 DEF SameVmsExist
<1>2. host \in [Servers -> Host]
  BY DEF Inv, TypeOK
<1>3. ASSUME NEW f \in Flows, WatchStats(f)
      PROVE  SameVmsExist
  BY <1>2, <1>3 DEF WatchStats, SameVmsExist, Host
<1>4. CASE Exit
  <2>1. \A s \in Servers : host'[s] = [host[s] EXCEPT !.ssh = "none"]
    BY <1>4 DEF Exit
  <2>2. ASSUME NEW s \in Servers
        PROVE  host'[s].vm = host[s].vm
    <3>1. host[s] \in Host
      BY <1>2
    <3>2. [host[s] EXCEPT !.ssh = "none"].vm = host[s].vm
      BY <3>1 DEF Host
    <3> QED
      BY <2>1, <3>2
  <2> QED
    BY <2>2 DEF SameVmsExist
<1>5. ASSUME NEW f \in Flows, UserSteps(f)
      PROVE  SameVmsExist
  <2>1. \/ \E s \in Servers : OpenPanel(f, s)
        \/ ClosePanel(f) \/ Dismiss(f) \/ BeginRecovery(f)
        \/ WatchStats(f) \/ MountPlayers(f)
        \/ \E op : Select(f, op)
        \/ \E t : AddTask(f, t)
        \/ \E name, type : BeginDeploy(f, name, type)
    BY <1>5 DEF UserSteps, Deploy, RetryDeploy
  <2>2. ASSUME \/ \E op : Select(f, op)
               \/ \E t : AddTask(f, t)
               \/ \E name, type : BeginDeploy(f, name, type)
        PROVE  UNCHANGED host
    BY <2>2 DEF Select, AddTask, BeginDeploy
  <2>3. ASSUME \/ \E s \in Servers : OpenPanel(f, s)
               \/ ClosePanel(f) \/ Dismiss(f) \/ BeginRecovery(f)
               \/ MountPlayers(f)
        PROVE  UNCHANGED host
    BY <2>3 DEF OpenPanel, ClosePanel, Dismiss, BeginRecovery, MountPlayers
  <2> QED
    BY <1>1, <1>3, <2>1, <2>2, <2>3
<1>6. CASE CloudSteps
  <2>1. PICK s \in Servers :
          \/ VmBoots(s) \/ CloudInitRuns(s) \/ DockerRestarts(s)
          \/ LineDrops(s) \/ DialEnds(s)
    BY <1>6 DEF CloudSteps
  <2>2. host \in [Servers -> Host]
    BY DEF Inv, TypeOK
  <2>3. /\ HangUp(host[s]).vm = host[s].vm
        /\ Bootstrapped(host[s]).vm = host[s].vm
    BY <2>2, ClientSaysNothing DEF Bootstrapped, Host
  <2>4. CASE VmBoots(s) \/ CloudInitRuns(s)
    BY <2>2, <2>3, <2>4 DEF VmBoots, CloudInitRuns, SameVmsExist, Host
  <2>5. CASE DockerRestarts(s)
    BY <2>2, <2>5 DEF DockerRestarts, SameVmsExist, Host
  <2>6. CASE LineDrops(s) \/ DialEnds(s)
    BY <2>2, <2>3, <2>6 DEF LineDrops, DialEnds, SameVmsExist, Host
  <2> QED
    BY <2>1, <2>4, <2>5, <2>6
<1> QED
  BY <1>1, <1>4, <1>5, <1>6 DEF UnmountPlayers, vars

\* Infrastructure goes away only after a complete backup or from a server
\* that has failed: archive destroys behind its backup, the recovery panel
\* opens on a failed row, whose message no interleaved operation clears.
THEOREM WorldIsSavedAlways == Spec => WorldIsSaved
<1> DEFINE Saved == \A s \in Servers :
                      host[s].vm # "absent" /\ host'[s].vm = "absent" =>
                        Downloaded(s)
                        \/ servers[s].errorMessage # "none"
<1>1. ASSUME Inv, NEW f \in Flows, NEW can, NEW effect, NEW done, NEW thrown,
             RemoteCall(f, can, effect, done, thrown),
             \/ Downloaded(Srv(f))
             \/ servers[Srv(f)].errorMessage # "none"
      PROVE  Saved
  <2>1. host \in [Servers -> Host] /\ Srv(f) \in Servers
    BY <1>1, FlowFacts DEF Inv, TypeOK
  <2>2. host' \in {host, [host EXCEPT ![Srv(f)] = effect]}
    BY <1>1 DEF RemoteCall
  <2> QED
    BY <1>1, <2>1, <2>2
<1>2. ASSUME Inv, NEW f \in Flows, ArchiveDestroy(f)
      PROVE  Saved
  <2>1. Downloaded(Srv(f))
    BY <1>2, FlowFacts DEF ArchiveDestroy, At, ProgressInv
  <2>2. PICK done, thrown : RemoteCall(f, TRUE, Destroyed(f), done, thrown)
    BY <1>2 DEF ArchiveDestroy
  <2> QED
    BY <1>1, <1>2, <2>1, <2>2
<1>3. ASSUME Inv, NEW f \in Flows, RecoveryDestroy(f)
      PROVE  Saved
  <2>1. servers[Srv(f)].errorMessage # "none"
    BY <1>3, FlowFacts DEF RecoveryDestroy, At, PanelInv
  <2>2. PICK done, thrown : RemoteCall(f, TRUE, Destroyed(f), done, thrown)
    BY <1>3 DEF RecoveryDestroy
  <2> QED
    BY <1>1, <1>3, <2>1, <2>2
<1>4. SameVmsExist => Saved
  BY DEF SameVmsExist
<1>5. ASSUME Inv, NEW f \in Flows, Provision(f)
      PROVE  Saved
  <2>1. host \in [Servers -> Host]
    BY <1>5 DEF Inv, TypeOK
  <2>2. \A s \in Servers : host'[s] = host[s] \/ host'[s].vm = "staging"
    BY <1>5, <2>1 DEF Provision
  <2> QED
    BY <2>2
<1>6. Inv /\ [Next]_vars => Saved
  <2> SUFFICES ASSUME Inv, [Next]_vars
               PROVE  Saved
    OBVIOUS
  <2>1. ASSUME NEW f \in Flows, ServiceSteps(f)
        PROVE  Saved
    BY <1>2, <1>3, <1>4, <1>5, <2>1, DeployServiceKeepsVms, OtherServicesKeepVms
       DEF ServiceSteps
  <2> HIDE DEF Saved
  <2> QED
    BY <1>4, <2>1, NobodyElseTakesVms DEF Next
<1>7. Inv /\ [Next]_vars => [Saved]_vars
  BY <1>6
<1> QED
  BY <1>7, InvCorrect, PTL DEF Spec, WorldIsSaved
=============================================================================
