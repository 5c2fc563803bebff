# zomboid-cli: specifications and proofs

zomboid-cli is a terminal program that deploys Project Zomboid servers to Google
Cloud and operates them: it provisions a VM with CDKTF/terraform, drives docker
compose on it over SSH, talks to the game over RCON, keeps one SQLite row per
server, and backs up and archives worlds. It is one process with an event loop;
several processes may share the database file. The modules here model the part of
it that can lose a VM, a world or the truth about a server, and check and prove what
must not happen.

Paths are relative to the repository (`src/...`).

## 1. Inventory

| Component | State it keeps | Operations | Hard because |
|---|---|---|---|
| `shared/infra/entities/server-record.ts` | status graph | `isValidStatusTransition` | every write is judged by it |
| `shared/infra/database/sqlite-local-db.ts`, `migrations.ts` | tables servers, scheduled_tasks, settings, _migrations | open, migrate, seed, create, get, update, list, delete | `updateServer` checks and writes in two steps with an await between; several processes open the file at once, without a busy timeout |
| `app/entrypoints/index.tsx`, `AppContextProvider.tsx`, `composition-root.ts` | the context, or none yet | start, SIGINT | a start that throws, or is killed between two migrations |
| `GlobalSettingsPanel.tsx`, `use-translation.ts` | the runtime locale | choose a language | every start seeds a default |
| `features/server-deploy/services/deploy-service.ts` | none | `deploy`, `startServer`, `stopServer`, `changeInstanceType` | seven or more awaits each, polling, rollback |
| `features/server-deploy/services/update-flow-service.ts` | none | `gracefulUpdate`, `quickRestart` | backup gate, shared RCON, rollback |
| `features/backups/services/backup-service.ts` | tarballs on disk | `create`, `restore`, `list` | transfers that break off |
| `features/archive/services/archive-service.ts` | none | `archive` | destroys before it records |
| `features/scheduler/services/scheduler-service.ts` | table scheduled_tasks, crontab on the VM | `addTask`, `removeTask`, `toggleTask` | rewrites the whole crontab from a list read earlier |
| `features/server-dashboard/.../ErrorRecoveryPanel.tsx` | none | ten recovery actions | works on a stale copy of the row; nothing renders it (section 8) |
| `ServerManagement`, `BackupsPanel`, `SchedulerPanel`, `PlayerManagement` | the server prop read when the panel opened | start services | stale props, overlapping operations |
| `shared/infra/rcon/tcp-rcon-gateway.ts`, `rcon-service.ts` | one socket, one pending promise, one tunnel | `connect`, `sendCommand`, `disconnect` | shared by all panels and flows |
| `shared/infra/ssh/ssh-pool.ts`, `ssh2-gateway.ts` | clients by host | `getClient`, `exec`, `release` | races, dead clients, retries |
| `shared/infra/cdktf/*` | terraform state, VM | `provision`, `destroy`, `stop/start/changeMachineType` | partial effects, lost answers |
| `use-rcon.ts`, `use-server-players-polling.ts`, `PlayerManagement.tsx` | mounted or not, a timer | mount, unmount, poll, kick, ban, broadcast | sessions that do not know of each other share one connection |
| `inventory-service.ts`, `server-store.ts` | the two lists | read at start | two queries, never refreshed |
| latency, stats services, pingers | none or a cache | reads | little state |
| `navigation-store.ts`, `ui-store.ts`, `DashboardShellScreen`, `SidebarNav`, `SelectList` | stack of contexts, focus, modal, cursors | push and pop, Tab, Escape, Enter | one key reaches every listener |
| `wizard-store.ts`, `SetupWizard`, `wizard-steps/*` | the answers, the step shown | five steps, `enableApis`, deploy | calls return whatever is shown by then |
| notification store | a list | add | little state |

Interaction: a panel calls a service method; the method reads the row
(`requireServer`), then alternates between remote calls (`ssh.exec`, `sftp`,
`cloud.*`, `rcon.*`) and database writes. Nothing locks a server: two panels,
one panel twice, or two processes may run methods on the same server at once.
What makes each component correct is listed as the properties of section 4; what can
go wrong, at its line, is the `hazards` list of `PROJECT.json`.

## 2. Modules

    ServerRecord                  status graph, row
      ServerContract              abstract: what is promised about a server
      Platform                    shared state, awaits, database, cloud, ssh, RCON
        DeployService             deploy, start, stop, resize and its rollback
        BackupService             create, restore
          UpdateFlowService       gracefulUpdate, quickRestart
          ArchiveService          archive
        ErrorRecovery             recovery panel
          ServerLifecycle         composition, panels, properties, invariant
            MCServerLifecycle     instances for TLC
            ServerLifecycleProofs     types
              LifecycleSafetyProofs   Inv is inductive, and what follows from it
                OnePanelProofs        one panel: outcomes, and the step simulation
    RconSlot                      abstract: one connection, one slot for a promise
      TcpRconGateway              the gateway: sockets, packets, timers, buffer
        TcpRconProofs             its properties, and that it implements RconSlot
      RconSessions                tabs, polls and senders over RconSlot, the tunnel
        SessionProofs
    LocalDb                       the SQLite file: migrations, settings, rows
      AppContext                  start of a process, what it reads once, its end
        AppProofs
    Ssh2Gateway                   pool of ssh clients and exec with retries
      SchedulerService            tasks table against crontab, over that gateway
        SchedulerProofs
    Navigation                    stack of contexts, focus, cursor of the sidebar
      SetupWizard                 the five steps and the calls they make
        DashboardShell            which listener takes a key; properties
          MCDashboardShell        instance for TLC
          ShellProofs

### The lifecycle of a server

State (`Platform`): `servers` is the servers table, `tasks` the enabled scheduled
tasks, `host` what really runs in the cloud and on the VM, together with the ssh
client cached for it (none, live or dead), `backups` what kinds of tarball lie on
the local disk, `rcon` and `dialing` the one RCON connection and the connects under
way, `faults` a counter of unprovoked failures, `flow` the panels and the
operations they started.

A service method is an async function, so a flow has a label `at` that names the
await it is suspended in, and each action takes it from one await to the next: the
guard is the label, the effect is what the code does up to the next await. The
labels of `deploy`, for example, are bucket, provision, saveIp, vmBoot, cloudInit,
markRunning and deployFailed, the awaits of `deploy-service.ts:103-159`.

* A cloud call succeeds, or throws before or after its effect; one whose
  precondition does not hold throws. The user of a login is not part of the precondition
  here: `deploy` connects as root while the stack installs keys for zomboid only, so the
  model lets more calls through than the program gets; `SchedulerService` models it. An ssh call has a third failure, the silent
  one: the channel closes without an exit code, which `ssh2-gateway.ts` counts as
  exit 0, and the command may not have been carried out (in a resize the history mark
  "lost" remembers it). Unprovoked failures are at
  most `MaxFaults` in a behaviour.
* `ssh-pool.ts` never learns that a connection has ended: `LineDrops` and the cloud
  calls that stop a VM leave a dead client cached, and every later command of the
  process fails on it.
* The startup script of the VM runs at every boot (`CloudInitRuns`), not only the
  first: it writes the compose file of the deployment again.
* `updateServer` with a status (`UpdateStatus`) takes two steps, check and write, as
  in the code; between them any other flow may run.
* A write throws when another flow writes at that moment (`WriteRefused`): SQLite has one
  writer and the program sets no busy timeout. Two panels of one process cannot meet in
  this way, two processes can; flows stand for either, so the model has more of it
  than one process does. `INSERT` of a deployment, `updateServer` and `updateTask` are
  treated so; a refused `createTask` leaves nothing, and is no step. A last write that
  is refused may leave "provisioning" or "failed" behind: nothing retries it.
* `WatchStats` is the statistics tab, whose first sample leaves an ssh client in the
  pool; `MountPlayers`, `UnmountPlayers` and `DialEnds` are the players tab, which
  opens and closes the RCON connection the operations share.
* `Exit` ends the process in the middle of whatever runs; the tables, the disk and the
  cloud stay, the caches go.
* `Ops` is the set of operations users may start, so that a run can look at some of
  them in more depth.

Data is reduced to what the code tells apart: an address is `none`, `ip` or `zero`
(the 0.0.0.0 of a failed terraform output), an error text is one of the kinds
`resolveRecoveryPhase` distinguishes, a tarball is complete, truncated on the VM (tar
was killed) or partial on the disk (the download broke off).

### The RCON gateway

`TcpRconGateway` is `tcp-rcon-gateway.ts` at the grain of its event handlers: the
sockets, what has become of each packet sent, the receive buffer, the one pair
`pendingResolve`/`pendingReject` (`pending`), every timer and the one reference
to the newest (`currentTimer`). `connect`, `sendCommand` and `disconnect` are actions
anybody may take at any time, since all panels share the gateway.

The game answers a request with any number of packets up to `MaxReplies`, none included:
Source RCON answers AUTH with a RESPONSE_VALUE and then an AUTH_RESPONSE, and a long
output in several. A connection delivers the packets in the order of their
requests; of a refused login the last packet has id -1. `handleData` handles one packet
for each data event and compares neither id nor type, so the second packet of an
answer waits in the buffer for the next call, and a call can be given the answer to
another although no call was ever given up. `WrongAnswerHasCause` says that it takes a
call given up or an answer of several packets, of an earlier call.

Abstractions: a data event completes one packet or two (a partial packet
changes nothing until it is complete, and that bytes of an old socket may complete a
packet of the next is left out); whether the port is reachable is left open, so that
every connect may succeed, fail or time out.

### Those who share the gateway

`RconSlot` is what the gateway is to its callers: one connection, and one slot for
the promise that awaits an answer. A login or a command takes the slot from whoever
was in it, and the promise that was there never settles. `TcpRconGateway`
implements it (`IsOneSlot`), so that `RconSessions` can be written over the slot
and needs no packets. That `RconSessions` uses the slot only by its operations is so by
construction and no property. A session is the effect of a mounted players tab (tunnel,
connect, players), a poll (connect, players and always a disconnect) or
a sender (kick or ban, broadcast, an update). `RconService` keeps the last tunnel in
`this.tunnel`, and the model every tunnel that is open. What follows an await runs as
soon as its promise has settled (`Quiet`), as microtasks do. History: `company` is
whether another session has been under way at the same time, `leftIn` what a tab
awaited when it was left.

`ServerLifecycle` has a coarser RCON connection of its own (`rcon`, `dialing`), for
what updates and restarts do to a server; the two are not composed.

### Starting, and the database of several processes

`LocalDb` is the file at the grain of statements: reads see what is
committed, a write needs the one write lock and throws when somebody else holds it.
`AppContext` has a process go through opening, migrations one by one, seeding,
the locale, and the two queries that fill the lists of the dashboard, with a
kill possible between any two steps and other processes running in between. Errors of
a start leave the process at "failed": the screen goes on saying that it is loading.
`CheckUpdate` and `WriteUpdate` are `updateServer`, `Deploy` is `createServer`, so
that the lists are read while rows change. `update` does not name the operation
behind it: that is the subject of `ServerLifecycle`.

### The ssh gateway and the scheduler

`Ssh2Gateway` has the pool (`getClient`, with the race of two callers that both find
no client) and `exec` with its retries, for one host. `SchedulerService` adds the
tasks table and `addTask`, `removeTask`, `toggleTask`, each of which changes the
table, reads it back and rewrites the crontab with one command. A method is one step
up to the start of that command: within a process nothing runs between them, as the
database is synchronous. `Unparsable` are tasks whose cron expression crontab
refuses; such a task can be added because `addTask` does not call `validateCron`.
`Accepted` is {"zomboid"}, the user in the stack's ssh-keys metadata, while the
scheduler connects as root: its commands get through only on a client that another
service has put into the pool, which `Watch` does for the statistics tab. The number of a client that never became ready is used
again, so a few numbers stand for any number of dials. An attempt that fails may have installed its
table before it did (`MayInstall`), and is repeated all the same. A command that is cut
off and carried out later than its exec ended is not modelled.

### The shell

One action of `DashboardShell` is one key, or one call that returns between two
keys; within the event loop nothing interleaves with either. Ink hands a key to every
listener, and each decides by itself: the shell's own handler is off while a modal
is open, the lists of the sidebar and of the panels ask for the focus, the
wizard and the confirm dialog always listen. So Enter is a conjunction of what
each of them makes of it. `Navigation` has the context stack and the sidebar's
list, which stays mounted while its items change from nine tabs to four menu items.
`SetupWizard` has the store of answers, which outlives the component, the local state of
the step that is mounted, the `enableApis` calls and the deployments under way; a
call belongs to the mounted step (`own`) or only to the store, and `late` marks one made
before the store was last reset, and the answers that one has changed. Rendering again
re-runs the effects whose callbacks the wizard makes anew (`Rerendered`). `manage`
is the local state of `ServerManagement`: React keeps it as long as that component is
rendered in its place, for whichever server. `regionFor`, `machineFor`, `enabled` and
`manage.server` are history.

A definition marked "faulty variant" is a plausible bug in the definition that
follows it. Nothing uses it: it documents what each property would catch.

## 3. Abstract specification

`ServerContract` knows a status, whether infrastructure exists and whether a backup
has been saved, that is, a tarball whose download completed. Infrastructure is
built only for a registered server in "provisioning", destroyed only with a backup or
on a failed server, statuses follow the graph, "running" is written only of an
existing VM and "archived" only after the VM is gone and the world is saved.
`MeetsContract` is the refinement, with the mapping in `ServerLifecycle`
(`Contract`), checked and proved. It holds for one panel with kills and failures; two panels break the
status graph, since a write that passed its check earlier may overwrite "archived".
What survives there is stated property by property in the run `two_panels`.

`RconSlot` stands between two detailed modules: `IsOneSlot` says that the gateway
implements it (mapping in `TcpRconGateway`: a pending call is the request whose
callbacks are set, a socket is dialing, open or closed), checked and proved, and the
sessions are written over it.

## 4. Runs

| Run | Instance | Shows |
|---|---|---|
| `one_panel` | 1 server, 1 panel, 1 task, 2 machine types of which the wizard deploys one, all operations, 1 fault, kill at any point, fairness of services | `TypeOK`, `ErrorOnlyAfterFailure`, `ResizeOutcome`, `ArchiveOutcome`, `MeetsContract`, `OperationEnds` |
| `two_panels` | 1 server, 2 symmetric panels, operations that create, stop and destroy, 1 fault | `EveryVmIsListed`, `ArchivedIsSaved`, `FailureExplained`, `OnlineHasAddress`, `WorldIsSaved` |
| `rcon` | 2 sockets, 3 requests, at most 2 packets in answer to each, fairness of timers | `PendingIsTimed`, `ConnectedHasSocket`, `AnswersOnce`, `WrongAnswerHasCause`, `CallsEnd`, `IsOneSlot` |
| `sessions` | 4 sessions, 2 connections dialing or open at a time | `HangsOnlyInCompany`, `TunnelsAreClosed`, `NobodysConnection`, `CommandsStayInTab` |
| `start` | 2 processes, 2 migrations, 1 server, fairness of starts | `MigrationsRecorded`, `ReadyIsMigrated`, `StartFailsOnlyInCompany`, `ChoiceIsKept`, `ShownIsStored`, `NoServerIsMissed`, `StartEnds` |
| `scheduler` | 2 callers, 2 clients, 2 tasks of which crontab refuses one, fairness of callers | `SchedulerTypeOK`, `CommandsAreLoggedIn`, `FewOrphans`, `CrontabFollowsTable`, `SyncEnds` |
| `shell` | 2 servers, 5 tabs, a stack of at most 3, 2 projects, 1 region, 2 `enableApis` calls and 2 deployments under way | `ShellTypeOK`, `WizardIsAlone`, `StackIsOrderly`, `CursorIsOnItem`, `QuestionIsAboutServer`, `AnswersBelongTogether` |
| `last_write` | 1 panel, no fault | finding: work done, status write rejected |
| `instance_name` | `NamesAgree` FALSE | finding: the VM has another name than services ask for |
| `resize_undo` | 1 panel, no fault | finding: a resize fails and its rollback too, with no call failing of its own accord |
| `resize_memory` | 1 panel, resizes, no fault | finding: a resize that returns leaves the memory of the old type |
| `mandatory_backup` | 1 panel, 1 fault | finding: a killed tar counts as a backup |

Bounds. One server is enough wherever servers do not interact: they share only the
name column (covered by retry_deploy, which meets its own name) and the RCON
connection (the subject of `sessions`). `MaxPolls = 1` lets a polling loop succeed in
its last round and time out. Two panels are what a race needs; the theorems of
section 6 are for any number. `MaxFaults` bounds the environment, never the code.
In `one_panel` the wizard deploys one type (`WizardTypes`) and a resize leads to the
other: which of the two a server starts with makes no difference. In `rcon`, two sockets
are an old one and its successor, three requests are the authentication, a call that is
given up and the call that gets its answer, and two packets are an answer and what
`handleData` leaves of it. In
`scheduler`, two clients are enough for two callers because of `FewOrphans`: of the
connections left behind there are fewer than callers, so one number is always
free. In `shell`, five tabs are one more than the menu has items, so the cursor can
be left beyond them; a second project and a second call are what a late answer
needs; two deployments let one close the wizard while another is under way. In
`sessions`, a tab that is mounted starts its poll with it, so four sessions are two
tabs, one after the other or the second over the leftovers of the first; a session
dials once, and two connections are the one in use and one that replaces it. In
`start`, two processes are what a race needs, and two migrations what a kill between
migrations needs: the repository has one so far, and a loop written for several. The number of sessions is bounded, so `sessions` comes to a stop
and does not check for deadlock. All other specifications do: a panel can always be
opened or closed, a connect always tried, a process always started.

`NamesAgree` is TRUE except in `instance_name`: the other runs ask what the code does
when its calls reach the VM it means, and with FALSE no deployment of the code as
it stands ends well.

## 5. Fairness

`FairSpec` has weak fairness of `ServiceSteps(f)` for every flow and nothing else. The
event loop resumes every flow whose promise has settled, and every outside call is
assumed to settle: commands run under ssh2 and terraform/gcloud child processes end or
fail. No fairness is assumed of users, of the VM booting, of cloud-init or of
docker: a deployment ends because its polling loops give up. A flow that waits
for an RCON answer that a disconnect has discarded stays at "hung";
`OperationEnds` names that ending. A kill ends the operations of its process too; what it
leaves in the row is the subject of other properties.

`FairRconSpec` has weak fairness of the timers only. Neither the network nor the game
owes anything, so `CallsEnd` (no call keeps the pending slot for ever) rests on the
timeouts the gateway sets.

`FairAppSpec` has weak fairness of the steps of a start, which follow each other
with nothing for a process to wait for: a database that is locked throws at once. A
kill is never required and never excluded. `StartEnds` says that a start ends in the
dashboard, in the error, or with the process.

`FairSchedulerSpec` has weak fairness of each caller's own steps: every dial and
every command it awaits succeeds or throws. `SyncEnds` then rests on the number of
retries.

## 6. Theorems

For all values of the constants that satisfy the named assumptions: `CatalogAssumption`
(the catalog is part of the machine types), `PlatformAssumption` (there is a server,
a name and a machine type, the wizard deploys machine types, `Nobody` is no server, bounds are natural numbers),
`RconAssumption` and `SessionAssumption` (bounds are natural numbers), `DbAssumption`
(migrations are numbered, `Nobody` is no process), `NavigationAssumption` (the tabs
are a sequence that contains "management", the stack has room for one context, "none" is no
server), `WizardAssumption` ("none" is no project and no region), `SshAssumption` (the callers are finitely many and
at least one), `TaskAssumption` (root and zomboid are users). The number of clients in the
pool needs no assumption.

* `TypeCorrect`: `TypeOK` is inductive. One lemma per group of actions
  (`DeployType`, `ResizeType`, ...) rests on lemmas about the shared steps
  (`RemoteType`, `UpdateStatusType`, `RconType`, `PollType`).
* `EveryVmIsListedAlways`, `ArchivedIsSavedAlways`, `OnlineHasAddressAlways`,
  `FailureExplainedAlways`. None of the four is inductive. Their strengthening
  `Inv` says of every row what its status entails (`RowInv`), and of every flow what
  it knows at the label where it stands: a deployment owns its row until it has saved
  the address (`DeployInv`); the copy of the row a panel acts on may be stale, but
  some of what it shows stays true (`PanelInv`), and so does what an operation has
  read itself (`StandingInv`); how far an operation has come tells what it has made
  sure of, for example that an archive past its download has a saved world
  (`ProgressInv`). `OneDeploymentEach` says that no two deployments under way build the
  same server, without which one could overwrite the row of the other. TLC
  checked `Inv` on both instances before it was proved.
* `WorldIsSavedAlways`, an action property: `Inv` says what holds where a VM is
  destroyed, and lemmas about who makes and who takes a VM away leave only these
  steps: a VM appears in `Provision` and goes in the destroy steps of archive and
  of the recovery panel; in every other step the same VMs exist as before
  (`SameVmsExist`).
* `ErrorOnlyAfterFailureAlone`, `ResizeOutcomeAlone`, `ArchiveOutcomeAlone` and
  `MeetsContractAlone`, for one panel on any number of servers, with any number of
  faults, a kill at any step and either value of `NamesAgree`. Their only
  hypothesis is `OnePanel` (`Flows` has no two elements), which is what the run
  `one_panel` has and what two panels break. `Inv` is not enough for them, since it
  is true of racing panels too; `SoloInv` adds what holds while nobody interferes:
  * a transition that passed its check is still valid when it is written
    (`RowSteady`), so no write breaks the status graph;
  * a VM that an operation has seen stays until that operation ends (`OutcomeInv`);
  * at each label of a resize, which of its marks are set, and what VM and type, and,
    where no command was lost, what container and memory must then be
    (`ResizeForward`); and at each label of the rollback,
    what is left to undo (`ResizeBack`). The step that made this inductive is that
    of a rollback that begins after the VM was started again: a running VM cannot be
    resized, so `undoType` fails there and the ending is `rollbackFailed`, never a
    `rolledBack` with the wrong type.

  TLC checked `SoloInv` before it was proved: on the instance of `one_panel` with
  `NamesAgree` TRUE and FALSE, and on one with two servers.
* `MeetsContractAlone` goes step by step: the initial state maps to that of
  `ServerContract`; a step that leaves statuses, downloads and VMs as they are is a
  stutter (`ContractStutters`); each other step is one operation of the contract
  (`DeployRegisters`, `ProvisionBuilds`, `DownloadSaves`, `DestroyIsAllowed`,
  `WriteMoves`); and `NextContract` finds that there are no more.
* `PendingIsTimedAlways`, `ConnectedHasSocketAlways`, `AnswersOnceAlways`,
  `WrongAnswerHasCauseAlways`, from `RconInv`: calls are numbered as they are sent, and
  only the last can be pending (`NumberedAsSent`); a call not yet sent has left no trace
  (`UnusedHasNoReply`); what is in the buffer is there once and has not been handled
  (`BufferInv`); a call was answered by a packet that has been handled (`AnswersUsed`),
  so that packet cannot answer another.
* `CommandsAreLoggedInAlways`, `FewOrphansAlways` from `SshInv`: a client that is
  being made is being made for one caller (`DialingInv`), and as long as the pool is
  empty every client is (`OrphanInv`). Once the pool has a client no other is
  begun, so the clients alive are at most as many as the callers; the counting uses
  `FiniteSetTheorems`.
* `CrontabFollowsTableAlways` from `CrontabInv`: an operation that is still alone is
  installing the lines of the table as it is (`AloneInv`), and nothing is claimed of the crontab
  while an operation is under way (`IdleInv`). `SchedulerTypeCorrect` adds the types.
* `ImplementsSlot`: the initial state maps to that of `RconSlot`, and under `RconInv`
  every step of the gateway is one of its steps or a stutter. `RconInv` is needed
  where the code clears a timer or a slot by what it remembers: only the
  invariant says whose it is.
* `AppTypeCorrect`, `MigrationsRecordedAlways`, `ReadyIsMigratedAlways`,
  `StartFailsOnlyInCompanyAlways`, `ChoiceIsKeptAlways`, `ShownIsStoredAlways`,
  `NoServerIsMissedAlways`: the invariants of `AppProofs` say that what is missing from
  `_migrations` is still to do for whoever is migrating (`MigrationInv`), that the
  list of what is to do was read alone, and is still right, for whoever has met nobody
  (`CompanyInv`), that the setting is there once seeded (`LocaleInv`), and where a
  server can be between the two queries (`ListsInv`).
* `SessionTypeCorrect`, `CommandsStayInTabAlways`, `HangsOnlyInCompanyAlways`,
  `TunnelsAreClosedAlways`, `NobodysConnectionAlways` from `SessionInv`: a session that is
  alone is being served, that is, its login or command is in the slot or its dial is
  under way (`ServedInv`); a connection with no tab left belongs to a session that
  will yet disconnect it (`OwnInv`); a connection to the server of an earlier tab has one
  of the three causes `CommandsStayInTab` names, a poll still under way, one rejected as
  it connected (nothing is disconnected then), or a tab left too early (`RouteInv`); a tunnel is lost only when a late one replaces
  it (`TunnelInv`, by counting).
* `ShellTypeCorrect`, `WizardIsAloneAlways`, `StackIsOrderlyAlways`,
  `CursorIsOnItemAlways`, `QuestionIsAboutServerAlways`,
  `AnswersBelongTogetherAlways` from `ShellInv`. The properties of the keyboard need
  each other: where the cursor is decides what Enter does to the stack, and the order of
  the stack is why no dialog passes from a server to another. What each step of the wizard has
  collected is `AnswerInv` (of the answers only the provider may be missing, and only if
  they are marked `late`), and that the component mounted is that of the step in the
  store, so that no Enter comes from another step, is `ViewInv`.

Only model-checked: liveness (`OperationEnds`, `CallsEnd`, `SyncEnds`,
`StartEnds`), since the prover has no rule for fairness and ENABLED. Every other
property of a passing run is also a theorem.

## 7. Findings

The five violation runs are disagreements between the code and its own comments
and tests; `PROJECT.json` quotes the lines. In short:

1. `last_write`: archiving, resizing or updating a running server does the work and
   then fails on the status write, because "running" has no transition to
   "archived" nor to itself.
2. `instance_name`: services look up the VM by display name, the stack names it by id.
3. `resize_undo`: the ssh client cached before the VM was stopped is dead when
   the VM runs again, so the resize throws; the rollback then asks for the type of a
   running VM to be changed, which the cloud refuses.
4. `resize_memory`: the reboot of a resize runs the startup script again, which writes
   the compose file, and with it the memory, of the deployment anew, in a resize that
   returns without an error; a test of `changeInstanceType` expects the memory of the
   new type. `ResizeOutcome`, which passes, claims it only until the script has run.
5. `mandatory_backup`: a tar killed on the VM closes its channel without an exit code,
   is taken for a success, and the archive goes on to destroy the world.

Met while modelling, without a run of their own: the scheduler logs in as root while
the stack installs keys for zomboid only; one task with a cron expression crontab
refuses blocks every later sync of that server; `createTunnel` opens a channel but no
local listener for `net.connect` to reach; the quotes of a crontab line are lost in
the `echo "..."` that installs it; `retry_deploy` deploys under the name its failed
row still holds, so it cannot succeed; a restore that fails leaves the container
stopped; when `stopInstance` takes effect and its answer is lost, the rollback of a
resize does not know that the VM is down. A start or a stop that passed its
status check before an archive finished overwrites "archived". A graceful update
broadcasts and quits on whatever server the shared RCON connection leads to.

Of the RCON sessions: a poll whose dial fails sets `connected` to false and rejects the
call of the tab that is using the connection, although
`use-server-players-polling.ts:43` calls the failure non-fatal; a poll that succeeds
disconnects the connection and the tunnel of the tab it was started with; it is
repeated once, by a `setTimeout`, where a comment says "poll at interval"; a tunnel is
replaced without being closed when a late one arrives.

Of the gateway: a refused login that is answered with two packets, as Source RCON does,
makes `connect` resolve with its first, although a test says "should throw RconAuthError
on auth failure via public connect()"; the refusal is then handed to the next command.

Of the start: the lists are read once, though `ActiveServersPanel.tsx:38` speaks of an
"immediate refresh on store mutations", and nothing mutates the store; of two processes
that start on a new file one may fail and stay at "Loading application context...".

In the shell: the comment "Modal takes all input" (`DashboardShellScreen.tsx:97`) is not
what happens, since the sidebar goes on taking arrows and Enter behind the wizard; the
branch below it that would close the wizard on Escape is never reached, because the
handler is inactive while a modal is open, so Escape resets the wizard and leaves it
open, although `dashboard-shell-e2e.test.tsx:141` calls that the way to close it; after a
deployment `SetupWizard.tsx:120` pops a context, of which the same test says (161)
that it is not needed; Enter in the last step both deploys, with the branch chosen before,
and selects the branch under the cursor; an `enableApis` call that returns after Escape
brings the wizard to step 3 with no provider, which the deployment then passes on as
null, although `SetupWizard.tsx:109` asserts `state.provider!`. `AnswersBelongTogether`
excepts that case, and only that: the provider may be missing only when a call
made before a reset has taken the wizard on.

## 8. Not modelled, and the plan

Not modelled, and why:

* rendering, typed text, translation tables, template text, key generation: no state that
  an operation depends on;
* latency and statistics: they read; what a late measurement does to the wizard is an
  action of `SetupWizard`, their ssh commands are a caller in `SchedulerService`;
* the file dialog of the desktop: input and output;
* the methods of `InventoryService` that write, the mutators of the server store,
  `deleteServer`, `deleteTasksByServer`, `SshPool.release`, `execStream`,
  `validateCron` and `uiStore.showConfirm`: nothing in the program calls them. Nothing
  renders `ServerDashboard` either (`Router.tsx:4-8`), and with it `ErrorRecoveryPanel`;
  its actions are modelled all the same (`ErrorRecovery`), since they are the program's
  only answer to a failed server, but no user can reach them as the code stands;
* the wording of crontab lines, commands and error messages, beyond what a branch of the
  code distinguishes.

Each component's note in `PROJECT.json` says what is left out of it.

Next, in this order:

1. the composition of `RconSessions` with the operations of `ServerLifecycle`, in place
   of the coarser connection it has;
2. pure algorithms: `calculateServerMemory`, `parsePlayers`, against
   reference definitions over bounded inputs.
