------------------------------ MODULE Platform ------------------------------
(***************************************************************************)
(* The state every service of the CLI works on, and the steps they share.  *)
(*                                                                         *)
(*   servers  the servers table (SQLite, one row per server id)            *)
(*   tasks    the ids of the enabled rows of scheduled_tasks, per server   *)
(*   host     what really runs in the cloud: the VM of each server, its    *)
(*            machine type, the SERVER_MEMORY its compose file is set to,  *)
(*            the state of the game container, and the ssh client that     *)
(*            SshPool keeps for its address                                *)
(*   backups  the kinds of backup tarballs of a server on the local disk:  *)
(*            an interrupted download leaves a "partial" one, the download *)
(*            of an archive that tar has not finished a "truncated" one    *)
(*   rcon     the server the one shared RCON connection goes to            *)
(*   dialing  servers to which an RCON connect is still in flight          *)
(*   faults   external calls that have failed so far without a reason      *)
(*   flow     the panels and the asynchronous operations started in them   *)
(*                                                                         *)
(* A service method is an async function: between two awaits it runs to    *)
(* completion, at an await any other flow may run.  So a flow carries a    *)
(* label "at" naming the await it is suspended in, and one action takes it *)
(* from there to the next await.  Flows of one process and flows of two    *)
(* processes that share the database file differ only in how finely they   *)
(* interleave; the model takes the finer one.                              *)
(***************************************************************************)
EXTENDS Integers, ServerRecord

CONSTANTS
  Servers,    \* server ids (UUIDs)
  WizardTypes, \* the machine types the wizard deploys
  Tasks,      \* scheduled task ids
  Flows,      \* panels open at the same time, over all CLI processes
  Nobody,     \* the RCON connection goes to no server
  Ops,        \* the operations the users start
  MaxPolls,   \* vmBootMaxPollAttempts and cloudInitMaxPollAttempts
  MaxFaults,  \* bound on unprovoked failures of external calls
  NamesAgree, \* TRUE when a VM answers to the instance name services use
  MayExit     \* TRUE when the process may be killed in mid-flow

ASSUME PlatformAssumption ==
  /\ Servers # {} /\ Names # {} /\ MachineTypes # {}
  /\ WizardTypes \subseteq MachineTypes
  /\ Nobody \notin Servers
  /\ MaxPolls \in Nat
  /\ MaxFaults \in Nat
  /\ NamesAgree \in BOOLEAN
  /\ MayExit \in BOOLEAN

VARIABLES servers, tasks, host, backups, rcon, dialing, faults, flow

vars == <<servers, tasks, host, backups, rcon, dialing, faults, flow>>

AnyType == CHOOSE t \in MachineTypes : TRUE

\* container: "pending" until cloud-init has run, "none" after compose down,
\* "exited" when the game process quit, "stopped" after compose stop.
\* The startup-script metadata holds the cloud-init script, with the memory
\* the stack was provisioned with; due: it is still to run since the boot.
Host ==
  [ vm        : {"absent", "staging", "running", "stopped"},
    type      : MachineTypes,
    memory    : MachineTypes,
    script    : MachineTypes,
    due       : BOOLEAN,
    container : {"none", "pending", "up", "exited", "stopped"},
    ssh       : {"none", "live", "dead"} ]

NoHost ==
  [ vm |-> "absent", type |-> AnyType, memory |-> AnyType, script |-> AnyType,
    due |-> FALSE, container |-> "none", ssh |-> "none" ]

\* What changeInstanceType has achieved, and whether undoing it failed.  The
\* code does not know of "lost": a command it took for done was not.
Marks == {"vmStopped", "machineChanged", "vmStarted", "composeUpdated",
          "undoFailed", "lost"}

Tarballs == {"complete", "truncated", "partial"}

\* A tarball that was downloaded to its end is on the disk.
Downloaded(s) == {"complete", "truncated"} \intersect backups[s] # {}

\* Labels at which an operation is over: it returned, or threw.
Terminal == {"ok", "error", "rolledBack", "rollbackFailed"}

NoRow ==
  [ name |-> CHOOSE n \in Names : TRUE, status |-> "absent",
    errorMessage |-> "none", staticIp |-> "none",
    instanceType |-> AnyType, backupPath |-> "none" ]

\* A panel position without a server.
IdleFlow ==
  [ at      |-> "idle",
    op      |-> "none",
    srv     |-> CHOOSE s \in Servers : TRUE,
    shown   |-> NoRow,       \* the server prop of the panel
    ip      |-> "none",      \* the address provision answered with
    server  |-> NoRow,       \* the row requireServer returned
    newType |-> AnyType,
    file    |-> "complete",  \* the tarball to restore, or on the VM
    listed  |-> {},          \* the tasks listTasks returned
    marks   |-> {},
    error   |-> "none",
    polls   |-> 0,
    checked |-> FALSE ]      \* updateServer is between its check and its write

At(f, op, label) == flow[f].op = op /\ flow[f].at = label

Srv(f) == flow[f].srv

-----------------------------------------------------------------------------
(* What a flow may become, and its becoming it.                            *)

To(f, label) ==
  [flow[f] EXCEPT !.at = label, !.polls = 0, !.checked = FALSE]

Marked(f, label, mark) ==
  [flow[f] EXCEPT !.at = label, !.marks = @ \union {mark},
                  !.polls = 0, !.checked = FALSE]

Thrown(f, label, error) ==
  [flow[f] EXCEPT !.at = label, !.error = error,
                  !.polls = 0, !.checked = FALSE]

Become(f, next) == flow' = [flow EXCEPT ![f] = next]

Goto(f, label) == Become(f, To(f, label))

Throw(f, label, error) == Become(f, Thrown(f, label, error))

\* A method skips a step: nothing but the label changes.
Skip(f, label) ==
  /\ Goto(f, label)
  /\ UNCHANGED <<servers, tasks, host, backups, rcon, dialing, faults>>

\* One of at most MaxFaults calls that fail for a reason of their own.
Fault == faults < MaxFaults /\ faults' = faults + 1

-----------------------------------------------------------------------------
(* The local database.                                                     *)

\* The database file has one writer at a time and no busy timeout: a write
\* that meets the one of another process throws.  A read never does (WAL).
Contended(f) == (\E g \in Flows : g # f) /\ Fault

WriteRefused(f, failed) ==
  /\ Contended(f) /\ Throw(f, failed, "other")
  /\ UNCHANGED <<servers, tasks, host, backups, rcon, dialing>>

\* createServer with a fresh id: the INSERT fails when the name is taken.
NameTaken(name) ==
  \E s \in Servers : servers[s].status # "absent" /\ servers[s].name = name

\* Faulty variant: the transition is not checked.
UpdateUnchecked(f, status, row, ok, failed) ==
  /\ servers' = [servers EXCEPT ![Srv(f)] = [row EXCEPT !.status = status]]
  /\ Goto(f, ok)
  /\ UNCHANGED <<tasks, host, backups, rcon, dialing, faults>>

\* updateServer with a status.  The check reads the row, the UPDATE is a
\* separate statement after an await; a missing row is not checked, and the
\* UPDATE of a missing row changes nothing.
UpdateStatus(f, status, row, ok, failed) ==
  LET s == Srv(f) IN
  \/ /\ ~flow[f].checked
     /\ IF \/ servers[s].status = "absent"
           \/ IsValidStatusTransition(servers[s].status, status)
        THEN flow' = [flow EXCEPT ![f].checked = TRUE]
        ELSE Throw(f, failed, "other")
     /\ UNCHANGED <<servers, tasks, host, backups, rcon, dialing, faults>>
  \/ /\ flow[f].checked
     /\ servers' = IF servers[s].status = "absent" THEN servers
                   ELSE [servers EXCEPT ![s] = [row EXCEPT !.status = status]]
     /\ Goto(f, ok)
     /\ UNCHANGED <<tasks, host, backups, rcon, dialing, faults>>
  \/ flow[f].checked /\ WriteRefused(f, failed)

\* updateServer without a status: one UPDATE, no check.
UpdateRow(f, row, ok, failed) ==
  LET s == Srv(f) IN
  \/ /\ servers' = IF servers[s].status = "absent" THEN servers
                   ELSE [servers EXCEPT ![s] = row]
     /\ Goto(f, ok)
     /\ UNCHANGED <<tasks, host, backups, rcon, dialing, faults>>
  \/ WriteRefused(f, failed)

-----------------------------------------------------------------------------
(* Calls that leave the process: ssh.exec, cloud.*.  A call that cannot    *)
(* succeed throws.  Any other call either succeeds, or is one of at most   *)
(* MaxFaults calls that throw for a reason of their own, before or after   *)
(* they took effect (a connection lost while the answer is on its way).    *)

\* The RCON connection of a server dies with its game process.
ConnectionAfter(newHost) ==
  IF rcon # Nobody /\ newHost[rcon].container # "up" THEN Nobody ELSE rcon

\* ssh needs an address in the row the flow read and a VM that runs.  The
\* first use of an address leaves a client in the pool; retries and later
\* calls take that client, also when its connection is long gone.
Reachable(f) == /\ flow[f].server.staticIp = "ip"
                /\ host[Srv(f)].vm = "running"
                /\ host[Srv(f)].ssh # "dead"

OverSsh(f, h) == IF Reachable(f) THEN [h EXCEPT !.ssh = "live"] ELSE h

HangUp(h) == [h EXCEPT !.ssh = IF @ = "live" THEN "dead" ELSE @]

RemoteCall(f, can, effect, done, thrown) ==
  /\ \/ /\ can
        /\ host' = [host EXCEPT ![Srv(f)] = effect]
        /\ \/ Become(f, done) /\ UNCHANGED faults
           \/ Become(f, thrown) /\ Fault
     \/ /\ can
        /\ Become(f, thrown) /\ Fault
        /\ UNCHANGED host
     \/ /\ ~can
        /\ Become(f, thrown)
        /\ UNCHANGED <<host, faults>>
  /\ rcon' = ConnectionAfter(host')
  /\ UNCHANGED <<servers, tasks, backups, dialing>>

CloudCall(f, can, effect, ok, failed) ==
  RemoteCall(f, can, effect, To(f, ok), Thrown(f, failed, "other"))

\* A first connect that fails leaves no client behind.
SshCall(f, can, effect, done, thrown) ==
  /\ \/ /\ can
        /\ host' = [host EXCEPT ![Srv(f)] = OverSsh(f, effect)]
        /\ \/ Become(f, done) /\ UNCHANGED faults
           \/ Become(f, thrown) /\ Fault
     \/ /\ can
        /\ host' \in {host, [host EXCEPT ![Srv(f)] = OverSsh(f, @)]}
        /\ Become(f, thrown) /\ Fault
     \/ /\ ~can
        /\ host' = [host EXCEPT ![Srv(f)] = OverSsh(f, @)]
        /\ Become(f, thrown)
        /\ UNCHANGED faults
  /\ rcon' = ConnectionAfter(host')
  /\ UNCHANGED <<servers, tasks, backups, dialing>>

\* A command that is killed, or whose connection breaks, closes its channel
\* without an exit code, and exec takes that for exit code 0.
SilentLoss(f, done) ==
  /\ Reachable(f)
  /\ Become(f, done) /\ Fault
  /\ host' = [host EXCEPT ![Srv(f)] = OverSsh(f, @)]
  /\ rcon' = ConnectionAfter(host')
  /\ UNCHANGED <<servers, tasks, backups, dialing>>

Exec(f, can, effect, ok, failed) ==
  \/ SshCall(f, can, effect, To(f, ok), Thrown(f, failed, "other"))
  \/ SilentLoss(f, To(f, ok))

\* docker compose up -d, down and stop on the VM of the flow's server; there
\* is no docker before cloud-init has installed it.
HasDocker(f) == Reachable(f) /\ host[Srv(f)].container # "pending"
Up(f)   == [host[Srv(f)] EXCEPT !.container = "up"]
Down(f) == [host[Srv(f)] EXCEPT !.container = "none"]
Halt(f) == [host[Srv(f)] EXCEPT !.container = "stopped"]

\* stopInstance, startInstance and changeMachineType of the cloud provider.
\* Stopping and starting a VM that is already so succeeds; changing the type
\* requires a stopped VM.  The services name a VM after the server's display
\* name, ZomboidServerStack after its id: NamesAgree tells whether such a
\* call finds the VM at all.  destroy goes by the server id.
VmExists(f)  == NamesAgree /\ host[Srv(f)].vm \in {"running", "stopped"}
VmStopped(f) == [HangUp(host[Srv(f)]) EXCEPT !.vm = "stopped", !.due = FALSE,
                   !.container = IF @ = "up" THEN "exited" ELSE @]
VmStarted(f) == [host[Srv(f)] EXCEPT !.vm = "running",
                   !.due = @ \/ host[Srv(f)].vm = "stopped"]
VmResized(f, type) == [host[Srv(f)] EXCEPT !.type = type]
CanResize(f) == NamesAgree /\ host[Srv(f)].vm = "stopped"

\* cloud.destroy removes the whole stack; there may be nothing to remove.
Destroyed(f) == [NoHost EXCEPT !.ssh = HangUp(host[Srv(f)]).ssh]

-----------------------------------------------------------------------------
(* RCON commands go to the server the shared connection leads to, which is *)
(* not necessarily the server of the flow; without a connection they throw. *)
(* A disconnect while the answer is awaited clears the one pending promise, *)
(* and a second command takes its place: either way the caller waits for   *)
(* ever.                                                                   *)

RconCall(f, quits, ok, failed) ==
  /\ \/ /\ rcon # Nobody
        /\ host' = IF quits THEN [host EXCEPT ![rcon].container = "exited"]
                   ELSE host
        /\ \/ /\ \/ Goto(f, ok) /\ UNCHANGED faults
                 \/ Throw(f, failed, "other") /\ Fault
              /\ rcon' = IF quits THEN Nobody ELSE rcon
           \/ /\ Goto(f, "hung") /\ UNCHANGED faults
              /\ rcon' \in {Nobody, IF quits THEN Nobody ELSE rcon}
     \/ /\ Throw(f, failed, "other")
        /\ IF rcon = Nobody THEN UNCHANGED faults ELSE Fault
        /\ UNCHANGED <<host, rcon>>
  /\ UNCHANGED <<servers, tasks, backups, dialing>>

-----------------------------------------------------------------------------
(* What the cloud and the docker daemon do by themselves.                  *)

VmBoots(s) ==
  /\ host[s].vm = "staging"
  /\ host' = [host EXCEPT ![s].vm = "running"]
  /\ UNCHANGED <<servers, tasks, backups, rcon, dialing, faults, flow>>

\* The script writes the compose file anew and brings the container up.
Bootstrapped(h) ==
  [h EXCEPT !.container = "up", !.memory = h.script, !.due = FALSE]

\* Compute Engine runs a startup-script at every boot of the VM.
CloudInitRuns(s) ==
  /\ host[s].vm = "running"
  /\ host[s].due
  /\ host' = [host EXCEPT ![s] = Bootstrapped(@)]
  /\ UNCHANGED <<servers, tasks, backups, rcon, dialing, faults, flow>>

\* restart: unless-stopped brings back a container that exited by itself.
DockerRestarts(s) ==
  /\ host[s].vm = "running"
  /\ host[s].container = "exited"
  /\ host' = [host EXCEPT ![s].container = "up"]
  /\ UNCHANGED <<servers, tasks, backups, rcon, dialing, faults, flow>>

\* A connection breaks while nobody uses it.
LineDrops(s) ==
  /\ host[s].ssh = "live"
  /\ Fault
  /\ host' = [host EXCEPT ![s] = HangUp(@)]
  /\ UNCHANGED <<servers, tasks, backups, rcon, dialing, flow>>

-----------------------------------------------------------------------------
PlatformInit ==
  /\ servers = [s \in Servers |-> NoRow]
  /\ tasks   = [s \in Servers |-> {}]
  /\ host    = [s \in Servers |-> NoHost]
  /\ backups = [s \in Servers |-> {}]
  /\ rcon    = Nobody
  /\ dialing = {}
  /\ faults  = 0
  /\ flow    = [f \in Flows |-> IdleFlow]
=============================================================================
