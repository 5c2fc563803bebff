-------------------------- MODULE SchedulerService --------------------------
(***************************************************************************)
(* SchedulerService: the scheduled tasks of one server and the crontab     *)
(* that executes them on its VM (scheduler-service.ts).  Every edit of the *)
(* table installs a whole new crontab over ssh.                            *)
(*                                                                         *)
(*   tasks    the rows of scheduled_tasks; an id is a UUID, never reused   *)
(*   crontab  the tasks whose lines are installed on the VM                *)
(*   sync     the operation each caller is in, and the lines it has read   *)
(*   upToDate history: the last sync to end ran alone and was carried out  *)
(*                                                                         *)
(* Callers are the panels of one process; they start operations without    *)
(* regard to each other.  The write to the table, the reading of the tasks *)
(* and the start of the command follow each other with nothing in between, *)
(* the database being synchronous, and are one step.  Only addTask and     *)
(* listTasks have a panel today.                                           *)
(***************************************************************************)
EXTENDS Ssh2Gateway

CONSTANTS
  Tasks,       \* ids of the tasks ever created
  Unparsable   \* those whose cron expression crontab does not take

ASSUME TaskAssumption ==
  /\ Unparsable \subseteq Tasks
  /\ {"root", "zomboid"} \subseteq Users

VARIABLES tasks, crontab, sync, upToDate

schedulerVars == <<pool, client, exec, tasks, crontab, sync, upToDate>>

TaskStates == {"none", "enabled", "disabled", "removed"}

\* alone: no other operation of the scheduler has been under way since it began.
Sync ==
  [ at : {"idle", "install", "watch"}, lines : SUBSET Tasks, alone : BOOLEAN ]

NoSync == [at |-> "idle", lines |-> {}, alone |-> TRUE]

Syncing == {f \in Callers : sync[f].at = "install"}

\* The tasks a table has the server execute.
Enabled(table) == {t \in Tasks : table[t] = "enabled"}

-----------------------------------------------------------------------------
(* addTask, removeTask, toggleTask: a write to the table and syncCrontab.  *)

\* Faulty variant: the lines of disabled tasks are installed too.
SyncCrontabOfAll(f) ==
  /\ sync[f].at = "idle"
  /\ sync' = [g \in Callers |->
       IF g = f THEN [at |-> "install", alone |-> Syncing = {},
                      lines |-> Enabled(tasks') \union
                                {t \in Tasks : tasks'[t] = "disabled"}]
                ELSE [sync[g] EXCEPT !.alone = @ /\ g \notin Syncing]]
  /\ upToDate' = FALSE
  /\ Begin(f, "root")
  /\ UNCHANGED crontab

SyncCrontab(f) ==
  /\ sync[f].at = "idle"
  /\ sync' = [g \in Callers |->
       IF g = f THEN [at |-> "install", alone |-> Syncing = {},
                      lines |-> Enabled(tasks')]
                ELSE [sync[g] EXCEPT !.alone = @ /\ g \notin Syncing]]
  /\ upToDate' = FALSE
  /\ Begin(f, "root")
  /\ UNCHANGED crontab

CreateTask(t) == tasks' = [tasks EXCEPT ![t] = "enabled"]

\* A caller may still show a task that another has removed: DELETE and UPDATE
\* then find no row.
DeleteTask(t) == tasks' = [tasks EXCEPT ![t] = "removed"]

UpdateTask(t, enabled) ==
  tasks' = [tasks EXCEPT ![t] =
    IF @ = "removed" THEN @ ELSE IF enabled THEN "enabled" ELSE "disabled"]

\* validateCron is not called: the expression may be any.
AddTask(f, t) ==
  /\ tasks[t] = "none"
  /\ CreateTask(t)
  /\ SyncCrontab(f)

RemoveTask(f, t) ==
  /\ tasks[t] # "none"
  /\ DeleteTask(t)
  /\ SyncCrontab(f)

ToggleTask(f, t, enabled) ==
  /\ tasks[t] # "none"
  /\ UpdateTask(t, enabled)
  /\ SyncCrontab(f)

\* Other services use the same pool: ServerStats logs in as zomboid.
Watch(f) ==
  /\ sync[f].at = "idle"
  /\ sync' = [sync EXCEPT ![f] = [NoSync EXCEPT !.at = "watch"]]
  /\ Begin(f, "zomboid")
  /\ UNCHANGED <<tasks, crontab, upToDate>>

\* crontab replaces the whole table or, at a line it cannot parse, refuses it.
Parses(lines) == lines \intersect Unparsable = {}

\* The operation is over; an error is only logged by the panel.
Over(f, carriedOut) ==
  /\ sync' = [sync EXCEPT ![f] = NoSync]
  /\ upToDate' = IF sync[f].at = "install" THEN sync[f].alone /\ carriedOut
                 ELSE upToDate
  /\ UNCHANGED tasks

\* What the command that fails has done on the VM: nothing, or all of it.
MayInstall(f) ==
  \/ UNCHANGED crontab
  \/ /\ sync[f].at = "install" /\ exec[f].at = "command"
     /\ client[exec[f].client].state = "ready"
     /\ Parses(sync[f].lines)
     /\ crontab' = sync[f].lines

CommandSucceeds(f) ==
  /\ Succeeds(f)
  /\ \/ /\ sync[f].at = "install"
        /\ Parses(sync[f].lines)
        /\ crontab' = sync[f].lines
        /\ Over(f, TRUE)
     \/ /\ sync[f].at = "watch" \/ exec[f].at = "cut"
        /\ UNCHANGED crontab
        /\ Over(f, FALSE)

CommandThrows(f) ==
  /\ Refused(f) \/ GivesUp(f)
  /\ Over(f, FALSE)
  /\ MayInstall(f)

-----------------------------------------------------------------------------
SchedulerInit ==
  /\ SshInit
  /\ tasks = [t \in Tasks |-> "none"]
  /\ crontab = {}
  /\ sync = [f \in Callers |-> NoSync]
  /\ upToDate = TRUE

GatewaySteps(f) ==
  /\ \/ (Ready(f) \/ Retry(f)) /\ UNCHANGED crontab
     \/ Fails(f) /\ MayInstall(f)
  /\ UNCHANGED <<tasks, sync, upToDate>>

CallerSteps(f) ==
  GatewaySteps(f) \/ CommandSucceeds(f) \/ CommandThrows(f)

LineDrops(c) == Lost(c) /\ UNCHANGED <<tasks, crontab, sync, upToDate>>

SchedulerNext ==
  \/ \E f \in Callers, t \in Tasks :
       \/ AddTask(f, t)
       \/ RemoveTask(f, t)
       \/ \E enabled \in BOOLEAN : ToggleTask(f, t, enabled)
  \/ \E f \in Callers : Watch(f) \/ CallerSteps(f)
  \/ \E c \in Clients : LineDrops(c)

SchedulerSpec == SchedulerInit /\ [][SchedulerNext]_schedulerVars

\* Every outside call settles and the event loop resumes its caller.
FairSchedulerSpec ==
  SchedulerSpec /\ \A f \in Callers : WF_schedulerVars(CallerSteps(f))

-----------------------------------------------------------------------------
(* Properties.                                                             *)

\* Every variable has its type.
SchedulerTypeOK ==
  /\ SshTypeOK
  /\ tasks \in [Tasks -> TaskStates]
  /\ crontab \subseteq Tasks
  /\ sync \in [Callers -> Sync]
  /\ upToDate \in BOOLEAN

\* A sync that ran alone and was carried out makes up for everything that went
\* wrong before: until the next edit the crontab is the table.
CrontabFollowsTable == upToDate => crontab = Enabled(tasks)

\* Every operation of the scheduler ends, with an error or without.
SyncEnds == \A f \in Callers : sync[f].at = "install" ~> sync[f].at = "idle"
=============================================================================
