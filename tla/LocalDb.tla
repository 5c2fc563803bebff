------------------------------ MODULE LocalDb ------------------------------
(***************************************************************************)
(* LocalDb: the SQLite file that every process of the program opens        *)
(* (sqlite-local-db.ts, migrations.ts), one action per statement.  Reads   *)
(* see what has been committed.  A write takes the one write lock: it      *)
(* throws when another connection writes at that moment, since no busy     *)
(* timeout is set.                                                         *)
(*                                                                         *)
(*   versions  the rows of _migrations                                     *)
(*   applied   history: how often the step of each migration was committed *)
(*   writer    the process inside a write transaction                      *)
(*   setting   the row "locale" of settings, the one setting that is       *)
(*             ever written after its seeding                              *)
(*   status    the status column of the servers table                      *)
(*   chosen    history: the locale the last user to choose one has stored  *)
(*   revived   history: servers whose "archived" was overwritten           *)
(***************************************************************************)
EXTENDS Integers

CONSTANTS
  Processes,    \* the processes that have the file open
  Nobody,       \* no process
  Servers,      \* ids of the servers ever created
  LastVersion   \* MIGRATIONS are numbered 1..LastVersion

ASSUME DbAssumption == LastVersion \in Nat /\ Nobody \notin Processes

VARIABLES versions, applied, writer, setting, status, chosen, revived

dbVars == <<versions, applied, writer, setting, status, chosen, revived>>

Record == INSTANCE ServerRecord
            WITH Names <- {}, MachineTypes <- {}, Catalog <- {}

Versions == 1..LastVersion
Locales  == {"en", "es"}

\* The connection of p is not kept out by a transaction of another.
Unlocked(p) == writer \in {Nobody, p}

-----------------------------------------------------------------------------
(* runMigrations.                                                          *)

\* The first write of the transaction takes the lock.
BeginMigration(p) ==
  /\ writer = Nobody
  /\ writer' = p
  /\ UNCHANGED <<versions, applied, setting, status, chosen, revived>>

\* Faulty variant: the statements of the step are committed one by one, as
\* without the transaction.
BeginUnprotected(p, v) ==
  /\ writer = Nobody
  /\ writer' = p
  /\ applied' = [applied EXCEPT ![v] = @ + 1]
  /\ UNCHANGED <<versions, setting, status, chosen, revived>>

\* version is a PRIMARY KEY: the INSERT throws for one that is there.
IsNewVersion(v) == v \notin versions

CommitMigration(v) ==
  /\ IsNewVersion(v)
  /\ applied' = [applied EXCEPT ![v] = @ + 1]
  /\ versions' = versions \union {v}
  /\ writer' = Nobody
  /\ UNCHANGED <<setting, status, chosen, revived>>

\* After an error, or the end of the process that held the lock.
Rollback(p) ==
  /\ writer' = IF writer = p THEN Nobody ELSE writer
  /\ UNCHANGED <<versions, applied, setting, status, chosen, revived>>

-----------------------------------------------------------------------------
(* settings.                                                               *)

\* Faulty variant: INSERT OR REPLACE.
SeedReplacing ==
  /\ setting' = "en"
  /\ UNCHANGED <<versions, applied, writer, status, chosen, revived>>

\* INSERT OR IGNORE.
SeedDefaults ==
  /\ setting' = IF setting = "none" THEN "en" ELSE setting
  /\ UNCHANGED <<versions, applied, writer, status, chosen, revived>>

SetSetting(l) ==
  /\ setting' = l
  /\ chosen' = l
  /\ UNCHANGED <<versions, applied, writer, status, revived>>

-----------------------------------------------------------------------------
(* servers.                                                                *)

CreateServer(s) ==
  /\ status[s] = "absent"
  /\ status' = [status EXCEPT ![s] = "provisioning"]
  /\ UNCHANGED <<versions, applied, writer, setting, chosen, revived>>

\* The transition was checked when the row was read, an await earlier.
UpdateServer(s, to) ==
  /\ status' = [status EXCEPT ![s] = to]
  /\ revived' = IF status[s] = "archived" THEN revived \union {s} ELSE revived
  /\ UNCHANGED <<versions, applied, writer, setting, chosen>>

ListActive   == {s \in Servers : status[s] \notin {"absent", "archived"}}
ListArchived == {s \in Servers : status[s] = "archived"}

-----------------------------------------------------------------------------
DbInit ==
  /\ versions = {}
  /\ applied = [v \in Versions |-> 0]
  /\ writer = Nobody
  /\ setting = "none"
  /\ status = [s \in Servers |-> "absent"]
  /\ chosen = "none"
  /\ revived = {}

DbTypeOK ==
  /\ versions \subseteq Versions
  /\ applied \in [Versions -> Nat]
  /\ writer \in Processes \union {Nobody}
  /\ setting \in Locales \union {"none"}
  /\ status \in [Servers -> Record!ServerStatus \union {"absent"}]
  /\ chosen \in Locales \union {"none"}
  /\ revived \subseteq Servers
=============================================================================
