----------------------------- MODULE AppContext -----------------------------
(***************************************************************************)
(* AppContext: how a process starts, what it takes from the database then  *)
(* and never again, and how it ends (index.tsx, AppContextProvider.tsx,    *)
(* composition-root.ts, DashboardShellScreen.tsx, GlobalSettingsPanel.tsx, *)
(* inventory-service.ts).  Within a process nothing runs between the steps *)
(* of a start; another process may, between any two of them, and either    *)
(* may be killed.                                                          *)
(*                                                                         *)
(*   at        how far the start of each process has come                  *)
(*   todo      the migrations its runMigrations has still to run           *)
(*   locale    its runtimeLocale                                           *)
(*   active, archived   the lists of its server store                      *)
(*   update    the status update that has passed its check                 *)
(*   met       history: another process has run since this one was started *)
(*   known     history: the servers there were when it read the first list *)
(*   disturbed history: since then another process has stored a locale, or *)
(*             a choice made here could not be stored                      *)
(***************************************************************************)
EXTENDS LocalDb

VARIABLES at, todo, locale, active, archived, update, met, known, disturbed

appVars == <<dbVars, at, todo, locale, active, archived, update,
             met, known, disturbed>>

Starting == {"open", "readVersions", "migrate", "inTransaction", "seed",
             "hydrate", "listActive", "listArchived"}

NoUpdate == [server |-> "none", to |-> "none"]

Goto(p, label) == at' = [at EXCEPT ![p] = label]

Others(p) == {q \in Processes \ {p} : at[q] # "off"}

-----------------------------------------------------------------------------
(* createAppContext: new SqliteLocalDb and its services.                   *)

Start(p) ==
  /\ at[p] = "off"
  /\ Goto(p, "open")
  /\ met' = [q \in Processes |->
       IF q = p THEN Others(p) # {} ELSE met[q] \/ at[q] # "off"]
  /\ UNCHANGED <<dbVars, todo, locale, active, archived, update, known,
                 disturbed>>

\* PRAGMA journal_mode and CREATE TABLE IF NOT EXISTS write only in a new file.
OpenDatabase(p) ==
  /\ at[p] = "open"
  /\ Unlocked(p) \/ versions # {}
  /\ Goto(p, "readVersions")
  /\ UNCHANGED <<dbVars, todo, locale, active, archived, update, met, known,
                 disturbed>>

\* Faulty variant: the versions already applied are not skipped.
ReadNoVersions(p) ==
  /\ at[p] = "readVersions"
  /\ todo' = [todo EXCEPT ![p] = Versions]
  /\ Goto(p, "migrate")
  /\ UNCHANGED <<dbVars, locale, active, archived, update, met, known,
                 disturbed>>

ReadVersions(p) ==
  /\ at[p] = "readVersions"
  /\ todo' = [todo EXCEPT ![p] = Versions \ versions]
  /\ Goto(p, "migrate")
  /\ UNCHANGED <<dbVars, locale, active, archived, update, met, known,
                 disturbed>>

NextMigration(p, v) == v \in todo[p] /\ \A w \in todo[p] : v <= w

\* Faulty variant: no transaction.
RunUnprotected(p) ==
  /\ at[p] = "migrate"
  /\ \E v \in Versions : NextMigration(p, v) /\ BeginUnprotected(p, v)
  /\ Goto(p, "inTransaction")
  /\ UNCHANGED <<todo, locale, active, archived, update, met, known, disturbed>>

RunMigration(p) ==
  /\ at[p] = "migrate"
  /\ todo[p] # {}
  /\ BeginMigration(p)
  /\ Goto(p, "inTransaction")
  /\ UNCHANGED <<todo, locale, active, archived, update, met, known, disturbed>>

MigrationDone(p) ==
  /\ at[p] = "inTransaction"
  /\ \E v \in Versions :
       /\ NextMigration(p, v)
       /\ CommitMigration(v)
       /\ todo' = [todo EXCEPT ![p] = @ \ {v}]
  /\ Goto(p, "migrate")
  /\ UNCHANGED <<locale, active, archived, update, met, known, disturbed>>

\* Faulty variant: the error is caught and the loop goes round again.
MigrationRetried(p) ==
  /\ at[p] = "inTransaction"
  /\ \E v \in Versions : NextMigration(p, v) /\ ~IsNewVersion(v)
  /\ Rollback(p)
  /\ Goto(p, "migrate")
  /\ UNCHANGED <<todo, locale, active, archived, update, met, known, disturbed>>

\* Another process has run the migration since the versions were read.
MigrationFails(p) ==
  /\ at[p] = "inTransaction"
  /\ \E v \in Versions : NextMigration(p, v) /\ ~IsNewVersion(v)
  /\ Rollback(p)
  /\ Goto(p, "failed")
  /\ UNCHANGED <<todo, locale, active, archived, update, met, known, disturbed>>

\* Faulty variant: a migration that cannot be begun is skipped.
SkipWhenBusy(p) ==
  /\ at[p] = "migrate"
  /\ Others(p) # {}
  /\ Goto(p, "seed")
  /\ UNCHANGED <<dbVars, todo, locale, active, archived, update, met, known,
                 disturbed>>

\* for (const migration of migrations) has come to its end.
Migrated(p) ==
  /\ at[p] = "migrate"
  /\ todo[p] = {}
  /\ Goto(p, "seed")
  /\ UNCHANGED <<dbVars, todo, locale, active, archived, update, met, known,
                 disturbed>>

Seed(p) ==
  /\ at[p] = "seed"
  /\ Unlocked(p)
  /\ SeedDefaults
  /\ Goto(p, "hydrate")
  /\ UNCHANGED <<todo, locale, active, archived, update, met, known, disturbed>>

\* A write while another process writes: createAppContext rejects, and the
\* screen says "Loading application context..." until the process is ended.
Refused(p) ==
  /\ \/ at[p] \in {"open", "seed"}
     \/ at[p] = "migrate" /\ todo[p] # {}
  /\ Others(p) # {}
  /\ Goto(p, "failed")
  /\ UNCHANGED <<dbVars, todo, locale, active, archived, update, met, known,
                 disturbed>>

\* The first of the two rows has been seeded, the second is refused.
SeedRefused(p) ==
  /\ at[p] = "seed"
  /\ Others(p) # {}
  /\ Unlocked(p)
  /\ SeedDefaults
  /\ Goto(p, "failed")
  /\ UNCHANGED <<todo, locale, active, archived, update, met, known, disturbed>>

-----------------------------------------------------------------------------
(* AppContextProvider and the mount of DashboardShellScreen.               *)

\* Faulty variant: the locale is not hydrated.
HydrateNothing(p) ==
  /\ at[p] = "hydrate"
  /\ disturbed' = [disturbed EXCEPT ![p] = FALSE]
  /\ Goto(p, "listActive")
  /\ UNCHANGED <<dbVars, todo, locale, active, archived, update, met, known>>

\* hydrateRuntimeLocale: whatever is not "es" is "en".
HydrateLocale(p) ==
  /\ at[p] = "hydrate"
  /\ locale' = [locale EXCEPT ![p] = IF setting = "es" THEN "es" ELSE "en"]
  /\ disturbed' = [disturbed EXCEPT ![p] = FALSE]
  /\ Goto(p, "listActive")
  /\ UNCHANGED <<dbVars, todo, active, archived, update, met, known>>

\* Faulty variant: the archived servers are read first.
HydrateArchivedFirst(p) ==
  /\ \/ /\ at[p] = "listActive"
        /\ archived' = [archived EXCEPT ![p] = ListArchived]
        /\ known' = [known EXCEPT ![p] = ListActive \union ListArchived]
        /\ Goto(p, "listArchived")
        /\ UNCHANGED active
     \/ /\ at[p] = "listArchived"
        /\ active' = [active EXCEPT ![p] = ListActive]
        /\ Goto(p, "ready")
        /\ UNCHANGED <<archived, known>>
  /\ UNCHANGED <<dbVars, todo, locale, update, met, disturbed>>

\* inventory.listActive, which filters all the servers, and then
\* inventory.listArchived, a query of its own.
HydrateLists(p) ==
  /\ \/ /\ at[p] = "listActive"
        /\ active' = [active EXCEPT ![p] = ListActive]
        /\ known' = [known EXCEPT ![p] = ListActive \union ListArchived]
        /\ Goto(p, "listArchived")
        /\ UNCHANGED archived
     \/ /\ at[p] = "listArchived"
        /\ archived' = [archived EXCEPT ![p] = ListArchived]
        /\ Goto(p, "ready")
        /\ UNCHANGED <<active, known>>
  /\ UNCHANGED <<dbVars, todo, locale, update, met, disturbed>>

-----------------------------------------------------------------------------
(* What a running process does to the database.                            *)

\* handleLanguageSelect: shown at once, stored if the database takes it.
ChooseLocale(p, l) ==
  /\ at[p] = "ready"
  /\ locale' = [locale EXCEPT ![p] = l]
  /\ \/ /\ Unlocked(p)
        /\ SetSetting(l)
        /\ disturbed' = [q \in Processes |->
             disturbed[q] \/ (q # p /\ at[q] # "off")]
     \/ /\ Others(p) # {}
        /\ disturbed' = [disturbed EXCEPT ![p] = TRUE]
        /\ UNCHANGED dbVars
  /\ UNCHANGED <<at, todo, active, archived, update, met, known>>

\* A deployment; no list is told of it.
Deploy(p) ==
  /\ at[p] = "ready"
  /\ Unlocked(p)
  /\ \E s \in Servers : CreateServer(s)
  /\ UNCHANGED <<at, todo, locale, active, archived, update, met, known,
                 disturbed>>

\* updateServer of some service: the check, and an await later the UPDATE.
CheckUpdate(p) ==
  /\ at[p] = "ready"
  /\ update[p] = NoUpdate
  /\ \E s \in Servers, to \in Record!ServerStatus :
       /\ Record!IsValidStatusTransition(status[s], to)
       /\ update' = [update EXCEPT ![p] = [server |-> s, to |-> to]]
  /\ UNCHANGED <<dbVars, at, todo, locale, active, archived, met, known,
                 disturbed>>

WriteUpdate(p) ==
  /\ update[p] # NoUpdate
  /\ update' = [update EXCEPT ![p] = NoUpdate]
  /\ \/ Unlocked(p) /\ UpdateServer(update[p].server, update[p].to)
     \/ Others(p) # {} /\ UNCHANGED dbVars
  /\ UNCHANGED <<at, todo, locale, active, archived, met, known, disturbed>>

\* Ctrl-C, SIGINT or a kill.  Once the database is closed the operations under
\* way can change it no more.
Exit(p) ==
  /\ at[p] # "off"
  /\ Rollback(p)
  /\ Goto(p, "off")
  /\ todo' = [todo EXCEPT ![p] = {}]
  /\ locale' = [locale EXCEPT ![p] = "en"]
  /\ active' = [active EXCEPT ![p] = {}]
  /\ archived' = [archived EXCEPT ![p] = {}]
  /\ update' = [update EXCEPT ![p] = NoUpdate]
  /\ known' = [known EXCEPT ![p] = {}]
  /\ met' = [met EXCEPT ![p] = FALSE]
  /\ disturbed' = [disturbed EXCEPT ![p] = FALSE]

-----------------------------------------------------------------------------
AppInit ==
  /\ DbInit
  /\ at = [p \in Processes |-> "off"]
  /\ todo = [p \in Processes |-> {}]
  /\ locale = [p \in Processes |-> "en"]
  /\ active = [p \in Processes |-> {}]
  /\ archived = [p \in Processes |-> {}]
  /\ update = [p \in Processes |-> NoUpdate]
  /\ met = [p \in Processes |-> FALSE]
  /\ known = [p \in Processes |-> {}]
  /\ disturbed = [p \in Processes |-> FALSE]

StartSteps(p) ==
  \/ OpenDatabase(p) \/ ReadVersions(p)
  \/ RunMigration(p) \/ MigrationDone(p) \/ MigrationFails(p) \/ Migrated(p)
  \/ Seed(p) \/ Refused(p) \/ SeedRefused(p)
  \/ HydrateLocale(p) \/ HydrateLists(p)

AppNext ==
  \E p \in Processes :
    \/ Start(p) \/ StartSteps(p)
    \/ \E l \in Locales : ChooseLocale(p, l)
    \/ Deploy(p) \/ CheckUpdate(p) \/ WriteUpdate(p)
    \/ Exit(p)

AppSpec == AppInit /\ [][AppNext]_appVars

\* A start has no await that depends on anybody else.
FairAppSpec == AppSpec /\ \A p \in Processes : WF_appVars(StartSteps(p))

-----------------------------------------------------------------------------
(* Properties.                                                             *)

\* Every variable has its type.
AppTypeOK ==
  /\ DbTypeOK
  /\ at \in [Processes -> Starting \union {"off", "ready", "failed"}]
  /\ todo \in [Processes -> SUBSET Versions]
  /\ locale \in [Processes -> Locales]
  /\ active \in [Processes -> SUBSET Servers]
  /\ archived \in [Processes -> SUBSET Servers]
  /\ update \in [Processes ->
       [server : Servers, to : Record!ServerStatus] \union {NoUpdate}]
  /\ met \in [Processes -> BOOLEAN]
  /\ known \in [Processes -> SUBSET Servers]
  /\ disturbed \in [Processes -> BOOLEAN]

\* However many processes start at once, and wherever they are killed, a
\* migration has been run if it is recorded, and then once.
MigrationsRecorded ==
  \A v \in Versions : applied[v] = IF v \in versions THEN 1 ELSE 0

\* No process works on a database that lacks a migration.
ReadyIsMigrated ==
  \A p \in Processes :
    at[p] \in {"seed", "hydrate", "listActive", "listArchived", "ready"} =>
      versions = Versions

\* The start of a process fails only if another one has run meanwhile: what an
\* earlier run left, even one that was killed, can be started from.
StartFailsOnlyInCompany ==
  \A p \in Processes : at[p] = "failed" => met[p]

\* The locale the user stored last is there until the next one is stored,
\* whatever starts and ends in between and seeds its defaults.
ChoiceIsKept == chosen # "none" => setting = chosen

\* The language shown is the one stored, unless another process has stored
\* one since, or the database has refused a choice.
ShownIsStored ==
  \A p \in Processes :
    at[p] \in {"listActive", "listArchived", "ready"} =>
      disturbed[p] \/ locale[p] = setting

\* A server that was in the table when a process began to read it is in one
\* of the two lists at least, whatever other processes do between the two
\* queries, unless its row came back from "archived".
NoServerIsMissed ==
  \A p \in Processes :
    at[p] = "ready" => known[p] \subseteq active[p] \union archived[p] \union revived

\* A start ends: in the dashboard, or with the error that leaves the screen
\* loading.
StartEnds ==
  \A p \in Processes :
    at[p] \in Starting ~> at[p] \in {"off", "ready", "failed"}
=============================================================================
