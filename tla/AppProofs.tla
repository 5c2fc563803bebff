------------------------------ MODULE AppProofs ------------------------------
(***************************************************************************)
(* Theorems about AppContext, for any number of processes, servers and     *)
(* migrations.                                                             *)
(***************************************************************************)
EXTENDS AppContext, TLAPS

-----------------------------------------------------------------------------
(* Types.                                                                  *)

LEMMA TypeStep == AppTypeOK /\ [AppNext]_appVars => AppTypeOK'
<1> SUFFICES ASSUME AppTypeOK, [AppNext]_appVars
             PROVE  AppTypeOK'
  OBVIOUS
<1> USE DEF AppTypeOK, DbTypeOK, Starting
<1> USE DbAssumption
<1>1. ASSUME NEW p \in Processes, Start(p)
      PROVE  AppTypeOK'
  BY <1>1 DEF Start, Goto, Others, dbVars
<1>2. ASSUME NEW p \in Processes, OpenDatabase(p)
      PROVE  AppTypeOK'
  BY <1>2 DEF OpenDatabase, Goto, dbVars
<1>3. ASSUME NEW p \in Processes, ReadVersions(p)
      PROVE  AppTypeOK'
  BY <1>3 DEF ReadVersions, Goto, dbVars
<1>4. ASSUME NEW p \in Processes, RunMigration(p)
      PROVE  AppTypeOK'
  BY <1>4 DEF RunMigration, Goto, BeginMigration, dbVars
<1>5. ASSUME NEW p \in Processes, MigrationDone(p)
      PROVE  AppTypeOK'
  BY <1>5 DEF MigrationDone, Goto, NextMigration, CommitMigration, IsNewVersion, dbVars
<1>6. ASSUME NEW p \in Processes, MigrationFails(p)
      PROVE  AppTypeOK'
  BY <1>6 DEF MigrationFails, Goto, Rollback, NextMigration, IsNewVersion, dbVars
<1>7. ASSUME NEW p \in Processes, Migrated(p)
      PROVE  AppTypeOK'
  BY <1>7 DEF Migrated, Goto, dbVars
<1>8. ASSUME NEW p \in Processes, Seed(p)
      PROVE  AppTypeOK'
  BY <1>8 DEF Seed, Goto, SeedDefaults, Locales, dbVars
<1>9. ASSUME NEW p \in Processes, Refused(p)
      PROVE  AppTypeOK'
  BY <1>9 DEF Refused, Goto, Others, dbVars
<1>10. ASSUME NEW p \in Processes, SeedRefused(p)
      PROVE  AppTypeOK'
  BY <1>10 DEF SeedRefused, Goto, SeedDefaults, Others, Locales, dbVars
<1>11. ASSUME NEW p \in Processes, HydrateLocale(p)
      PROVE  AppTypeOK'
  BY <1>11 DEF HydrateLocale, Goto, Locales, dbVars
<1>12. ASSUME NEW p \in Processes, HydrateLists(p)
      PROVE  AppTypeOK'
  BY <1>12 DEF HydrateLists, Goto, ListActive, ListArchived, dbVars
<1>13. ASSUME NEW p \in Processes, NEW l \in Locales, ChooseLocale(p, l)
      PROVE  AppTypeOK'
  BY <1>13 DEF ChooseLocale, Goto, SetSetting, dbVars
<1>14. ASSUME NEW p \in Processes, Deploy(p)
      PROVE  AppTypeOK'
  BY <1>14 DEF Deploy, Goto, CreateServer, Record!ServerStatus, dbVars
<1>15. ASSUME NEW p \in Processes, CheckUpdate(p)
      PROVE  AppTypeOK'
  BY <1>15 DEF CheckUpdate, Goto, dbVars
<1>16. ASSUME NEW p \in Processes, WriteUpdate(p)
      PROVE  AppTypeOK'
  BY <1>16 DEF WriteUpdate, Goto, UpdateServer, dbVars
<1>17. ASSUME NEW p \in Processes, Exit(p)
      PROVE  AppTypeOK'
  BY <1>17 DEF Exit, Goto, Rollback, Locales, dbVars
<1>18. CASE UNCHANGED appVars
  BY <1>18 DEF appVars, dbVars
<1> QED
  BY <1>1, <1>2, <1>3, <1>4, <1>5, <1>6, <1>7, <1>8, <1>9, <1>10, <1>11, <1>12, <1>13, <1>14, <1>15, <1>16, <1>17, <1>18 DEF AppNext, StartSteps

\* Every variable keeps its type, whichever processes start and are killed.
THEOREM AppTypeCorrect == AppSpec => []AppTypeOK
<1>1. AppInit => AppTypeOK
  BY DEF AppInit, DbInit, AppTypeOK, DbTypeOK, Locales, Starting, NoUpdate
<1>2. AppTypeOK /\ [AppNext]_appVars => AppTypeOK'
  BY TypeStep
<1> QED
  BY <1>1, <1>2, PTL DEF AppSpec

-----------------------------------------------------------------------------
(* Migrations.                                                             *)

\* What a process has not yet to run has been run, by itself or by another.
MigrationInv ==
  /\ MigrationsRecorded
  /\ \A p \in Processes :
       at[p] \in {"migrate", "inTransaction"} => Versions \subseteq versions \union todo[p]
  /\ ReadyIsMigrated

LEMMA MigrationStep == AppTypeOK /\ MigrationInv /\ [AppNext]_appVars => MigrationInv'
<1> SUFFICES ASSUME AppTypeOK /\ MigrationInv, [AppNext]_appVars
             PROVE  MigrationInv'
  OBVIOUS
<1> USE DEF MigrationInv, MigrationsRecorded, ReadyIsMigrated, AppTypeOK, DbTypeOK
<1>1. ASSUME NEW p \in Processes, Start(p)
      PROVE  MigrationInv'
  BY <1>1 DEF Start, Goto, Others, dbVars
<1>2. ASSUME NEW p \in Processes, OpenDatabase(p)
      PROVE  MigrationInv'
  BY <1>2 DEF OpenDatabase, Goto, dbVars
<1>3. ASSUME NEW p \in Processes, ReadVersions(p)
      PROVE  MigrationInv'
  BY <1>3 DEF ReadVersions, Goto, dbVars
<1>4. ASSUME NEW p \in Processes, RunMigration(p)
      PROVE  MigrationInv'
  BY <1>4 DEF RunMigration, Goto, BeginMigration, dbVars
<1>5. ASSUME NEW p \in Processes, MigrationDone(p)
      PROVE  MigrationInv'
  BY <1>5 DEF MigrationDone, Goto, NextMigration, CommitMigration, IsNewVersion, dbVars
<1>6. ASSUME NEW p \in Processes, MigrationFails(p)
      PROVE  MigrationInv'
  BY <1>6 DEF MigrationFails, Goto, Rollback, NextMigration, IsNewVersion, dbVars
<1>7. ASSUME NEW p \in Processes, Migrated(p)
      PROVE  MigrationInv'
  BY <1>7 DEF Migrated, Goto, dbVars
<1>8. ASSUME NEW p \in Processes, Seed(p)
      PROVE  MigrationInv'
  BY <1>8 DEF Seed, Goto, SeedDefaults, dbVars
<1>9. ASSUME NEW p \in Processes, Refused(p)
      PROVE  MigrationInv'
  BY <1>9 DEF Refused, Goto, Others, dbVars
<1>10. ASSUME NEW p \in Processes, SeedRefused(p)
      PROVE  MigrationInv'
  BY <1>10 DEF SeedRefused, Goto, SeedDefaults, Others, dbVars
<1>11. ASSUME NEW p \in Processes, HydrateLocale(p)
      PROVE  MigrationInv'
  BY <1>11 DEF HydrateLocale, Goto, dbVars
<1>12. ASSUME NEW p \in Processes, HydrateLists(p)
      PROVE  MigrationInv'
  BY <1>12 DEF HydrateLists, Goto, ListActive, ListArchived, dbVars
<1>13. ASSUME NEW p \in Processes, NEW l \in Locales, ChooseLocale(p, l)
      PROVE  MigrationInv'
  BY <1>13 DEF ChooseLocale, Goto, SetSetting, dbVars
<1>14. ASSUME NEW p \in Processes, Deploy(p)
      PROVE  MigrationInv'
  BY <1>14 DEF Deploy, Goto, CreateServer, dbVars
<1>15. ASSUME NEW p \in Processes, CheckUpdate(p)
      PROVE  MigrationInv'
  BY <1>15 DEF CheckUpdate, Goto, dbVars
<1>16. ASSUME NEW p \in Processes, WriteUpdate(p)
      PROVE  MigrationInv'
  BY <1>16 DEF WriteUpdate, Goto, UpdateServer, dbVars
<1>17. ASSUME NEW p \in Processes, Exit(p)
      PROVE  MigrationInv'
  BY <1>17 DEF Exit, Goto, Rollback, dbVars
<1>18. CASE UNCHANGED appVars
  BY <1>18 DEF appVars, dbVars
<1> QED
  BY <1>1, <1>2, <1>3, <1>4, <1>5, <1>6, <1>7, <1>8, <1>9, <1>10, <1>11, <1>12, <1>13, <1>14, <1>15, <1>16, <1>17, <1>18 DEF AppNext, StartSteps

\* A migration has been run if it is recorded, and then once, for any number of
\* processes that start at once and wherever they are killed.
THEOREM MigrationsRecordedAlways == AppSpec => []MigrationsRecorded
<1>1. AppInit => MigrationInv
  BY DEF AppInit, DbInit, MigrationInv, MigrationsRecorded, ReadyIsMigrated, AppTypeOK, DbTypeOK
<1>2. AppTypeOK /\ MigrationInv /\ [AppNext]_appVars => MigrationInv'
  BY MigrationStep
<1>3. MigrationInv => MigrationsRecorded
  BY DEF MigrationInv
<1>4. AppSpec => []AppTypeOK
  BY AppTypeCorrect
<1> QED
  BY <1>1, <1>2, <1>3, <1>4, PTL DEF AppSpec

\* No process gets past the migrations before all of them have been run.
THEOREM ReadyIsMigratedAlways == AppSpec => []ReadyIsMigrated
<1>1. AppInit => MigrationInv
  BY DEF AppInit, DbInit, MigrationInv, MigrationsRecorded, ReadyIsMigrated, AppTypeOK, DbTypeOK
<1>2. AppTypeOK /\ MigrationInv /\ [AppNext]_appVars => MigrationInv'
  BY MigrationStep
<1>3. MigrationInv => ReadyIsMigrated
  BY DEF MigrationInv
<1>4. AppSpec => []AppTypeOK
  BY AppTypeCorrect
<1> QED
  BY <1>1, <1>2, <1>3, <1>4, PTL DEF AppSpec

-----------------------------------------------------------------------------
(* Starts that fail.                                                       *)

\* A process that has met no other is the only one, and what it has to run
\* nobody has run.
CompanyInv ==
  /\ \A p, q \in Processes :
       at[p] # "off" /\ ~met[p] /\ q # p => at[q] = "off"
  /\ \A p \in Processes :
       at[p] \in {"migrate", "inTransaction"} /\ ~met[p] =>
         todo[p] \intersect versions = {}
  /\ StartFailsOnlyInCompany

LEMMA CompanyStep == AppTypeOK /\ CompanyInv /\ [AppNext]_appVars => CompanyInv'
<1> SUFFICES ASSUME AppTypeOK /\ CompanyInv, [AppNext]_appVars
             PROVE  CompanyInv'
  OBVIOUS
<1> USE DEF CompanyInv, StartFailsOnlyInCompany, AppTypeOK, DbTypeOK
<1>1. ASSUME NEW p \in Processes, Start(p)
      PROVE  CompanyInv'
  <2>1. /\ at' = [at EXCEPT ![p] = "open"] /\ at[p] = "off"
        /\ UNCHANGED <<versions, todo>>
        /\ \A q \in Processes : met'[q] =
             IF q = p THEN Others(p) # {} ELSE met[q] \/ at[q] # "off"
    BY <1>1 DEF Start, Goto, dbVars
  <2>2. ~met'[p] => \A q \in Processes : q # p => at'[q] = "off"
    BY <2>1 DEF Others
  <2>3. \A q \in Processes : q # p /\ ~met'[q] => at'[q] = "off"
    BY <2>1
  <2> QED
    BY <2>1, <2>2, <2>3
<1>2. ASSUME NEW p \in Processes, OpenDatabase(p)
      PROVE  CompanyInv'
  BY <1>2 DEF OpenDatabase, Goto, dbVars
<1>3. ASSUME NEW p \in Processes, ReadVersions(p)
      PROVE  CompanyInv'
  BY <1>3 DEF ReadVersions, Goto, dbVars
<1>4. ASSUME NEW p \in Processes, RunMigration(p)
      PROVE  CompanyInv'
  BY <1>4 DEF RunMigration, Goto, BeginMigration, dbVars
<1>5. ASSUME NEW p \in Processes, MigrationDone(p)
      PROVE  CompanyInv'
  BY <1>5 DEF MigrationDone, Goto, NextMigration, CommitMigration, IsNewVersion, dbVars
<1>6. ASSUME NEW p \in Processes, MigrationFails(p)
      PROVE  CompanyInv'
  BY <1>6 DEF MigrationFails, Goto, Rollback, NextMigration, IsNewVersion, dbVars
<1>7. ASSUME NEW p \in Processes, Migrated(p)
      PROVE  CompanyInv'
  BY <1>7 DEF Migrated, Goto, dbVars
<1>8. ASSUME NEW p \in Processes, Seed(p)
      PROVE  CompanyInv'
  BY <1>8 DEF Seed, Goto, SeedDefaults, dbVars
<1>9. ASSUME NEW p \in Processes, Refused(p)
      PROVE  CompanyInv'
  BY <1>9 DEF Refused, Goto, Others, dbVars
<1>10. ASSUME NEW p \in Processes, SeedRefused(p)
      PROVE  CompanyInv'
  BY <1>10 DEF SeedRefused, Goto, SeedDefaults, Others, dbVars
<1>11. ASSUME NEW p \in Processes, HydrateLocale(p)
      PROVE  CompanyInv'
  BY <1>11 DEF HydrateLocale, Goto, dbVars
<1>12. ASSUME NEW p \in Processes, HydrateLists(p)
      PROVE  CompanyInv'
  BY <1>12 DEF HydrateLists, Goto, ListActive, ListArchived, dbVars
<1>13. ASSUME NEW p \in Processes, NEW l \in Locales, ChooseLocale(p, l)
      PROVE  CompanyInv'
  BY <1>13 DEF ChooseLocale, Goto, SetSetting, dbVars
<1>14. ASSUME NEW p \in Processes, Deploy(p)
      PROVE  CompanyInv'
  BY <1>14 DEF Deploy, Goto, CreateServer, dbVars
<1>15. ASSUME NEW p \in Processes, CheckUpdate(p)
      PROVE  CompanyInv'
  BY <1>15 DEF CheckUpdate, Goto, dbVars
<1>16. ASSUME NEW p \in Processes, WriteUpdate(p)
      PROVE  CompanyInv'
  BY <1>16 DEF WriteUpdate, Goto, UpdateServer, dbVars
<1>17. ASSUME NEW p \in Processes, Exit(p)
      PROVE  CompanyInv'
  BY <1>17 DEF Exit, Goto, Rollback, dbVars
<1>18. CASE UNCHANGED appVars
  BY <1>18 DEF appVars, dbVars
<1> QED
  BY <1>1, <1>2, <1>3, <1>4, <1>5, <1>6, <1>7, <1>8, <1>9, <1>10, <1>11, <1>12, <1>13, <1>14, <1>15, <1>16, <1>17, <1>18 DEF AppNext, StartSteps

\* A process that runs alone gets its dashboard, whatever earlier ones, killed
\* at any point, have left.
THEOREM StartFailsOnlyInCompanyAlways == AppSpec => []StartFailsOnlyInCompany
<1>1. AppInit => CompanyInv
  BY DEF AppInit, DbInit, CompanyInv, StartFailsOnlyInCompany, AppTypeOK, DbTypeOK
<1>2. AppTypeOK /\ CompanyInv /\ [AppNext]_appVars => CompanyInv'
  BY CompanyStep
<1>3. CompanyInv => StartFailsOnlyInCompany
  BY DEF CompanyInv
<1>4. AppSpec => []AppTypeOK
  BY AppTypeCorrect
<1> QED
  BY <1>1, <1>2, <1>3, <1>4, PTL DEF AppSpec

-----------------------------------------------------------------------------
(* The language.                                                           *)

\* Past its seeding no process finds the setting missing.
LocaleInv ==
  /\ ChoiceIsKept
  /\ \A p \in Processes :
       at[p] \in {"hydrate", "listActive", "listArchived", "ready"} =>
         setting \in Locales
  /\ ShownIsStored

LEMMA LocaleStep == AppTypeOK /\ LocaleInv /\ [AppNext]_appVars => LocaleInv'
<1> SUFFICES ASSUME AppTypeOK /\ LocaleInv, [AppNext]_appVars
             PROVE  LocaleInv'
  OBVIOUS
<1> USE DEF LocaleInv, ChoiceIsKept, ShownIsStored, AppTypeOK, DbTypeOK, Locales
<1>1. ASSUME NEW p \in Processes, Start(p)
      PROVE  LocaleInv'
  BY <1>1 DEF Start, Goto, Others, dbVars
<1>2. ASSUME NEW p \in Processes, OpenDatabase(p)
      PROVE  LocaleInv'
  BY <1>2 DEF OpenDatabase, Goto, dbVars
<1>3. ASSUME NEW p \in Processes, ReadVersions(p)
      PROVE  LocaleInv'
  BY <1>3 DEF ReadVersions, Goto, dbVars
<1>4. ASSUME NEW p \in Processes, RunMigration(p)
      PROVE  LocaleInv'
  BY <1>4 DEF RunMigration, Goto, BeginMigration, dbVars
<1>5. ASSUME NEW p \in Processes, MigrationDone(p)
      PROVE  LocaleInv'
  BY <1>5 DEF MigrationDone, Goto, NextMigration, CommitMigration, IsNewVersion, dbVars
<1>6. ASSUME NEW p \in Processes, MigrationFails(p)
      PROVE  LocaleInv'
  BY <1>6 DEF MigrationFails, Goto, Rollback, NextMigration, IsNewVersion, dbVars
<1>7. ASSUME NEW p \in Processes, Migrated(p)
      PROVE  LocaleInv'
  BY <1>7 DEF Migrated, Goto, dbVars
<1>8. ASSUME NEW p \in Processes, Seed(p)
      PROVE  LocaleInv'
  BY <1>8 DEF Seed, Goto, SeedDefaults, dbVars
<1>9. ASSUME NEW p \in Processes, Refused(p)
      PROVE  LocaleInv'
  BY <1>9 DEF Refused, Goto, Others, dbVars
<1>10. ASSUME NEW p \in Processes, SeedRefused(p)
      PROVE  LocaleInv'
  BY <1>10 DEF SeedRefused, Goto, SeedDefaults, Others, dbVars
<1>11. ASSUME NEW p \in Processes, HydrateLocale(p)
      PROVE  LocaleInv'
  BY <1>11 DEF HydrateLocale, Goto, dbVars
<1>12. ASSUME NEW p \in Processes, HydrateLists(p)
      PROVE  LocaleInv'
  BY <1>12 DEF HydrateLists, Goto, ListActive, ListArchived, dbVars
<1>13. ASSUME NEW p \in Processes, NEW l \in Locales, ChooseLocale(p, l)
      PROVE  LocaleInv'
  BY <1>13 DEF ChooseLocale, Goto, SetSetting, dbVars
<1>14. ASSUME NEW p \in Processes, Deploy(p)
      PROVE  LocaleInv'
  BY <1>14 DEF Deploy, Goto, CreateServer, dbVars
<1>15. ASSUME NEW p \in Processes, CheckUpdate(p)
      PROVE  LocaleInv'
  BY <1>15 DEF CheckUpdate, Goto, dbVars
<1>16. ASSUME NEW p \in Processes, WriteUpdate(p)
      PROVE  LocaleInv'
  BY <1>16 DEF WriteUpdate, Goto, UpdateServer, dbVars
<1>17. ASSUME NEW p \in Processes, Exit(p)
      PROVE  LocaleInv'
  BY <1>17 DEF Exit, Goto, Rollback, dbVars
<1>18. CASE UNCHANGED appVars
  BY <1>18 DEF appVars, dbVars
<1> QED
  BY <1>1, <1>2, <1>3, <1>4, <1>5, <1>6, <1>7, <1>8, <1>9, <1>10, <1>11, <1>12, <1>13, <1>14, <1>15, <1>16, <1>17, <1>18 DEF AppNext, StartSteps

\* No start, however many there are, puts a default in the place of a choice.
THEOREM ChoiceIsKeptAlways == AppSpec => []ChoiceIsKept
<1>1. AppInit => LocaleInv
  BY DEF AppInit, DbInit, LocaleInv, ChoiceIsKept, ShownIsStored, AppTypeOK, DbTypeOK, Locales
<1>2. AppTypeOK /\ LocaleInv /\ [AppNext]_appVars => LocaleInv'
  BY LocaleStep
<1>3. LocaleInv => ChoiceIsKept
  BY DEF LocaleInv
<1>4. AppSpec => []AppTypeOK
  BY AppTypeCorrect
<1> QED
  BY <1>1, <1>2, <1>3, <1>4, PTL DEF AppSpec

\* A process shows the language that is stored, unless another one stored it
\* or its own choice was refused.
THEOREM ShownIsStoredAlways == AppSpec => []ShownIsStored
<1>1. AppInit => LocaleInv
  BY DEF AppInit, DbInit, LocaleInv, ChoiceIsKept, ShownIsStored, AppTypeOK, DbTypeOK, Locales
<1>2. AppTypeOK /\ LocaleInv /\ [AppNext]_appVars => LocaleInv'
  BY LocaleStep
<1>3. LocaleInv => ShownIsStored
  BY DEF LocaleInv
<1>4. AppSpec => []AppTypeOK
  BY AppTypeCorrect
<1> QED
  BY <1>1, <1>2, <1>3, <1>4, PTL DEF AppSpec

-----------------------------------------------------------------------------
(* The two lists.                                                          *)

\* Between the two queries a server can leave the first list only for the
\* second.
ListsInv ==
  /\ \A p \in Processes : at[p] = "listArchived" =>
       \A s \in known[p] :
         s \in active[p] \/ s \in revived \/ status[s] = "archived"
  /\ NoServerIsMissed

LEMMA ListsStep == AppTypeOK /\ ListsInv /\ [AppNext]_appVars => ListsInv'
<1> SUFFICES ASSUME AppTypeOK /\ ListsInv, [AppNext]_appVars
             PROVE  ListsInv'
  OBVIOUS
<1> USE DEF ListsInv, NoServerIsMissed, AppTypeOK, DbTypeOK
<1>1. ASSUME NEW p \in Processes, Start(p)
      PROVE  ListsInv'
  BY <1>1 DEF Start, Goto, Others, dbVars
<1>2. ASSUME NEW p \in Processes, OpenDatabase(p)
      PROVE  ListsInv'
  BY <1>2 DEF OpenDatabase, Goto, dbVars
<1>3. ASSUME NEW p \in Processes, ReadVersions(p)
      PROVE  ListsInv'
  BY <1>3 DEF ReadVersions, Goto, dbVars
<1>4. ASSUME NEW p \in Processes, RunMigration(p)
      PROVE  ListsInv'
  BY <1>4 DEF RunMigration, Goto, BeginMigration, dbVars
<1>5. ASSUME NEW p \in Processes, MigrationDone(p)
      PROVE  ListsInv'
  BY <1>5 DEF MigrationDone, Goto, NextMigration, CommitMigration, IsNewVersion, dbVars
<1>6. ASSUME NEW p \in Processes, MigrationFails(p)
      PROVE  ListsInv'
  BY <1>6 DEF MigrationFails, Goto, Rollback, NextMigration, IsNewVersion, dbVars
<1>7. ASSUME NEW p \in Processes, Migrated(p)
      PROVE  ListsInv'
  BY <1>7 DEF Migrated, Goto, dbVars
<1>8. ASSUME NEW p \in Processes, Seed(p)
      PROVE  ListsInv'
  BY <1>8 DEF Seed, Goto, SeedDefaults, dbVars
<1>9. ASSUME NEW p \in Processes, Refused(p)
      PROVE  ListsInv'
  BY <1>9 DEF Refused, Goto, Others, dbVars
<1>10. ASSUME NEW p \in Processes, SeedRefused(p)
      PROVE  ListsInv'
  BY <1>10 DEF SeedRefused, Goto, SeedDefaults, Others, dbVars
<1>11. ASSUME NEW p \in Processes, HydrateLocale(p)
      PROVE  ListsInv'
  BY <1>11 DEF HydrateLocale, Goto, dbVars
<1>12. ASSUME NEW p \in Processes, HydrateLists(p)
      PROVE  ListsInv'
  BY <1>12 DEF HydrateLists, Goto, ListActive, ListArchived, dbVars
<1>13. ASSUME NEW p \in Processes, NEW l \in Locales, ChooseLocale(p, l)
      PROVE  ListsInv'
  BY <1>13 DEF ChooseLocale, Goto, SetSetting, dbVars
<1>14. ASSUME NEW p \in Processes, Deploy(p)
      PROVE  ListsInv'
  BY <1>14 DEF Deploy, Goto, CreateServer, dbVars
<1>15. ASSUME NEW p \in Processes, CheckUpdate(p)
      PROVE  ListsInv'
  BY <1>15 DEF CheckUpdate, Goto, dbVars
<1>16. ASSUME NEW p \in Processes, WriteUpdate(p)
      PROVE  ListsInv'
  BY <1>16 DEF WriteUpdate, Goto, UpdateServer, dbVars
<1>17. ASSUME NEW p \in Processes, Exit(p)
      PROVE  ListsInv'
  BY <1>17 DEF Exit, Goto, Rollback, dbVars
<1>18. CASE UNCHANGED appVars
  BY <1>18 DEF appVars, dbVars
<1> QED
  BY <1>1, <1>2, <1>3, <1>4, <1>5, <1>6, <1>7, <1>8, <1>9, <1>10, <1>11, <1>12, <1>13, <1>14, <1>15, <1>16, <1>17, <1>18 DEF AppNext, StartSteps

\* Whatever is archived between the two queries, a server that was there at
\* the first is in one of the lists.
THEOREM NoServerIsMissedAlways == AppSpec => []NoServerIsMissed
<1>1. AppInit => ListsInv
  BY DEF AppInit, DbInit, ListsInv, NoServerIsMissed, AppTypeOK, DbTypeOK
<1>2. AppTypeOK /\ ListsInv /\ [AppNext]_appVars => ListsInv'
  BY ListsStep
<1>3. ListsInv => NoServerIsMissed
  BY DEF ListsInv
<1>4. AppSpec => []AppTypeOK
  BY AppTypeCorrect
<1> QED
  BY <1>1, <1>2, <1>3, <1>4, PTL DEF AppSpec
=============================================================================
