---------------------------- MODULE MCDashboardShell ----------------------------
(* The instances of DashboardShell that TLC checks.                         *)
EXTENDS DashboardShell, TLC

\* One more than the items of the main menu, so that the cursor can be left
\* beyond them.
SomeTabs == <<"management", "players", "stats", "scheduler", "backups">>

Interchangeable ==
  Permutations(Servers) \union Permutations(Projects) \union Permutations(EnableCalls)
    \union Permutations(Deploys)
=============================================================================
