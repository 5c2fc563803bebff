----------------------------- MODULE DashboardShell -----------------------------
(***************************************************************************)
(* DashboardShell: which components a key reaches, and what they make of   *)
(* it (DashboardShellScreen.tsx).  Ink hands every key to every component  *)
(* that listens; each decides for itself whether the key is meant for it.  *)
(* The shell listens only while no modal is open, the sidebar and the      *)
(* panels while they have the focus, the wizard and the confirm dialog of  *)
(* ServerManagement always.  Navigation and SetupWizard run in the same    *)
(* event loop as the calls that return between two keys.                   *)
(*                                                                         *)
(*   manage   the local state of ServerManagement: its mode, whether the   *)
(*            dialog is on Yes, and the server it was entered for, which   *)
(*            is history.  React keeps it while the same component is      *)
(*            rendered in the same place, whatever server it is given.     *)
(*                                                                         *)
(* Keys that only type text, and the local state of the other tabs, are    *)
(* left out, and so is uiStore.showConfirm, which nothing calls.           *)
(***************************************************************************)
EXTENDS SetupWizard

VARIABLE manage

shellVars == <<stack, focus, cursor, open, answers, shown, enable, deploy,
               enabled, manage>>

Manage ==
  [ mode : {"actions", "machines", "confirm", "running"}, yes : BOOLEAN,
    server : Servers \union {"none"} ]

Actions    == [mode |-> "actions", yes |-> FALSE, server |-> "none"]
Into(mode) == [mode |-> mode, yes |-> FALSE, server |-> Top.server]

Managing == Top.kind = "server" /\ Top.shows = "management"

\* What is left of ServerManagement when the context may have changed.
Keeps(m) == manage' = IF Managing /\ Managing' THEN m ELSE Actions

DialogOpen == Managing /\ manage.mode = "confirm"

-----------------------------------------------------------------------------
(* Arrows and Tab.                                                         *)

\* The sidebar takes the arrows while it has the focus, the wizard's list too.
Arrow ==
  /\ IF focus = "sidebar" THEN CursorDown \/ CursorUp ELSE UNCHANGED cursor
  /\ UNCHANGED <<stack, focus, wizardVars, manage>>

\* Left and right, whatever has the focus.
DialogArrow ==
  /\ DialogOpen
  /\ \E yes \in BOOLEAN : manage' = [manage EXCEPT !.yes = yes]
  /\ UNCHANGED <<stack, focus, cursor, wizardVars>>

\* Faulty variant: the shell listens while the wizard is open.
TabAlways ==
  /\ focus' = IF focus = "sidebar" THEN "main" ELSE "sidebar"
  /\ UNCHANGED <<stack, cursor, wizardVars, manage>>

Tab ==
  /\ ~open
  /\ focus' = IF focus = "sidebar" THEN "main" ELSE "sidebar"
  /\ UNCHANGED <<stack, cursor, wizardVars, manage>>

-----------------------------------------------------------------------------
(* Enter and the letters of the dialog.                                    *)

\* handleSidebarSelect, handleServerTabSelect.
SidebarEnter ==
  LET item == Items[cursor] IN
  IF Top.kind = "main" /\ item # "create_server"
  THEN SelectSidebarItem(item)
  ELSE IF Top.kind = "server" THEN SelectServerTab(item) ELSE UNCHANGED stack

\* Faulty variant: the list of servers takes Enter behind a server's tab too.
PanelEnterAnywhere ==
  \/ \E s \in Servers : PushContext(Detail(s, "management"))
  \/ /\ Top # Main("active-servers")
     /\ UNCHANGED stack

PanelEnter ==
  \/ /\ Top = Main("active-servers")
     /\ \E s \in Servers : PushContext(Detail(s, "management"))
  \/ /\ Top # Main("active-servers")
     /\ UNCHANGED stack

\* ServerManagement: its lists listen when the main region has the focus, its
\* dialog always.  Start and Stop leave nothing behind here.
ManageEnter ==
  \/ /\ manage.mode = "confirm"
     /\ Keeps(IF manage.yes THEN [manage EXCEPT !.mode = "running"] ELSE Actions)
  \/ /\ focus = "main" /\ manage.mode = "actions"
     /\ \E m \in {Actions, Into("confirm"), Into("machines")} : Keeps(m)
  \/ /\ focus = "main" /\ manage.mode = "machines"
     /\ Keeps([manage EXCEPT !.mode = "confirm"])
  \/ /\ manage.mode = "running" \/ (focus = "sidebar" /\ manage.mode # "confirm")
     /\ Keeps(manage)

OpensWizard ==
  focus = "sidebar" /\ Top.kind = "main" /\ Items[cursor] = "create_server"

Enter ==
  /\ IF focus = "sidebar" THEN SidebarEnter ELSE PanelEnter
  /\ IF open THEN WizardEnter
     ELSE IF OpensWizard THEN OpenWizard ELSE UNCHANGED wizardVars
  /\ CursorFollows
  /\ ManageEnter
  /\ UNCHANGED focus

\* y and n.
DialogLetter ==
  /\ DialogOpen
  /\ \E m \in {[manage EXCEPT !.mode = "running"], Actions} : manage' = m
  /\ UNCHANGED <<stack, focus, cursor, wizardVars>>

-----------------------------------------------------------------------------
(* Escape.                                                                 *)

\* The branch of the shell's handler that would close the wizard is never
\* reached: the handler is inactive while a modal is open.
WizardEscape ==
  /\ open
  /\ UNCHANGED stack
  /\ ResetWizard
  /\ UNCHANGED <<focus, cursor, manage>>

\* From a tab to the sidebar, from the sidebar of a server to the list, from
\* another panel to the one before.  The dialog takes Escape as No.
ShellEscape ==
  /\ ~open
  /\ \/ /\ Top.kind = "server" /\ focus = "main"
        /\ focus' = "sidebar"
        /\ UNCHANGED stack
     \/ /\ Top.kind = "server" /\ focus = "sidebar"
        /\ PopContext
        /\ UNCHANGED focus
     \/ /\ Top.kind = "main" /\ Top.shows # "active-servers"
        /\ PopContext
        /\ focus' = "sidebar"
     \/ /\ Top = Main("active-servers")
        /\ UNCHANGED <<stack, focus>>
  /\ CursorFollows
  /\ Keeps(IF manage.mode = "confirm" THEN Actions ELSE manage)
  /\ UNCHANGED wizardVars

-----------------------------------------------------------------------------
(* What returns between two keys.                                          *)

\* The operation ServerManagement has started.
ActionEnds ==
  /\ Managing /\ manage.mode = "running"
  /\ manage' = Actions
  /\ UNCHANGED <<stack, focus, cursor, wizardVars>>

CallReturns ==
  /\ \/ AuthChecked \/ LatencyMeasured \/ CatalogLoaded
     \/ \E c \in EnableCalls : EnableSucceeds(c) \/ EnableFails(c)
     \/ \E d \in Deploys : DeployFails(d) \/ DeploySucceeds(d) \/ WizardCloses(d)
  /\ CursorFollows
  /\ Keeps(manage)
  /\ UNCHANGED focus

ShellInit == NavigationInit /\ WizardInit /\ manage = Actions

ShellNext ==
  \/ Arrow \/ DialogArrow \/ Tab
  \/ Enter \/ DialogLetter
  \/ WizardEscape \/ ShellEscape
  \/ ActionEnds \/ CallReturns

ShellSpec == ShellInit /\ [][ShellNext]_shellVars

-----------------------------------------------------------------------------
(* Properties.                                                             *)

\* Every variable has its type.
ShellTypeOK == NavigationTypeOK /\ WizardTypeOK /\ manage \in Manage

\* While the wizard is open the keyboard is with the sidebar of a main
\* context, so that no key meant for the wizard reaches a panel of a server.
WizardIsAlone == open => focus = "sidebar" /\ Top.kind = "main"

\* The stack starts with the list of servers and never shows the same twice in
\* a row; a server is only ever on top, and over the list it was chosen from.
StackIsOrderly ==
  /\ stack[1] = Main("active-servers")
  /\ \A i \in 1..(Len(stack) - 1) :
       /\ stack[i].kind = "main"
       /\ stack[i] # stack[i + 1]
       /\ stack[i + 1].kind = "server" => stack[i] = Main("active-servers")

\* The cursor of the sidebar is on one of its items, also after the items have
\* become fewer.
CursorIsOnItem == cursor \in 1..Len(Items)

\* The machine list, the dialog and the operation under way are those of the
\* server that is shown, although the component that keeps them would pass them
\* on to the next server it is rendered for.
QuestionIsAboutServer ==
  manage.mode # "actions" => Managing /\ manage.server = Top.server

Coherent(a) ==
  /\ a.provider \/ a.late
  /\ a.project \in enabled
  /\ a.region # "none" /\ a.regionFor = a.project
  /\ a.machine /\ a.machineFor = <<a.project, a.region>>

\* The answers that are submitted belong together: the APIs of the project
\* have been enabled, the region was chosen for this project and the machine for
\* this region, although calls of an earlier session of the wizard, or of
\* another choice, may return at any time and replace the project.  The provider
\* that SetupWizard asserts (state.provider!) is among them, except where a call
\* made before the store was reset has taken the wizard past the step that asks
\* for it.
AnswersBelongTogether ==
  \A d \in Deploys : deploy[d].at # "idle" => Coherent(deploy[d].answers)
===============================================================================
