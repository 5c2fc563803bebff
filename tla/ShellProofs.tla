----------------------------- MODULE ShellProofs -----------------------------
(***************************************************************************)
(* Theorems about DashboardShell, for any number of servers, tabs,         *)
(* contexts, projects, regions and calls.                                  *)
(***************************************************************************)
EXTENDS DashboardShell, SequenceTheorems, TLAPS

-----------------------------------------------------------------------------
(* The stack.                                                              *)

StackType == stack \in Seq(Context) /\ Len(stack) \in 1..MaxContexts

\* Below the top there are only main contexts.
StackInv == StackType /\ StackIsOrderly

LEMMA TopType ==
  ASSUME StackType
  PROVE  /\ Top \in Context
         /\ \A i \in 1..Len(stack) : stack[i] \in Context
         /\ Len(stack) \in Nat
<1>1. Len(stack) \in Nat /\ Len(stack) \in 1..Len(stack)
  BY LenProperties, NavigationAssumption DEF StackType
<1> QED
  BY <1>1, ElementOfSeq DEF Top, StackType

LEMMA ContextTypes ==
  /\ \A p \in Panels : Main(p) \in Context
  /\ \A s \in Servers, x \in Tabs : Detail(s, x) \in Context
  /\ "management" \in Tabs
  /\ Main("active-servers") \in Context
<1>1. "management" \in Tabs
  BY NavigationAssumption DEF Tabs
<1> QED
  BY <1>1 DEF Context, Main, Detail, Panels

\* What a step makes of the stack.
Pushed(c) ==
  /\ Len(stack') = Len(stack) + 1
  /\ \A i \in 1..Len(stack) : stack'[i] = stack[i]
  /\ stack'[Len(stack) + 1] = c
  /\ c \in Context

Popped ==
  /\ Len(stack) > 1
  /\ Len(stack') = Len(stack) - 1
  /\ \A i \in 1..(Len(stack) - 1) : stack'[i] = stack[i]

Turned ==
  /\ Top.kind = "server"
  /\ Len(stack') = Len(stack)
  /\ \A i \in 1..(Len(stack) - 1) : stack'[i] = stack[i]
  /\ stack'[Len(stack)].kind = "server"
  /\ stack'[Len(stack)].server = Top.server

StackEffect ==
  /\ StackType'
  /\ \/ stack' = stack
     \/ Popped
     \/ Turned
     \/ Top.kind = "main" /\ \E p \in Panels : Top.shows # p /\ Pushed(Main(p))
     \/ Top = Main("active-servers")
        /\ \E s \in Servers : Pushed(Detail(s, "management"))

LEMMA PushEffect ==
  ASSUME StackType, NEW c \in Context, PushContext(c)
  PROVE  StackType' /\ Pushed(c)
<1>1. stack' = Append(stack, c) /\ Len(stack) \in Nat /\ Len(stack) < MaxContexts
  BY TopType DEF PushContext
<1> QED
  BY <1>1, AppendProperties, NavigationAssumption DEF StackType, Pushed

LEMMA PopEffect ==
  ASSUME StackType, PopContext
  PROVE  StackType' /\ (stack' = stack \/ Popped)
<1>1. CASE Len(stack) <= 1
  BY <1>1 DEF PopContext, StackType
<1>2. CASE Len(stack) > 1
  <2>1. stack' = SubSeq(stack, 1, Len(stack) - 1) /\ Len(stack) \in Nat
    BY <1>2, TopType DEF PopContext
  <2>2. \A i \in 1..(Len(stack) - 1) : stack[i] \in Context
    BY <2>1, TopType
  <2>3. /\ stack' \in Seq(Context)
        /\ Len(stack') = Len(stack) - 1
        /\ \A i \in 1..(Len(stack) - 1) : stack'[i] = stack[i]
    BY <1>2, <2>1, <2>2, SubSeqProperties
  <2> QED
    BY <1>2, <2>1, <2>3, NavigationAssumption DEF StackType, Popped
<1> QED
  BY <1>1, <1>2, TopType

LEMMA TurnEffect ==
  ASSUME StackType, NEW x \in Tabs, SelectServerTab(x)
  PROVE  StackType' /\ (stack' = stack \/ Turned)
<1>1. CASE Top.kind # "server"
  BY <1>1 DEF SelectServerTab, StackType
<1>2. CASE Top.kind = "server"
  <2> DEFINE c == [Top EXCEPT !.shows = x]
  <2>1. c \in Context /\ c.kind = "server" /\ c.server = Top.server
    BY <1>2, TopType DEF Context
  <2>2. stack' = [stack EXCEPT ![Len(stack)] = c]
    BY <1>2 DEF SelectServerTab, Top
  <2>3. Len(stack) \in 1..Len(stack)
    BY TopType DEF StackType
  <2> HIDE DEF c
  <2>4. /\ stack' \in Seq(Context)
        /\ Len(stack') = Len(stack)
        /\ \A j \in 1..Len(stack) :
             stack'[j] = IF j = Len(stack) THEN c ELSE stack[j]
    BY <2>1, <2>2, <2>3, ExceptSeq DEF StackType
  <2> QED
    BY <1>2, <2>1, <2>3, <2>4 DEF StackType, Turned
<1> QED
  BY <1>1, <1>2

\* Entering what the cursor is on.
LEMMA SidebarEffect ==
  ASSUME StackType, cursor \in 1..Len(Items), SidebarEnter
  PROVE  StackEffect
<1>1. CASE Top.kind = "main"
  <2>1. MainMenu[cursor] = "create_server" \/ MainMenu[cursor] \in Panels
    BY <1>1 DEF Items, MainMenu, Panels
  <2>2. CASE MainMenu[cursor] = "create_server"
    BY <1>1, <2>2 DEF SidebarEnter, Items, StackEffect, StackType
  <2>3. CASE MainMenu[cursor] \in Panels /\ MainMenu[cursor] # "create_server"
    <3>1. SelectSidebarItem(MainMenu[cursor])
      BY <1>1, <2>3 DEF SidebarEnter, Items
    <3>2. CASE Top.shows # MainMenu[cursor]
      <4>1. PushContext(Main(MainMenu[cursor]))
        BY <1>1, <3>1, <3>2 DEF SelectSidebarItem
      <4> QED
        BY <1>1, <2>3, <3>2, <4>1, ContextTypes, PushEffect DEF StackEffect
    <3>3. CASE Top.shows = MainMenu[cursor]
      BY <3>1, <3>3 DEF SelectSidebarItem, StackEffect, StackType
    <3> QED
      BY <3>2, <3>3
  <2> QED
    BY <2>1, <2>2, <2>3
<1>2. CASE Top.kind = "server"
  <2>1. ServerTabs[cursor] \in Tabs /\ SelectServerTab(ServerTabs[cursor])
    BY <1>2 DEF SidebarEnter, Items, Tabs
  <2> QED
    BY <2>1, TurnEffect DEF StackEffect
<1>3. Top.kind \in {"main", "server"}
  BY TopType DEF Context
<1> QED
  BY <1>1, <1>2, <1>3

LEMMA EnterEffect ==
  ASSUME StackType, cursor \in 1..Len(Items), Enter
  PROVE  StackEffect
<1>1. CASE focus = "sidebar"
  BY <1>1, SidebarEffect DEF Enter
<1>2. CASE focus # "sidebar" /\ stack' = stack
  BY <1>2 DEF StackEffect, StackType
<1>3. ASSUME NEW s \in Servers, Top = Main("active-servers"),
             PushContext(Detail(s, "management"))
      PROVE  StackEffect
  BY <1>3, ContextTypes, PushEffect DEF StackEffect
<1> QED
  BY <1>1, <1>2, <1>3 DEF Enter, PanelEnter

LEMMA StackStep ==
  ASSUME StackType, cursor \in 1..Len(Items), [ShellNext]_shellVars
  PROVE  StackEffect
<1>1. CASE Enter
  BY <1>1, EnterEffect
<1>2. CASE stack' = stack
  BY <1>2 DEF StackEffect, StackType
<1>3. CASE PopContext
  BY <1>3, PopEffect DEF StackEffect
<1>4. Arrow \/ DialogArrow \/ Tab \/ DialogLetter \/ WizardEscape \/ ActionEnds
        => stack' = stack
  BY DEF Arrow, DialogArrow, Tab, DialogLetter, WizardEscape, ActionEnds
<1>5. ShellEscape => stack' = stack \/ PopContext
  BY DEF ShellEscape
<1>6. CallReturns => stack' = stack \/ PopContext
  BY DEF CallReturns, AuthChecked, LatencyMeasured, CatalogLoaded, EnableSucceeds,
         EnableFails, DeployFails, DeploySucceeds, WizardCloses
<1>7. UNCHANGED shellVars => stack' = stack
  BY DEF shellVars
<1> QED
  BY <1>1, <1>2, <1>3, <1>4, <1>5, <1>6, <1>7 DEF ShellNext

LEMMA StillOrderly == StackInv /\ stack' = stack => StackInv'
  BY Zenon DEF StackInv, StackType, StackIsOrderly

LEMMA OrderlyStep ==
  ASSUME StackInv, StackEffect
  PROVE  StackInv'
<1>1. CASE stack' = stack
  BY <1>1, StillOrderly
<1> USE TopType DEF StackInv, StackIsOrderly, StackType
<1>2. CASE Popped
  <2>1. Len(stack) \in Nat /\ Len(stack) > 1 /\ Len(stack') = Len(stack) - 1
    BY <1>2 DEF Popped
  <2>2. \A i \in 1..(Len(stack') - 1) :
          i \in 1..(Len(stack) - 1) /\ stack'[i] = stack[i] /\ stack'[i + 1] = stack[i + 1]
    BY <1>2, <2>1 DEF Popped
  <2>3. stack'[1] = stack[1]
    BY <1>2, <2>1 DEF Popped
  <2>4. StackType'
    BY DEF StackEffect
  <2>5. stack'[1] = Main("active-servers")
    BY <2>3, Zenon
  <2>6. ASSUME NEW i \in 1..(Len(stack') - 1)
        PROVE  /\ stack'[i].kind = "main"
               /\ stack'[i] # stack'[i + 1]
               /\ stack'[i + 1].kind = "server" => stack'[i] = Main("active-servers")
    BY <2>2, Zenon
  <2> QED
    BY <2>4, <2>5, <2>6
<1>3. CASE Turned
  <2>1. Len(stack) # 1
    BY <1>3 DEF Turned, Top, Main
  <2> QED
    BY <1>3, <2>1 DEF Turned, StackEffect, Top
<1>4. ASSUME NEW p \in Panels, Top.kind = "main", Top.shows # p, Pushed(Main(p))
      PROVE  StackInv'
  <2>1. Top # Main(p) /\ Main(p).kind = "main"
    BY <1>4 DEF Main
  <2> QED
    BY <1>4, <2>1 DEF Pushed, StackEffect, Top
<1>5. ASSUME NEW s \in Servers, Top = Main("active-servers"),
             Pushed(Detail(s, "management"))
      PROVE  StackInv'
  <2>1. Top.kind = "main" /\ Detail(s, "management").kind = "server"
    BY <1>5 DEF Main, Detail
  <2> QED
    BY <1>5, <2>1 DEF Pushed, StackEffect, Top
<1> QED
  BY <1>1, <1>2, <1>3, <1>4, <1>5 DEF StackEffect

-----------------------------------------------------------------------------
(* The keyboard.                                                           *)

LEMMA MenuLengths ==
  /\ Len(MainMenu) = 4
  /\ Len(ServerTabs) \in Nat /\ Len(ServerTabs) >= 1
<1>1. Len(MainMenu) = 4
  BY DEF MainMenu
<1>2. Len(ServerTabs) \in Nat /\ Len(ServerTabs) >= 1
  BY LenProperties, NavigationAssumption
<1> QED
  BY <1>1, <1>2

LEMMA ItemCount == Len(Items) \in Nat /\ Len(Items) >= 1
<1>1. Items \in {MainMenu, ServerTabs}
  BY DEF Items
<1> QED
  BY <1>1, MenuLengths

LEMMA CursorStep ==
  ASSUME CursorIsOnItem, [ShellNext]_shellVars
  PROVE  CursorIsOnItem'
<1> USE ItemCount DEF CursorIsOnItem
<1>1. Len(Items') \in Nat /\ Len(Items') >= 1
  <2>1. Items' \in {MainMenu, ServerTabs}
    BY DEF Items
  <2> QED
    BY <2>1, MenuLengths
<1>2. CASE CursorFollows
  BY <1>1, <1>2 DEF CursorFollows
<1>3. ASSUME stack' = stack
      PROVE  Items' = Items
  BY <1>3, Zenon DEF Items, Top
<1>4. CASE Arrow
  <2>1. Items' = Items
    BY <1>3, <1>4 DEF Arrow
  <2>2. CASE cursor' = cursor
    BY <2>1, <2>2
  <2>3. CASE CursorDown \/ CursorUp
    BY <2>1, <2>3 DEF CursorDown, CursorUp
  <2> QED
    BY <1>4, <2>2, <2>3 DEF Arrow
<1>5. CASE DialogArrow \/ Tab \/ DialogLetter \/ WizardEscape \/ ActionEnds
           \/ UNCHANGED shellVars
  <2>1. stack' = stack /\ cursor' = cursor
    BY <1>5 DEF DialogArrow, Tab, DialogLetter, WizardEscape, ActionEnds, shellVars
  <2>2. Items' = Items
    BY <1>3, <2>1
  <2> QED
    BY <2>1, <2>2
<1>6. Enter \/ ShellEscape \/ CallReturns => CursorFollows
  BY DEF Enter, ShellEscape, CallReturns
<1> QED
  BY <1>2, <1>4, <1>5, <1>6 DEF ShellNext

\* No step goes from a server to another.
LEMMA SameServer ==
  ASSUME StackInv, StackEffect, Managing, Managing'
  PROVE  Top'.server = Top.server
<1> USE TopType DEF StackInv, StackType, Managing
<1>1. CASE stack' = stack
  BY <1>1, Zenon DEF Top
<1>2. CASE Popped
  <2>1. Top' = stack[Len(stack) - 1] /\ Len(stack) - 1 \in 1..(Len(stack) - 1)
    BY <1>2 DEF Popped, Top
  <2>2. Top'.kind = "main"
    BY <2>1, Zenon DEF StackIsOrderly
  <2> QED
    BY <2>2
<1>3. CASE Turned
  BY <1>3 DEF Turned, Top
<1>4. CASE Top.kind = "main"
  BY <1>4
<1> QED
  BY <1>1, <1>2, <1>3, <1>4 DEF StackEffect, Main

LEMMA AloneStep ==
  ASSUME StackInv, StackEffect, WizardIsAlone, [ShellNext]_shellVars
  PROVE  WizardIsAlone'
<1> USE DEF WizardIsAlone
<1>1. ASSUME Top.kind = "main", focus = "sidebar", Popped \/ stack' = stack
      PROVE  Top'.kind = "main"
  <2>1. CASE stack' = stack
    BY <1>1, <2>1, Zenon DEF Top
  <2>2. CASE Popped
    <3>1. Top' = stack[Len(stack) - 1] /\ Len(stack) - 1 \in 1..(Len(stack) - 1)
      BY <2>2, TopType DEF Popped, Top, StackInv
    <3> QED
      BY <3>1 DEF StackInv, StackIsOrderly
  <2> QED
    BY <1>1, <2>1, <2>2
<1>2. CASE Enter
  <2>1. focus' = focus /\ (open' => open \/ OpensWizard)
    BY <1>2 DEF Enter, WizardEnter, SelectProvider, SelectProject, SelectRegion,
                SelectInstance, SubmitDeploy, NothingToSelect, EnableProjectApis,
                wizardVars
  <2>2. focus = "sidebar" /\ Top.kind = "main" => Top'.kind = "main"
    <3>1. CASE stack' = stack
      BY <3>1, Zenon DEF Top
    <3>2. ASSUME focus = "sidebar", Top.kind = "main"
          PROVE  stack' = stack \/ PushContext(Main(Items[cursor]))
      BY <1>2, <3>2 DEF Enter, SidebarEnter, SelectSidebarItem
    <3>3. CASE PushContext(Main(Items[cursor]))
      <4> DEFINE c == Main(Items[cursor])
      <4>1. stack' = Append(stack, c) /\ stack \in Seq(Context \union {c})
        BY <3>3, SeqMonotonic DEF PushContext, StackInv, StackType
      <4>2. c.kind = "main"
        BY DEF Main
      <4> HIDE DEF c
      <4>3. Top' = c
        BY <4>1, AppendProperties, LenProperties DEF Top
      <4> QED
        BY <4>2, <4>3
    <3> QED
      BY <3>1, <3>2, <3>3
  <2> QED
    BY <2>1, <2>2 DEF OpensWizard
<1>3. CASE CallReturns
  <2>1. focus' = focus /\ (open' => open)
    <3>1. ASSUME NEW c \in EnableCalls, EnableSucceeds(c) \/ EnableFails(c)
          PROVE  open' => open
      BY <3>1 DEF EnableSucceeds, EnableFails
    <3>2. ASSUME NEW d \in Deploys, DeployFails(d) \/ DeploySucceeds(d)
          PROVE  open' => open
      BY <3>2 DEF DeployFails, DeploySucceeds
    <3>3. ASSUME NEW d \in Deploys, WizardCloses(d)
          PROVE  ~open'
      BY <3>3 DEF WizardCloses
    <3>4. AuthChecked \/ LatencyMeasured \/ CatalogLoaded => (open' => open)
      BY DEF AuthChecked, LatencyMeasured, CatalogLoaded
    <3>5. focus' = focus
      BY <1>3 DEF CallReturns
    <3> QED
      BY <1>3, <3>1, <3>2, <3>3, <3>4, <3>5, Zenon DEF CallReturns
  <2>2. stack' = stack \/ PopContext
    BY <1>3 DEF CallReturns, AuthChecked, LatencyMeasured, CatalogLoaded,
                EnableSucceeds, EnableFails, DeployFails, DeploySucceeds,
                WizardCloses
  <2>3. stack' = stack \/ Popped
    BY <2>2, PopEffect DEF StackInv
  <2> QED
    BY <1>1, <2>1, <2>3
<1>4. CASE Arrow \/ DialogArrow \/ DialogLetter \/ WizardEscape \/ ActionEnds
           \/ UNCHANGED shellVars
  <2>1. stack' = stack /\ focus' = focus /\ open' = open
    BY <1>4 DEF Arrow, DialogArrow, DialogLetter, WizardEscape, ResetWizard,
                ActionEnds, shellVars, wizardVars
  <2> QED
    BY <1>1, <2>1
<1>5. CASE Tab \/ ShellEscape
  BY <1>5 DEF Tab, ShellEscape, wizardVars
<1> QED
  BY <1>2, <1>3, <1>4, <1>5 DEF ShellNext

LEMMA ManageStep ==
  ASSUME StackInv, StackEffect, QuestionIsAboutServer, manage \in Manage,
         [ShellNext]_shellVars
  PROVE  QuestionIsAboutServer' /\ manage' \in Manage
<1> USE DEF QuestionIsAboutServer
<1>1. Actions \in Manage /\ Actions.mode = "actions"
  BY DEF Actions, Manage
<1>2. Managing => Top.server \in Servers
  BY TopType DEF Managing, Context, StackInv
\* A mode that is kept is one of the server shown.
<1>3. ASSUME NEW m \in Manage, Keeps(m),
             m.mode # "actions" => Managing /\ m.server = Top.server
      PROVE  QuestionIsAboutServer' /\ manage' \in Manage
  <2>1. CASE Managing /\ Managing'
    <3>1. Top'.server = Top.server /\ manage' = m
      BY <1>3, <2>1, SameServer DEF Keeps
    <3> QED
      BY <1>3, <2>1, <3>1
  <2>2. CASE ~(Managing /\ Managing')
    BY <1>1, <1>3, <2>2 DEF Keeps
  <2> QED
    BY <2>1, <2>2
<1>4. ASSUME stack' = stack, NEW m \in Manage, manage' = m,
             m.mode # "actions" => Managing /\ m.server = Top.server
      PROVE  QuestionIsAboutServer' /\ manage' \in Manage
  <2>1. Managing' = Managing /\ Top' = Top
    BY <1>4, Zenon DEF Managing, Top
  <2> QED
    BY <1>4, <2>1
<1>5. ASSUME NEW mode \in {"running", "confirm"}
      PROVE  /\ [manage EXCEPT !.mode = mode] \in Manage
             /\ [manage EXCEPT !.mode = mode].server = manage.server
  BY DEF Manage
<1>6. ASSUME NEW mode \in {"machines", "confirm"}, Managing
      PROVE  Into(mode) \in Manage /\ Into(mode).server = Top.server
  BY <1>2, <1>6 DEF Manage, Into
<1>7. CASE Arrow \/ Tab \/ WizardEscape \/ UNCHANGED shellVars
  <2>1. stack' = stack /\ manage' = manage
    BY <1>7 DEF Arrow, Tab, WizardEscape, shellVars
  <2> QED
    BY <1>4, <2>1
<1>8. CASE DialogArrow
  <2>1. PICK yes \in BOOLEAN : manage' = [manage EXCEPT !.yes = yes]
    BY <1>8 DEF DialogArrow
  <2>2. /\ [manage EXCEPT !.yes = yes] \in Manage
        /\ [manage EXCEPT !.yes = yes].server = manage.server
        /\ [manage EXCEPT !.yes = yes].mode = manage.mode
    BY DEF Manage
  <2> QED
    BY <1>4, <1>8, <2>1, <2>2 DEF DialogArrow
<1>9. CASE DialogLetter
  <2>1. manage' = [manage EXCEPT !.mode = "running"] \/ manage' = Actions
    BY <1>9 DEF DialogLetter
  <2>2. stack' = stack /\ manage.mode # "actions"
    BY <1>9 DEF DialogLetter, DialogOpen
  <2> QED
    BY <1>1, <1>4, <1>5, <2>1, <2>2
<1>10. CASE Enter
  <2>1. CASE manage.mode = "confirm" \/ manage.mode = "machines"
    <3>1. PICK m \in {[manage EXCEPT !.mode = "running"],
                      [manage EXCEPT !.mode = "confirm"], Actions, manage} : Keeps(m)
      BY <1>10, <2>1 DEF Enter, ManageEnter
    <3> QED
      BY <1>1, <1>3, <1>5, <2>1, <3>1
  <2>2. CASE manage.mode = "running"
    <3>1. Keeps(manage)
      BY <1>10, <2>2 DEF Enter, ManageEnter
    <3> QED
      BY <1>3, <3>1
  <2>3. CASE manage.mode = "actions"
    <3>1. PICK m \in {Actions, Into("confirm"), Into("machines"), manage} : Keeps(m)
      BY <1>10, <2>3 DEF Enter, ManageEnter
    <3>2. CASE Managing
      BY <1>1, <1>3, <1>6, <2>3, <3>1, <3>2
    <3>3. CASE ~Managing
      BY <1>1, <3>1, <3>3 DEF Keeps
    <3> QED
      BY <3>2, <3>3
  <2> QED
    BY <2>1, <2>2, <2>3 DEF Manage
<1>11. CASE ShellEscape
  <2>1. Keeps(Actions) \/ Keeps(manage)
    BY <1>11 DEF ShellEscape
  <2> QED
    BY <1>1, <1>3, <2>1
<1>12. CASE CallReturns
  BY <1>3, <1>12 DEF CallReturns
<1>13. CASE ActionEnds
  BY <1>1, <1>4, <1>13 DEF ActionEnds
<1> QED
  BY <1>7, <1>8, <1>9, <1>10, <1>11, <1>12, <1>13 DEF ShellNext

-----------------------------------------------------------------------------
(* The wizard: what is mounted.                                            *)

StatusOf(step) ==
  CASE step = 1 -> {"provider"}
    [] step = 2 -> {"checking", "error", "loaded", "enabling", "apiError"}
    [] step = 3 -> {"measuring", "regions"}
    [] step = 4 -> {"select", "loading", "dynamic"}
    [] step = 5 -> {"confirm"}

\* The component that is mounted is that of the step in the store; only
\* AuthProject checks, or has calls of its own, and those are about projects.
ViewInv ==
  /\ WizardTypeOK
  /\ ~open => shown.status = "none" /\ ~shown.checking
  /\ open => shown.status \in StatusOf(answers.step)
  /\ shown.checking => open /\ answers.step = 2
  /\ shown.status \in {"enabling", "apiError"} => shown.selected \in Projects
  /\ \A c \in EnableCalls :
       /\ enable[c].own => open /\ answers.step = 2 /\ shown.selected \in Projects
       /\ enable[c].project = "none" => ~enable[c].own /\ ~enable[c].late

WizardStep ==
  \/ open /\ WizardEnter
  \/ ~open /\ OpenWizard
  \/ open /\ ResetWizard
  \/ AuthChecked \/ LatencyMeasured \/ CatalogLoaded
  \/ \E c \in EnableCalls : EnableSucceeds(c) \/ EnableFails(c)
  \/ \E d \in Deploys : DeployFails(d) \/ DeploySucceeds(d) \/ WizardCloses(d)
  \/ UNCHANGED wizardVars

LEMMA WizardStepOf == [ShellNext]_shellVars => WizardStep
<1>1. Arrow \/ DialogArrow \/ Tab \/ DialogLetter \/ ShellEscape \/ ActionEnds
        \/ UNCHANGED shellVars => UNCHANGED wizardVars
  BY DEF Arrow, DialogArrow, Tab, DialogLetter, ShellEscape, ActionEnds, shellVars,
         wizardVars
<1>2. Enter => WizardStep
  BY DEF Enter, WizardStep
<1>3. WizardEscape => WizardStep
  BY DEF WizardEscape, WizardStep
<1>4. CallReturns => WizardStep
  BY DEF CallReturns, WizardStep
<1> QED
  BY <1>1, <1>2, <1>3, <1>4 DEF ShellNext, WizardStep

LEMMA StatusOfTwo ==
  /\ \A step \in 1..5 : \A x \in StatusOf(step) : x \in StatusOf(2) => step = 2
  /\ \A step \in 1..5 : "none" \notin StatusOf(step)
  /\ {"loaded", "enabling", "apiError"} \subseteq StatusOf(2)
  /\ \A step \in 1..5 :
       "dynamic" \in StatusOf(step) => "loading" \in StatusOf(step)
  BY DEF StatusOf

LEMMA StatusOfThree ==
  /\ \A step \in 1..5 : "regions" \in StatusOf(step) => step = 3
  /\ \A step \in 1..5 : "provider" \in StatusOf(step) => step = 1
  /\ \A step \in 1..5 : \A x \in StatusOf(4) : x \in StatusOf(step) => step = 4
  /\ \A step \in 1..5 : "confirm" \in StatusOf(step) => step = 5
  /\ "confirm" \in StatusOf(5) /\ "confirm" \notin StatusOf(2)
  BY DEF StatusOf

LEMMA AfterIs ==
  ASSUME NEW l \in Step
  PROVE  /\ After(l) \in Step
         /\ After(l).selected = l.selected
         /\ After(l).checking => l.checking \/ l.status \in StatusOf(2)
         /\ l.status # "dynamic" => After(l).status = l.status
         /\ l.status = "dynamic" => After(l).status \in {"dynamic", "loading"}
         /\ \A step \in 1..5 :
              l.status \in StatusOf(step) => After(l).status \in StatusOf(step)
<1>1. CASE After(l) = l
  BY <1>1
<1>2. CASE After(l) = [l EXCEPT !.checking = TRUE] /\ l.status \in StatusOf(2)
  BY <1>2 DEF Step, StatusOf
<1>3. CASE After(l) = [l EXCEPT !.status = "loading"] /\ l.status = "dynamic"
  BY <1>3, StatusOfTwo DEF Step
<1> QED
  BY <1>1, <1>2, <1>3 DEF After, Rerendered, StatusOf

LEMMA MountedIs ==
  ASSUME NEW step \in 1..5, NEW l \in Mounted(step)
  PROVE  /\ l \in Step
         /\ l.status \in StatusOf(step)
         /\ l.checking => step = 2
         /\ l.status \notin {"enabling", "apiError"}
<1>1. PICK status \in {"provider", "checking", "measuring", "regions", "select",
                       "confirm"} :
        /\ l = StepIn(status)
        /\ status \in StatusOf(step)
        /\ status = "checking" => step = 2
  BY DEF Mounted, StatusOf
<1> QED
  BY <1>1 DEF StepIn, Step, Project

\* What a call is about does not depend on who hears its answer.
SameCall(a, b) == a.project = b.project /\ a.late = b.late

LEMMA DisownedIs ==
  ASSUME NEW calls \in [EnableCalls -> Call]
  PROVE  /\ Disowned(calls) \in [EnableCalls -> Call]
         /\ \A c \in EnableCalls : /\ ~Disowned(calls)[c].own
                                  /\ SameCall(Disowned(calls)[c], calls[c])
  BY DEF Disowned, Call, SameCall

\* Calls of before a reset are late.
LEMMA OutdatedIs ==
  ASSUME NEW calls \in [EnableCalls -> Call]
  PROVE  /\ Outdated(calls) \in [EnableCalls -> Call]
         /\ \A c \in EnableCalls :
              /\ Outdated(calls)[c].own => calls[c].own
              /\ Outdated(calls)[c].project = calls[c].project
              /\ Outdated(calls)[c].project # "none" => Outdated(calls)[c].late
              /\ calls[c].project = "none" /\ ~calls[c].own /\ ~calls[c].late =>
                   ~Outdated(calls)[c].late
<1>1. /\ NoCall \in Call /\ NoCall.project = "none" /\ ~NoCall.own /\ ~NoCall.late
      /\ \A k \in Call : k.project = "none" /\ ~k.own /\ ~k.late => k = NoCall
  BY DEF NoCall, Call, Project
<1>2. ASSUME NEW c \in EnableCalls
      PROVE  /\ Outdated(calls)[c] \in Call
             /\ Outdated(calls)[c].own => calls[c].own
             /\ Outdated(calls)[c].project = calls[c].project
             /\ Outdated(calls)[c].project # "none" => Outdated(calls)[c].late
             /\ calls[c].project = "none" /\ ~calls[c].own /\ ~calls[c].late =>
                  ~Outdated(calls)[c].late
  <2>1. CASE calls[c] = NoCall
    BY <1>1, <2>1 DEF Outdated
  <2>2. CASE calls[c] # NoCall
    <3>1. Outdated(calls)[c] = [calls[c] EXCEPT !.late = TRUE]
      BY <2>2 DEF Outdated
    <3>2. ~(calls[c].project = "none" /\ ~calls[c].own /\ ~calls[c].late)
      BY <1>1, <2>2
    <3> QED
      BY <3>1, <3>2 DEF Call
  <2> QED
    BY <2>1, <2>2
<1>3. Outdated(calls) = [c \in EnableCalls |-> Outdated(calls)[c]]
  BY DEF Outdated
<1> QED
  BY <1>2, <1>3

\* The store has gone to a step.
LEMMA GoneTo ==
  ASSUME ViewInv, WizardTypeOK', NEW step \in 1..5,
         NEW calls \in [EnableCalls -> Call],
         \A c \in EnableCalls :
           /\ calls[c].own => enable[c].own
           /\ calls[c].project = "none" => ~calls[c].own /\ ~calls[c].late,
         GoesTo(step, calls), open' = open, answers'.step = step
  PROVE  ViewInv'
<1> USE DEF ViewInv, WizardTypeOK
<1>1. CASE open /\ step = answers.step
  <2>1. shown' = After(shown) /\ enable' = calls
    BY <1>1 DEF GoesTo
  <2>2. /\ shown'.selected = shown.selected
        /\ shown'.status \in StatusOf(step)
        /\ shown'.checking => shown.checking \/ shown.status \in StatusOf(2)
        /\ shown'.status \in {"enabling", "apiError"} =>
             shown.status \in {"enabling", "apiError"}
    BY <1>1, <2>1, AfterIs
  <2>3. shown'.checking => step = 2
    BY <1>1, <2>2, StatusOfTwo
  <2> QED
    BY <1>1, <2>1, <2>2, <2>3
<1>2. CASE open /\ step # answers.step
  <2>1. PICK l \in Mounted(step) : shown' = After(l)
    BY <1>2 DEF GoesTo
  <2>2. enable' = Disowned(calls)
    BY <1>2 DEF GoesTo
  <2>3. /\ l \in Step /\ l.status \in StatusOf(step)
        /\ l.checking => step = 2
        /\ l.status \notin {"enabling", "apiError"}
    BY MountedIs
  <2>4. shown'.status \in StatusOf(step) /\ (shown'.checking => step = 2)
        /\ shown'.status \notin {"enabling", "apiError"}
    BY <2>1, <2>3, AfterIs, StatusOfTwo
  <2>5. \A c \in EnableCalls :
          /\ ~enable'[c].own
          /\ enable'[c].project = "none" => ~enable'[c].late
    BY <2>2, DisownedIs DEF SameCall
  <2> QED
    BY <1>2, <2>4, <2>5
<1>3. CASE ~open
  <2>1. shown' = shown /\ enable' = Disowned(calls)
    BY <1>3 DEF GoesTo
  <2>2. \A c \in EnableCalls :
          /\ ~enable'[c].own
          /\ enable'[c].project = "none" => ~enable'[c].late
    BY <2>1, DisownedIs DEF SameCall
  <2> QED
    BY <1>3, <2>1, <2>2
<1> QED
  BY <1>1, <1>2, <1>3

-----------------------------------------------------------------------------
(* The wizard: the answers.                                                *)

\* A call that is not late was made after the provider had been chosen.
ChosenBefore ==
  \A c \in EnableCalls :
    enable[c].project # "none" /\ ~enable[c].late => answers.provider

\* What is known of the answers at each step.
AnswerInv ==
  /\ answers.step = 2 => answers.provider
  /\ answers.step >= 3 =>
       answers.project \in enabled /\ (answers.provider \/ answers.late)
  /\ answers.step >= 4 =>
       answers.region # "none" /\ answers.regionFor = answers.project
  /\ answers.step = 5 =>
       answers.machine /\ answers.machineFor = <<answers.project, answers.region>>
  /\ \A d \in Deploys : deploy[d].at # "idle" => Coherent(deploy[d].answers)
  /\ ChosenBefore

WizardInv == ViewInv /\ AnswerInv

\* The types of the new answers and calls.
LEMMA AnswerTypes ==
  ASSUME WizardTypeOK
  PROVE  /\ NoAnswers \in Answers /\ NoAnswers.step = 1
         /\ \A step \in 1..5 : [answers EXCEPT !.step = step] \in Answers
         /\ answers.step \in 1..5
         /\ enabled \subseteq Projects
<1>1. answers \in Answers /\ enabled \subseteq Projects
  BY DEF WizardTypeOK
<1>2. NoAnswers \in Answers /\ NoAnswers.step = 1
  BY DEF Answers, NoAnswers, Project, Region
<1>3. \A step \in 1..5 : [answers EXCEPT !.step = step] \in Answers
  BY <1>1 DEF Answers
<1>4. answers.step \in 1..5
  BY <1>1 DEF Answers
<1> QED
  BY <1>1, <1>2, <1>3, <1>4

LEMMA ShownType ==
  ASSUME WizardTypeOK, NEW step \in 1..5, NEW calls, GoesTo(step, calls),
         calls \in [EnableCalls -> Call]
  PROVE  /\ shown' \in Step
         /\ enable' \in [EnableCalls -> Call]
         /\ \A c \in EnableCalls : SameCall(enable'[c], calls[c])
<1>1. shown' = shown \/ shown' = After(shown)
        \/ \E l \in Mounted(step) : shown' = After(l)
  BY DEF GoesTo
<1>2. enable' = calls \/ enable' = Disowned(calls)
  BY DEF GoesTo
<1> QED
  BY <1>1, <1>2, AfterIs, MountedIs, DisownedIs DEF WizardTypeOK, SameCall

\* Replacing one answer keeps the others.
LEMMA SetStep ==
  ASSUME NEW a \in Answers, NEW v \in 1..5, NEW b, b = [a EXCEPT !.step = v]
  PROVE  /\ b \in Answers /\ b.step = v
         /\ b.provider = a.provider
         /\ b.project = a.project
         /\ b.region = a.region
         /\ b.machine = a.machine
         /\ b.regionFor = a.regionFor
         /\ b.machineFor = a.machineFor
         /\ b.late = a.late
  BY DEF Answers

LEMMA SetProvider ==
  ASSUME NEW a \in Answers, NEW v \in BOOLEAN, NEW b, b = [a EXCEPT !.provider = v]
  PROVE  /\ b \in Answers /\ b.provider = v
         /\ b.step = a.step
         /\ b.project = a.project
         /\ b.region = a.region
         /\ b.machine = a.machine
         /\ b.regionFor = a.regionFor
         /\ b.machineFor = a.machineFor
         /\ b.late = a.late
  BY DEF Answers

LEMMA SetProject ==
  ASSUME NEW a \in Answers, NEW v \in Project, NEW b, b = [a EXCEPT !.project = v]
  PROVE  /\ b \in Answers /\ b.project = v
         /\ b.step = a.step
         /\ b.provider = a.provider
         /\ b.region = a.region
         /\ b.machine = a.machine
         /\ b.regionFor = a.regionFor
         /\ b.machineFor = a.machineFor
         /\ b.late = a.late
  BY DEF Answers

LEMMA SetRegion ==
  ASSUME NEW a \in Answers, NEW v \in Region, NEW b, b = [a EXCEPT !.region = v]
  PROVE  /\ b \in Answers /\ b.region = v
         /\ b.step = a.step
         /\ b.provider = a.provider
         /\ b.project = a.project
         /\ b.machine = a.machine
         /\ b.regionFor = a.regionFor
         /\ b.machineFor = a.machineFor
         /\ b.late = a.late
  BY DEF Answers

LEMMA SetMachine ==
  ASSUME NEW a \in Answers, NEW b, b = [a EXCEPT !.machine = TRUE]
  PROVE  /\ b \in Answers /\ b.machine
         /\ b.step = a.step
         /\ b.provider = a.provider
         /\ b.project = a.project
         /\ b.region = a.region
         /\ b.regionFor = a.regionFor
         /\ b.machineFor = a.machineFor
         /\ b.late = a.late
  BY DEF Answers

LEMMA SetRegionFor ==
  ASSUME NEW a \in Answers, NEW v \in Project, NEW b, b = [a EXCEPT !.regionFor = v]
  PROVE  /\ b \in Answers /\ b.regionFor = v
         /\ b.step = a.step
         /\ b.provider = a.provider
         /\ b.project = a.project
         /\ b.region = a.region
         /\ b.machine = a.machine
         /\ b.machineFor = a.machineFor
         /\ b.late = a.late
  BY DEF Answers

LEMMA SetMachineFor ==
  ASSUME NEW a \in Answers, NEW v \in Project \X Region, NEW b,
         b = [a EXCEPT !.machineFor = v]
  PROVE  /\ b \in Answers /\ b.machineFor = v
         /\ b.step = a.step
         /\ b.provider = a.provider
         /\ b.project = a.project
         /\ b.region = a.region
         /\ b.machine = a.machine
         /\ b.regionFor = a.regionFor
         /\ b.late = a.late
  BY DEF Answers

LEMMA SetLate ==
  ASSUME NEW a \in Answers, NEW v \in BOOLEAN, NEW b, b = [a EXCEPT !.late = v]
  PROVE  /\ b \in Answers /\ b.late = v
         /\ b.step = a.step
         /\ b.provider = a.provider
         /\ b.project = a.project
         /\ b.region = a.region
         /\ b.machine = a.machine
         /\ b.regionFor = a.regionFor
         /\ b.machineFor = a.machineFor
  BY DEF Answers

LEMMA StepKnown ==
  ASSUME WizardInv
  PROVE  /\ answers \in Answers
         /\ answers.step \in 1..5
         /\ answers.project \in Project /\ answers.region \in Region
         /\ open => shown.status \in StatusOf(answers.step)
  BY DEF WizardInv, ViewInv, WizardTypeOK, Answers

LEMMA ProviderStep ==
  ASSUME WizardInv, open, SelectProvider
  PROVE  WizardInv'
<1> DEFINE a == [answers EXCEPT !.provider = TRUE, !.step = 2]
<1>1. answers' = a /\ GoesTo(2, enable) /\ UNCHANGED <<open, deploy, enabled>>
  BY DEF SelectProvider
<1>2. a \in Answers /\ a.step = 2 /\ a.provider
  <2> DEFINE b == [answers EXCEPT !.provider = TRUE]
  <2>1. b \in Answers /\ b.provider
    BY StepKnown, SetProvider
  <2>2. a = [b EXCEPT !.step = 2]
    OBVIOUS
  <2> HIDE DEF a, b
  <2> QED
    BY <2>1, <2>2, SetStep
<1> HIDE DEF a
<1>3. WizardTypeOK'
  BY <1>1, <1>2, ShownType DEF WizardInv, ViewInv, WizardTypeOK
<1>4. ViewInv'
  BY <1>1, <1>2, <1>3, GoneTo DEF WizardInv, ViewInv, WizardTypeOK
<1>5. AnswerInv'
  BY <1>1, <1>2 DEF WizardInv, AnswerInv, ChosenBefore, Coherent
<1> QED
  BY <1>4, <1>5 DEF WizardInv

LEMMA BackStep ==
  ASSUME WizardInv, UNCHANGED <<open, deploy, enabled>>,
         \/ answers' = NoAnswers /\ GoesTo(1, Outdated(enable))
         \/ answers' = [answers EXCEPT !.step = 1] /\ GoesTo(1, enable)
  PROVE  WizardInv'
<1> DEFINE typed(calls) ==
             /\ calls \in [EnableCalls -> Call]
             /\ \A c \in EnableCalls :
                  /\ calls[c].own => enable[c].own
                  /\ calls[c].project = "none" => ~calls[c].own /\ ~calls[c].late
<1>1. /\ answers \in Answers /\ typed(enable)
      /\ ChosenBefore
  BY DEF WizardInv, ViewInv, WizardTypeOK, AnswerInv
<1>2. typed(Outdated(enable))
  BY <1>1, OutdatedIs
<1>3. PICK calls : typed(calls) /\ GoesTo(1, calls)
  BY <1>1, <1>2
<1>4. answers' \in Answers /\ answers'.step = 1
  BY <1>1, AnswerTypes, SetStep DEF WizardInv, ViewInv
<1>5. WizardTypeOK'
  BY <1>3, <1>4, ShownType DEF WizardInv, ViewInv, WizardTypeOK
<1>6. ViewInv'
  BY <1>3, <1>4, <1>5, GoneTo DEF WizardInv
<1>7. ChosenBefore'
  <2>1. CASE answers' = NoAnswers /\ GoesTo(1, Outdated(enable))
    <3>1. \A c \in EnableCalls : SameCall(enable'[c], Outdated(enable)[c])
      BY <1>2, <2>1, ShownType DEF WizardInv, ViewInv
    <3>2. \A c \in EnableCalls : enable'[c].project # "none" => enable'[c].late
      BY <1>1, <3>1, OutdatedIs DEF SameCall
    <3> QED
      BY <3>2 DEF ChosenBefore
  <2>2. CASE answers' = [answers EXCEPT !.step = 1] /\ GoesTo(1, enable)
    <3>1. \A c \in EnableCalls : SameCall(enable'[c], enable[c])
      BY <1>1, <2>2, ShownType DEF WizardInv, ViewInv
    <3>2. answers'.provider = answers.provider
      BY <1>1, <2>2, SetStep
    <3> QED
      BY <1>1, <3>1, <3>2 DEF ChosenBefore, SameCall
  <2> QED
    BY <2>1, <2>2
<1>8. AnswerInv'
  BY <1>4, <1>7 DEF WizardInv, AnswerInv, Coherent
<1> QED
  BY <1>6, <1>8 DEF WizardInv

LEMMA RegionStep ==
  ASSUME WizardInv, open, NEW region \in Regions, SelectRegion(region)
  PROVE  WizardInv'
<1> DEFINE a == [answers EXCEPT !.region = region, !.step = 4,
                                !.regionFor = answers.project]
<1>1. answers' = a /\ GoesTo(4, enable) /\ UNCHANGED <<open, deploy, enabled>>
  BY DEF SelectRegion
<1>2. answers \in Answers /\ answers.step = 3
  BY StepKnown, StatusOfThree DEF SelectRegion
<1>3. /\ a \in Answers /\ a.step = 4 /\ a.project = answers.project
      /\ a.provider = answers.provider /\ a.late = answers.late
      /\ a.region = region /\ a.regionFor = answers.project
  <2> DEFINE b == [answers EXCEPT !.region = region]
             c == [b EXCEPT !.step = 4]
  <2>1. /\ b \in Answers /\ b.project = answers.project /\ b.region = region
        /\ b.provider = answers.provider /\ b.late = answers.late
    BY StepKnown, SetRegion DEF Region
  <2>2. a = [c EXCEPT !.regionFor = answers.project]
    OBVIOUS
  <2> HIDE DEF a, b
  <2>3. /\ c \in Answers /\ c.step = 4
        /\ c.project = answers.project /\ c.region = region
        /\ c.provider = answers.provider /\ c.late = answers.late
    BY <2>1, SetStep
  <2> HIDE DEF c
  <2> QED
    BY <2>2, <2>3, StepKnown, SetRegionFor
<1> HIDE DEF a
<1>4. WizardTypeOK'
  BY <1>1, <1>3, ShownType DEF WizardInv, ViewInv, WizardTypeOK
<1>5. ViewInv'
  BY <1>1, <1>3, <1>4, GoneTo DEF WizardInv, ViewInv, WizardTypeOK
<1>6. AnswerInv'
  <2>1. \A c \in EnableCalls : SameCall(enable'[c], enable[c])
    BY <1>1, ShownType DEF WizardInv, ViewInv, WizardTypeOK
  <2>2. ChosenBefore'
    BY <2>1, <1>1, <1>3 DEF WizardInv, AnswerInv, ChosenBefore, SameCall
  <2> QED
    BY <1>1, <1>2, <1>3, <2>2, WizardAssumption DEF WizardInv, AnswerInv, Coherent
<1> QED
  BY <1>5, <1>6 DEF WizardInv

LEMMA MachineStep ==
  ASSUME WizardInv, open, shown.status \in StatusOf(4),
         answers' = [answers EXCEPT !.machine = TRUE, !.step = 5,
                       !.machineFor = <<answers.project, answers.region>>],
         GoesTo(5, enable), UNCHANGED <<open, deploy, enabled>>
  PROVE  WizardInv'
<1>1. answers \in Answers /\ answers.step = 4
  BY StepKnown, StatusOfThree
<1>2. /\ answers' \in Answers /\ answers'.step = 5
      /\ answers'.provider = answers.provider /\ answers'.late = answers.late
      /\ answers'.project = answers.project /\ answers'.region = answers.region
      /\ answers'.regionFor = answers.regionFor /\ answers'.machine
      /\ answers'.machineFor = <<answers.project, answers.region>>
  <2> DEFINE b == [answers EXCEPT !.machine = TRUE]
             c == [b EXCEPT !.step = 5]
  <2>1. /\ b \in Answers /\ b.machine
        /\ b.provider = answers.provider /\ b.late = answers.late
        /\ b.project = answers.project /\ b.region = answers.region
        /\ b.regionFor = answers.regionFor
    <3>1. b = [answers EXCEPT !.machine = TRUE]
      OBVIOUS
    <3> HIDE DEF b
    <3>2. answers \in Answers
      BY <1>1
    <3> QED
      BY <3>1, <3>2, SetMachine, Zenon
  <2>2. answers' = [c EXCEPT !.machineFor = <<answers.project, answers.region>>]
    OBVIOUS
  <2> HIDE DEF b
  <2>3. /\ c \in Answers /\ c.step = 5 /\ c.machine
        /\ c.provider = answers.provider /\ c.late = answers.late
        /\ c.project = answers.project /\ c.region = answers.region
        /\ c.regionFor = answers.regionFor
    BY <2>1, SetStep
  <2> DEFINE v == <<answers.project, answers.region>>
  <2>4. v \in Project \X Region
    BY StepKnown
  <2> DEFINE e == [c EXCEPT !.machineFor = v]
  <2>5. answers' = e
    BY <2>2
  <2>6. e = [c EXCEPT !.machineFor = v]
    OBVIOUS
  <2> HIDE DEF b, c, v, e
  <2>7. c \in Answers
    BY <2>3
  <2>8. /\ e \in Answers /\ e.machineFor = v /\ e.step = c.step
        /\ e.provider = c.provider /\ e.late = c.late
        /\ e.project = c.project /\ e.region = c.region
        /\ e.machine = c.machine /\ e.regionFor = c.regionFor
    BY <2>7, <2>4, <2>6, SetMachineFor
  <2>9. /\ e \in Answers /\ e.step = 5 /\ e.machine
        /\ e.provider = answers.provider /\ e.late = answers.late
        /\ e.project = answers.project /\ e.region = answers.region
        /\ e.regionFor = answers.regionFor
        /\ e.machineFor = <<answers.project, answers.region>>
    BY <2>3, <2>8 DEF v
  <2> QED
    BY Zenon, <2>5, <2>9
<1>3. WizardTypeOK'
  BY <1>2, ShownType DEF WizardInv, ViewInv, WizardTypeOK
<1>4. ViewInv'
  BY <1>2, <1>3, GoneTo DEF WizardInv, ViewInv, WizardTypeOK
<1>5. AnswerInv'
  <2>1. \A c \in EnableCalls : SameCall(enable'[c], enable[c])
    BY ShownType DEF WizardInv, ViewInv, WizardTypeOK
  <2>2. ChosenBefore'
    BY <1>2, <2>1 DEF WizardInv, AnswerInv, ChosenBefore, SameCall
  <2> QED
    BY <1>1, <1>2, <2>2 DEF WizardInv, AnswerInv, Coherent
<1> QED
  BY <1>4, <1>5 DEF WizardInv

\* Steps that change the local state of the step mounted, and no answer.
LEMMA InPlace ==
  ASSUME WizardInv, NEW l \in Step, shown' = l \/ shown' = After(l), open,
         l.status \in StatusOf(answers.step),
         l.checking => shown.checking,
         l.status \in {"enabling", "apiError"} => l.selected \in Projects,
         l.selected = shown.selected \/ l.selected \in Projects,
         UNCHANGED <<open, answers, enable, deploy, enabled>>
  PROVE  WizardInv'
<1>1. answers.step \in 1..5
  BY AnswerTypes DEF WizardInv, ViewInv
<1>2. /\ shown' \in Step
      /\ shown'.selected = l.selected
      /\ shown'.status \in StatusOf(answers.step)
      /\ shown'.checking => l.checking \/ l.status \in StatusOf(2)
      /\ shown'.status \in {"enabling", "apiError"} =>
           l.status \in {"enabling", "apiError"}
  BY <1>1, AfterIs
<1>3. shown'.checking => answers.step = 2
  BY <1>1, <1>2, StatusOfTwo DEF WizardInv, ViewInv
<1>4. ViewInv'
  BY <1>2, <1>3 DEF WizardInv, ViewInv, WizardTypeOK
<1>5. AnswerInv'
  BY DEF WizardInv, AnswerInv, ChosenBefore, Coherent
<1> QED
  BY <1>4, <1>5 DEF WizardInv

LEMMA EnableStep ==
  ASSUME WizardInv, open, answers.step = 2, NEW project \in Projects,
         EnableProjectApis(project)
  PROVE  WizardInv'
<1> DEFINE l == [shown EXCEPT !.status = "enabling", !.selected = project]
<1>1. PICK c \in EnableCalls :
        /\ enable' = [enable EXCEPT ![c] =
                       [project |-> project, own |-> TRUE, late |-> FALSE]]
        /\ shown' = After(l)
        /\ UNCHANGED <<open, answers, deploy, enabled>>
  BY DEF EnableProjectApis
<1>2. l \in Step /\ l.status = "enabling" /\ l.selected = project
  BY DEF Step, Project, WizardInv, ViewInv, WizardTypeOK
<1> HIDE DEF l
<1>3. /\ shown' \in Step /\ shown'.status = "enabling"
      /\ shown'.selected = project
  BY <1>1, <1>2, AfterIs
<1>4. /\ enable' \in [EnableCalls -> Call]
      /\ \A d \in EnableCalls :
           enable'[d].project = "none" => ~enable'[d].own /\ ~enable'[d].late
  BY <1>1, WizardAssumption DEF WizardInv, ViewInv, WizardTypeOK, Project, Call
<1>5. ViewInv'
  BY <1>1, <1>3, <1>4, StatusOfTwo DEF WizardInv, ViewInv, WizardTypeOK
<1>6. AnswerInv'
  <2>1. answers'.provider
    BY <1>1 DEF WizardInv, AnswerInv
  <2> QED
    BY <1>1, <2>1 DEF WizardInv, AnswerInv, ChosenBefore, Coherent
<1> QED
  BY <1>5, <1>6 DEF WizardInv

LEMMA SubmitStep ==
  ASSUME WizardInv, open, SubmitDeploy
  PROVE  WizardInv'
<1>1. PICK d \in Deploys :
        deploy' = [deploy EXCEPT ![d] = [at |-> "running", answers |-> answers]]
  BY DEF SubmitDeploy
<1>2. /\ shown' = After(shown) /\ UNCHANGED <<open, answers, enable, enabled>>
      /\ answers.step = 5 /\ answers \in Answers
  BY StepKnown, StatusOfThree DEF SubmitDeploy
<1>3. Coherent(answers)
  BY <1>2 DEF WizardInv, AnswerInv, Coherent
<1>4. /\ shown' \in Step /\ shown'.status = "confirm" /\ ~shown'.checking
  BY <1>2, AfterIs, StatusOfTwo, StatusOfThree
     DEF SubmitDeploy, WizardInv, ViewInv, WizardTypeOK
<1>5. deploy' \in [Deploys -> [at : {"idle", "running", "closing"}, answers : Answers]]
  BY <1>1, <1>2 DEF WizardInv, ViewInv, WizardTypeOK
<1>6. ViewInv'
  BY <1>2, <1>4, <1>5, StatusOfThree DEF WizardInv, ViewInv, WizardTypeOK
<1>7. \A e \in Deploys : deploy'[e].at # "idle" => Coherent(deploy'[e].answers)
  BY <1>1, <1>3 DEF WizardInv, ViewInv, WizardTypeOK, AnswerInv
<1>8. AnswerInv'
  BY <1>2, <1>7 DEF WizardInv, AnswerInv, ChosenBefore, Coherent
<1> QED
  BY <1>6, <1>8 DEF WizardInv

LEMMA WizardEnterStep ==
  ASSUME WizardInv, open, WizardEnter
  PROVE  WizardInv'
<1>1. shown \in Step /\ answers.step \in 1..5 /\ shown.status \in StatusOf(answers.step)
  BY StepKnown DEF WizardInv, ViewInv, WizardTypeOK
<1>2. CASE SelectProject
  <2>1. CASE shown.status \in {"loaded", "apiError"}
    <3>1. answers.step = 2
      BY <1>1, <2>1, StatusOfThree, StatusOfTwo
    <3>2. shown.status = "apiError" => shown.selected \in Projects
      BY DEF WizardInv, ViewInv
    <3>3. CASE answers' = [answers EXCEPT !.step = 1] /\ GoesTo(1, enable)
               /\ UNCHANGED <<open, deploy, enabled>>
      BY <3>3, BackStep
    <3> QED
      BY <1>2, <3>1, <3>2, <3>3, EnableStep DEF SelectProject
  <2> QED
    BY <1>2, <2>1 DEF SelectProject
<1>3. CASE SelectInstance
  <2>1. CASE /\ shown.status = "select"
             /\ shown' = After([shown EXCEPT !.status = "loading"])
             /\ UNCHANGED <<open, answers, enable, deploy, enabled>>
    <3> DEFINE l == [shown EXCEPT !.status = "loading"]
    <3>1. /\ l \in Step /\ l.status = "loading" /\ l.selected = shown.selected
          /\ l.checking = shown.checking
      BY <1>1 DEF Step
    <3>2. "loading" \in StatusOf(answers.step)
      BY <1>1, <2>1 DEF StatusOf
    <3>3. shown' = After(l)
      BY <2>1
    <3> HIDE DEF l
    <3> QED
      BY <2>1, <3>1, <3>2, <3>3, InPlace
  <2>2. shown.status \in {"select", "dynamic"} => shown.status \in StatusOf(4)
    BY DEF StatusOf
  <2> QED
    BY <1>3, <2>1, <2>2, MachineStep DEF SelectInstance
<1>4. CASE NothingToSelect
  BY <1>1, <1>4, InPlace DEF NothingToSelect, WizardInv, ViewInv
<1> QED
  BY <1>2, <1>3, <1>4, ProviderStep, RegionStep, SubmitStep DEF WizardEnter

LEMMA OpenStep ==
  ASSUME WizardInv, ~open, OpenWizard
  PROVE  WizardInv'
<1>1. PICK l \in Mounted(answers.step) : shown' = l
  BY DEF OpenWizard
<1>2. /\ l \in Step /\ l.status \in StatusOf(answers.step)
      /\ l.checking => answers.step = 2
      /\ l.status \notin {"enabling", "apiError"}
  BY StepKnown, MountedIs
<1>3. ViewInv'
  BY <1>1, <1>2 DEF OpenWizard, WizardInv, ViewInv, WizardTypeOK
<1>4. AnswerInv'
  BY DEF OpenWizard, WizardInv, AnswerInv, ChosenBefore, Coherent
<1> QED
  BY <1>3, <1>4 DEF WizardInv

\* The local state changes, and the projects of the calls do not.
LEMMA ViewChange ==
  ASSUME WizardInv, shown' \in Step, open,
         shown'.status \in StatusOf(answers.step),
         shown'.checking => shown.checking,
         shown'.selected = shown.selected,
         shown'.status \in {"enabling", "apiError"} => shown.selected \in Projects,
         \/ enable' = enable
         \/ \E c \in EnableCalls : enable' = [enable EXCEPT ![c] = NoCall],
         UNCHANGED <<open, answers, deploy, enabled>>
  PROVE  WizardInv'
<1>1. enable' \in [EnableCalls -> Call]
  <2>1. enable \in [EnableCalls -> Call]
    BY DEF WizardInv, ViewInv, WizardTypeOK
  <2>2. NoCall \in Call
    BY DEF NoCall, Project, Call
  <2> QED
    BY <2>1, <2>2
<1>2. \A c \in EnableCalls : enable'[c] = enable[c] \/ enable'[c] = NoCall
  BY DEF WizardInv, ViewInv, WizardTypeOK
<1>3. \A c \in EnableCalls :
        /\ enable'[c].own => enable[c].own
        /\ enable'[c].project = "none" => ~enable'[c].own /\ ~enable'[c].late
  BY <1>2 DEF WizardInv, ViewInv, NoCall
<1>4. ViewInv'
  BY <1>1, <1>3 DEF WizardInv, ViewInv, WizardTypeOK
<1>5. AnswerInv'
  BY <1>2 DEF WizardInv, AnswerInv, ChosenBefore, Coherent, NoCall
<1> QED
  BY <1>4, <1>5 DEF WizardInv

LEMMA LoadingStep ==
  ASSUME WizardInv, AuthChecked \/ LatencyMeasured \/ CatalogLoaded
  PROVE  WizardInv'
<1>1. shown \in Step /\ answers.step \in 1..5
  BY StepKnown DEF WizardInv, ViewInv, WizardTypeOK
<1>2. open /\ shown.status \in StatusOf(answers.step)
  BY DEF WizardInv, ViewInv, AuthChecked, LatencyMeasured, CatalogLoaded
<1>3. CASE AuthChecked
  <2>1. PICK status \in {"loaded", "error"} :
          shown' = [shown EXCEPT !.status = status, !.checking = FALSE]
    BY <1>3 DEF AuthChecked
  <2>2. /\ shown' \in Step /\ shown'.status = status /\ ~shown'.checking
        /\ shown'.selected = shown.selected
    BY <1>1, <2>1 DEF Step
  <2>3. answers.step = 2 /\ status \in StatusOf(2)
    BY <1>3 DEF AuthChecked, WizardInv, ViewInv, StatusOf
  <2> QED
    BY <1>2, <1>3, <2>2, <2>3, ViewChange DEF AuthChecked
<1>4. CASE LatencyMeasured
  <2>1. /\ shown' \in Step /\ shown'.status = "regions"
        /\ shown'.checking = shown.checking /\ shown'.selected = shown.selected
    BY <1>1, <1>4 DEF LatencyMeasured, Step
  <2>2. "regions" \in StatusOf(answers.step)
    BY <1>1, <1>2, <1>4 DEF LatencyMeasured, StatusOf
  <2> QED
    BY <1>2, <1>4, <2>1, <2>2, ViewChange DEF LatencyMeasured
<1>5. CASE CatalogLoaded
  <2>1. /\ shown' \in Step /\ shown'.status = "dynamic"
        /\ shown'.checking = shown.checking /\ shown'.selected = shown.selected
    <3>1. PICK catalog \in BOOLEAN :
            shown' = [shown EXCEPT !.status = "dynamic", !.catalog = @ \/ catalog]
      BY <1>5 DEF CatalogLoaded
    <3>2. (shown.catalog \/ catalog) \in BOOLEAN
      OBVIOUS
    <3> DEFINE b == shown.catalog \/ catalog
    <3>3. b \in BOOLEAN /\ shown' = [shown EXCEPT !.status = "dynamic", !.catalog = b]
      BY <3>1, <3>2
    <3> DEFINE l == [shown EXCEPT !.status = "dynamic"]
    <3>4. /\ l \in Step /\ l.status = "dynamic"
          /\ l.checking = shown.checking /\ l.selected = shown.selected
      BY <1>1 DEF Step
    <3>5. shown' = [l EXCEPT !.catalog = b]
      BY <3>3
    <3> HIDE DEF b, l
    <3> QED
      BY <3>3, <3>4, <3>5 DEF Step
  <2>2. "dynamic" \in StatusOf(answers.step)
    <3>1. "loading" \in StatusOf(4) /\ "dynamic" \in StatusOf(4)
      BY DEF StatusOf
    <3> QED
      BY <1>1, <1>2, <1>5, <3>1, StatusOfThree DEF CatalogLoaded
  <2> QED
    BY <1>2, <1>5, <2>1, <2>2, ViewChange DEF CatalogLoaded
<1> QED
  BY <1>3, <1>4, <1>5

LEMMA EnabledStep ==
  ASSUME WizardInv, NEW c \in EnableCalls, EnableSucceeds(c)
  PROVE  WizardInv'
<1> DEFINE project == enable[c].project
           late    == answers.late \/ enable[c].late
           b       == [answers EXCEPT !.project = project]
           b3      == [b EXCEPT !.step = 3]
           calls   == [enable EXCEPT ![c] = NoCall]
<1>1. /\ enable[c] # NoCall
      /\ answers' = [b3 EXCEPT !.late = late]
      /\ GoesTo(3, calls)
      /\ enabled' = enabled \union {project}
      /\ UNCHANGED <<open, deploy>>
  <2>1. answers' = [answers EXCEPT !.project = project, !.step = 3, !.late = late]
    BY StepKnown DEF EnableSucceeds, Answers
  <2>2. [answers EXCEPT !.project = project, !.step = 3, !.late = late]
          = [b3 EXCEPT !.late = late]
    OBVIOUS
  <2> QED
    BY <2>1, <2>2 DEF EnableSucceeds
<1>2. project \in Projects
  <2>1. enable[c] \in Call
    BY DEF WizardInv, ViewInv, WizardTypeOK
  <2>2. /\ enable[c].project = "none" => ~enable[c].own
        /\ enable[c].project = "none" => ~enable[c].late
    BY DEF WizardInv, ViewInv
  <2> QED
    BY <1>1, <2>1, <2>2 DEF NoCall, Project, Call
<1>3. /\ calls \in [EnableCalls -> Call]
      /\ \A d \in EnableCalls : calls[d] = enable[d] \/ calls[d] = NoCall
  BY DEF WizardInv, ViewInv, WizardTypeOK, NoCall, Project, Call
<1>4. \A d \in EnableCalls :
        /\ calls[d].own => enable[d].own
        /\ calls[d].project = "none" => ~calls[d].own /\ ~calls[d].late
  BY <1>3 DEF WizardInv, ViewInv, NoCall
<1>5. b \in Answers /\ b.project = project /\ b.provider = answers.provider
  BY <1>2, StepKnown, SetProject DEF Project
<1>6. late \in BOOLEAN
  OBVIOUS
<1> HIDE DEF project, b, calls, late
<1>7. /\ b3 \in Answers /\ b3.step = 3 /\ b3.project = project
      /\ b3.provider = answers.provider
  BY <1>5, SetStep
<1> HIDE DEF b3
<1>8. /\ answers' \in Answers /\ answers'.step = 3 /\ answers'.project = project
      /\ answers'.provider = answers.provider /\ answers'.late = late
  BY <1>1, <1>6, <1>7, SetLate
<1>9. WizardTypeOK'
  BY <1>1, <1>2, <1>3, <1>8, ShownType DEF WizardInv, ViewInv, WizardTypeOK
<1>10. ViewInv'
  BY <1>1, <1>3, <1>4, <1>8, <1>9, GoneTo DEF WizardInv
<1>11. ChosenBefore /\ (answers.provider \/ late)
  BY <1>2, WizardAssumption DEF WizardInv, AnswerInv, ChosenBefore, late, project
<1>12. ChosenBefore'
  <2>1. \A d \in EnableCalls : SameCall(enable'[d], calls[d])
    BY <1>1, <1>3, ShownType DEF WizardInv, ViewInv
  <2>2. \A d \in EnableCalls :
          enable'[d].project # "none" =>
            /\ enable[d].project # "none"
            /\ enable'[d].late = enable[d].late
    BY <1>3, <2>1 DEF SameCall, NoCall
  <2> QED
    BY <1>8, <1>11, <2>2 DEF ChosenBefore
<1>13. AnswerInv'
  BY <1>1, <1>8, <1>11, <1>12 DEF WizardInv, AnswerInv, Coherent
<1> QED
  BY <1>10, <1>13 DEF WizardInv

LEMMA FailedStep ==
  ASSUME WizardInv, NEW c \in EnableCalls, EnableFails(c)
  PROVE  WizardInv'
<1>1. shown \in Step /\ answers.step \in 1..5
  BY StepKnown DEF WizardInv, ViewInv, WizardTypeOK
<1>2. CASE enable[c].own
  <2>1. /\ shown' \in Step /\ shown'.status = "apiError"
        /\ shown'.checking = shown.checking /\ shown'.selected = shown.selected
    BY <1>1, <1>2 DEF EnableFails, Step
  <2>2. open /\ answers.step = 2 /\ shown.selected \in Projects
    BY <1>2 DEF WizardInv, ViewInv
  <2> QED
    BY <2>1, <2>2, ViewChange, StatusOfTwo DEF EnableFails
<1>3. CASE ~enable[c].own /\ open
  <2>1. shown.status \in StatusOf(answers.step)
        /\ (shown.status \in {"enabling", "apiError"} => shown.selected \in Projects)
    BY <1>3 DEF WizardInv, ViewInv
  <2> QED
    BY <1>1, <1>3, <2>1, ViewChange DEF EnableFails
<1>4. CASE ~open
  <2>1. shown' = shown /\ UNCHANGED <<open, answers, deploy, enabled>>
    BY <1>4 DEF EnableFails, WizardInv, ViewInv
  <2>2. /\ enable' \in [EnableCalls -> Call]
        /\ \A d \in EnableCalls : enable'[d] = enable[d] \/ enable'[d] = NoCall
    BY DEF EnableFails, WizardInv, ViewInv, WizardTypeOK, NoCall, Project, Call
  <2>3. \A d \in EnableCalls :
          /\ ~enable'[d].own
          /\ enable'[d].project = "none" => ~enable'[d].late
    BY <1>4, <2>2 DEF WizardInv, ViewInv, NoCall
  <2>4. ViewInv'
    BY <1>4, <2>1, <2>2, <2>3 DEF WizardInv, ViewInv, WizardTypeOK
  <2>5. AnswerInv'
    BY <2>1, <2>2 DEF WizardInv, AnswerInv, ChosenBefore, Coherent, NoCall
  <2> QED
    BY <2>4, <2>5 DEF WizardInv
<1> QED
  BY <1>2, <1>3, <1>4

\* A deployment fails, or goes on to close the wizard: it keeps the answers it took.
LEMMA DeployStep ==
  ASSUME WizardInv, NEW d \in Deploys, DeployFails(d) \/ DeploySucceeds(d)
  PROVE  WizardInv'
<1>1. /\ UNCHANGED <<open, answers, enable, enabled>>
      /\ shown' = shown \/ shown' = After(shown)
  BY DEF DeployFails, DeploySucceeds
<1>2. /\ shown \in Step /\ answers.step \in 1..5
      /\ deploy \in [Deploys -> [at : {"idle", "running", "closing"},
                                 answers : Answers]]
  BY StepKnown DEF WizardInv, ViewInv, WizardTypeOK
<1>3. deploy' \in [Deploys -> [at : {"idle", "running", "closing"},
                               answers : Answers]]
  <2>1. NoDeploy \in [at : {"idle", "running", "closing"}, answers : Answers]
    BY AnswerTypes DEF NoDeploy, WizardInv, ViewInv
  <2> QED
    BY <1>2, <2>1 DEF DeployFails, DeploySucceeds
<1>4. ASSUME NEW e \in Deploys, deploy'[e].at # "idle"
      PROVE  deploy[e].at # "idle" /\ deploy'[e].answers = deploy[e].answers
  BY <1>2, <1>4 DEF DeployFails, DeploySucceeds, NoDeploy
<1>5. AnswerInv'
  BY <1>1, <1>4 DEF WizardInv, AnswerInv, ChosenBefore, Coherent
<1>6. /\ shown' \in Step /\ shown'.selected = shown.selected
      /\ shown'.checking => shown.checking \/ shown.status \in StatusOf(2)
      /\ shown.status # "dynamic" => shown'.status = shown.status
      /\ shown.status = "dynamic" => shown'.status \in {"dynamic", "loading"}
      /\ shown.status \in StatusOf(answers.step) =>
           shown'.status \in StatusOf(answers.step)
  BY <1>1, <1>2, AfterIs
<1>7. CASE open
  <2>1. shown.status \in StatusOf(answers.step)
    BY <1>7, StepKnown
  <2>2. shown'.checking => answers.step = 2
    BY <1>2, <1>6, <2>1, StatusOfTwo DEF WizardInv, ViewInv
  <2>3. ViewInv'
    BY <1>1, <1>3, <1>6, <1>7, <2>1, <2>2 DEF WizardInv, ViewInv, WizardTypeOK
  <2> QED
    BY <1>5, <2>3 DEF WizardInv
<1>8. CASE ~open
  <2>1. shown.status = "none" /\ ~shown.checking
    BY <1>8 DEF WizardInv, ViewInv
  <2>2. shown'.status = "none" /\ ~shown'.checking
    BY <1>6, <2>1, StatusOfTwo
  <2>3. ViewInv'
    BY <1>1, <1>3, <1>6, <1>8, <2>2 DEF WizardInv, ViewInv, WizardTypeOK
  <2> QED
    BY <1>5, <2>3 DEF WizardInv
<1> QED
  BY <1>7, <1>8

LEMMA CloseStep ==
  ASSUME WizardInv, NEW d \in Deploys, WizardCloses(d)
  PROVE  WizardInv'
<1>1. /\ NoAnswers \in Answers /\ NoAnswers.step = 1
      /\ enable \in [EnableCalls -> Call]
      /\ deploy \in [Deploys -> [at : {"idle", "running", "closing"},
                                 answers : Answers]]
      /\ enabled \subseteq Projects
  BY AnswerTypes DEF WizardInv, ViewInv, WizardTypeOK
<1>2. deploy' \in [Deploys -> [at : {"idle", "running", "closing"},
                               answers : Answers]]
  BY <1>1 DEF WizardCloses, NoDeploy
<1>3. ASSUME NEW e \in Deploys, deploy'[e].at # "idle"
      PROVE  deploy[e].at # "idle" /\ deploy'[e].answers = deploy[e].answers
  BY <1>1, <1>3 DEF WizardCloses, NoDeploy
<1>4. /\ answers' = NoAnswers /\ ~open' /\ shown' = StepIn("none")
      /\ open' \in BOOLEAN /\ enable' = Disowned(Outdated(enable))
      /\ enabled' = enabled
  BY DEF WizardCloses
<1>5. StepIn("none") \in Step /\ StepIn("none").status = "none"
        /\ ~StepIn("none").checking
  BY DEF StepIn, Step, Project
<1>6. /\ enable' \in [EnableCalls -> Call]
      /\ \A c \in EnableCalls :
           /\ ~enable'[c].own
           /\ enable'[c].project = "none" => ~enable'[c].late
           /\ enable'[c].project # "none" => enable'[c].late
  <2> DEFINE calls == Outdated(enable)
  <2>1. \A c \in EnableCalls :
          enable[c].project = "none" => ~enable[c].own /\ ~enable[c].late
    BY DEF WizardInv, ViewInv
  <2>2. /\ calls \in [EnableCalls -> Call]
        /\ \A c \in EnableCalls :
             /\ calls[c].project = "none" => ~calls[c].late
             /\ calls[c].project # "none" => calls[c].late
    BY <1>1, <2>1, OutdatedIs
  <2>3. enable' = Disowned(calls)
    BY <1>4
  <2> HIDE DEF calls
  <2> QED
    BY <2>2, <2>3, DisownedIs DEF SameCall
<1>7. ViewInv'
  BY <1>1, <1>2, <1>4, <1>5, <1>6 DEF ViewInv, WizardTypeOK
<1>8. AnswerInv'
  BY <1>1, <1>3, <1>4, <1>6 DEF WizardInv, AnswerInv, ChosenBefore, Coherent
<1> QED
  BY <1>7, <1>8 DEF WizardInv

LEMMA WizardInvStep ==
  ASSUME WizardInv, [ShellNext]_shellVars
  PROVE  WizardInv'
<1>1. UNCHANGED wizardVars => WizardInv'
  BY DEF wizardVars, WizardInv, ViewInv, WizardTypeOK, AnswerInv, ChosenBefore,
         Coherent
<1>2. open /\ ResetWizard => WizardInv'
  BY BackStep DEF ResetWizard
<1> QED
  BY <1>1, <1>2, WizardStepOf, WizardEnterStep, OpenStep, LoadingStep, EnabledStep,
     FailedStep, DeployStep, CloseStep DEF WizardStep

LEMMA WizardInvInit == WizardInit => WizardInv
<1> SUFFICES ASSUME WizardInit PROVE WizardInv
  OBVIOUS
<1>1. NoAnswers \in Answers /\ NoAnswers.step = 1
  BY DEF Answers, NoAnswers, Project, Region
<1>2. StepIn("none") \in Step /\ StepIn("none").status = "none"
        /\ ~StepIn("none").checking
  BY DEF StepIn, Step, Project
<1>3. /\ NoCall \in Call /\ ~NoCall.own /\ ~NoCall.late
      /\ NoCall.project = "none"
  BY DEF NoCall, Project, Call
<1>4. WizardTypeOK
  BY <1>1, <1>2, <1>3 DEF WizardInit, WizardTypeOK, NoDeploy
<1>5. ViewInv
  BY <1>2, <1>3, <1>4 DEF WizardInit, ViewInv
<1>6. AnswerInv
  BY <1>1, <1>3 DEF WizardInit, AnswerInv, ChosenBefore, NoDeploy
<1> QED
  BY <1>5, <1>6 DEF WizardInv

-----------------------------------------------------------------------------
(* The theorems.                                                           *)

\* The inductive invariant.  The properties of the keyboard need each other:
\* where the cursor is decides what Enter does to the stack, the order of the
\* stack is why a dialog is never passed on to another server.
ShellInv ==
  /\ StackInv
  /\ focus \in {"sidebar", "main"}
  /\ CursorIsOnItem
  /\ WizardIsAlone
  /\ QuestionIsAboutServer
  /\ manage \in Manage
  /\ WizardInv

LEMMA FocusStep ==
  ASSUME focus \in {"sidebar", "main"}, [ShellNext]_shellVars
  PROVE  focus' \in {"sidebar", "main"}
<1>1. Tab \/ ShellEscape => focus' \in {"sidebar", "main"}
  BY DEF Tab, ShellEscape
<1>2. Arrow \/ DialogArrow \/ Enter \/ DialogLetter \/ WizardEscape \/ ActionEnds
        \/ CallReturns \/ UNCHANGED shellVars => focus' = focus
  BY DEF Arrow, DialogArrow, Enter, DialogLetter, WizardEscape, ActionEnds,
         CallReturns, shellVars
<1> QED
  BY <1>1, <1>2 DEF ShellNext

LEMMA ShellInvInit == ShellInit => ShellInv
<1> SUFFICES ASSUME ShellInit PROVE ShellInv
  OBVIOUS
<1> DEFINE first == Main("active-servers")
<1>1. /\ stack = <<first>> /\ focus = "sidebar" /\ cursor = 1
      /\ ~open /\ manage = Actions
  BY DEF ShellInit, NavigationInit, WizardInit
<1>2. first \in Context /\ first.kind = "main"
  BY ContextTypes DEF Main
<1>3. /\ StackType /\ Len(stack) = 1 /\ stack[1] = first
  BY <1>1, <1>2, NavigationAssumption DEF StackType
<1>4. StackInv
  BY <1>3 DEF StackInv, StackIsOrderly
<1>5. CursorIsOnItem
  BY <1>1, ItemCount DEF CursorIsOnItem
<1>6. QuestionIsAboutServer /\ manage \in Manage
  BY <1>1 DEF QuestionIsAboutServer, Manage, Actions
<1>7. WizardInv
  BY WizardInvInit DEF ShellInit
<1> QED
  BY <1>1, <1>4, <1>5, <1>6, <1>7 DEF ShellInv, WizardIsAlone

LEMMA ShellInvAlways == ShellSpec => []ShellInv
<1>1. ASSUME ShellInv, [ShellNext]_shellVars
      PROVE  ShellInv'
  <2>1. StackEffect
    BY <1>1, StackStep DEF ShellInv, StackInv, CursorIsOnItem
  <2> QED
    BY <1>1, <2>1, OrderlyStep, FocusStep, CursorStep, AloneStep, ManageStep,
       WizardInvStep DEF ShellInv
<1> QED
  BY <1>1, ShellInvInit, PTL DEF ShellSpec

\* Type correctness: the stack of contexts is never empty and never grows past
\* its bound, and the wizard's store, the local state of the step that is
\* mounted and the calls under way have their types, whatever returns while the
\* wizard is open or closed (navigation-store.ts, wizard-store.ts,
\* SetupWizard.tsx, ServerManagement.tsx).
THEOREM ShellTypeCorrect == ShellSpec => []ShellTypeOK
<1>1. ShellInv => ShellTypeOK
  <2> SUFFICES ASSUME ShellInv PROVE ShellTypeOK
    OBVIOUS
  <2>1. Len(Items) = 4 \/ Len(Items) = Len(ServerTabs)
    BY MenuLengths DEF Items
  <2>2. cursor \in 1..(IF Len(ServerTabs) > 4 THEN Len(ServerTabs) ELSE 4)
    <3> DEFINE n == Len(Items)
               t == Len(ServerTabs)
    <3>1. cursor \in 1..n /\ (n = 4 \/ n = t) /\ n \in Nat /\ t \in Nat
      BY <2>1, MenuLengths, ItemCount DEF ShellInv, CursorIsOnItem
    <3> HIDE DEF n, t
    <3>2. cursor \in 1..(IF t > 4 THEN t ELSE 4)
      BY <3>1
    <3> QED
      BY <3>2 DEF t
  <2> QED
    BY <2>2 DEF ShellInv, StackInv, StackType, WizardInv, ViewInv, ShellTypeOK,
                NavigationTypeOK
<1> QED
  BY <1>1, ShellInvAlways, PTL

\* While the wizard is open the focus is on the sidebar of a main context, also
\* when a deployment pops the context behind it: no key meant for the wizard
\* reaches a panel (DashboardShellScreen.tsx, useInput inactive under a modal).
THEOREM WizardIsAloneAlways == ShellSpec => []WizardIsAlone
<1>1. ShellInv => WizardIsAlone
  BY DEF ShellInv
<1> QED
  BY <1>1, ShellInvAlways, PTL

\* The stack of contexts starts with the list of servers, never shows the same
\* twice in a row, and has a server only on top, over the list (pushContext,
\* popContext, replaceContext and the handlers that call them).
THEOREM StackIsOrderlyAlways == ShellSpec => []StackIsOrderly
<1>1. ShellInv => StackIsOrderly
  BY DEF ShellInv, StackInv
<1> QED
  BY <1>1, ShellInvAlways, PTL

\* The cursor of the sidebar stays on one of its items when the items change
\* with the context, for any number of tabs (Sidebar.tsx).
THEOREM CursorIsOnItemAlways == ShellSpec => []CursorIsOnItem
<1>1. ShellInv => CursorIsOnItem
  BY DEF ShellInv
<1> QED
  BY <1>1, ShellInvAlways, PTL

\* A question ServerManagement asks is answered for the server it was asked
\* about: React would keep the dialog for another server in the same place, but
\* no sequence of keys and returning calls leads from a server to another
\* without the list in between.
THEOREM QuestionIsAboutServerAlways == ShellSpec => []QuestionIsAboutServer
<1>1. ShellInv => QuestionIsAboutServer
  BY DEF ShellInv
<1> QED
  BY <1>1, ShellInvAlways, PTL

\* Whatever is submitted for deployment has a region chosen for its project and
\* a machine chosen for that region, and a project whose APIs were enabled: a
\* call of enableApis that returns late replaces the project, but also sends
\* the wizard back to the region (setProject, setStep of wizard-store.ts).  A
\* provider has been chosen as well, unless a call made before the store was
\* reset has taken the wizard past the step that asks for it.
THEOREM AnswersBelongTogetherAlways == ShellSpec => []AnswersBelongTogether
<1>1. ShellInv => AnswersBelongTogether
  BY DEF ShellInv, WizardInv, AnswerInv, AnswersBelongTogether
<1> QED
  BY <1>1, ShellInvAlways, PTL

=============================================================================
