------------------------------ MODULE Navigation ------------------------------
(***************************************************************************)
(* Navigation: the stack of contexts the shell shows, which side of the    *)
(* screen has the keyboard, and the cursor of the one list that the        *)
(* sidebar keeps while its items change (navigation-store.ts,              *)
(* SidebarNav.tsx, SelectList.tsx).                                        *)
(*                                                                         *)
(*   stack   contextStack; its last element is what is shown               *)
(*   focus   focusRegion; nothing sets it to "modal"                       *)
(*   cursor  indexRef of the sidebar's SelectList, counted from 1          *)
(***************************************************************************)
EXTENDS Integers, Sequences

CONSTANTS
  Servers,      \* the servers the panel lists
  ServerTabs,   \* the tabs of a server, in the order of the sidebar
  MaxContexts   \* bound on the stack, which the code does not bound

ASSUME NavigationAssumption ==
  /\ ServerTabs \in Seq(STRING) /\ Len(ServerTabs) > 0
  /\ \E i \in 1..Len(ServerTabs) : ServerTabs[i] = "management"
  /\ "none" \notin Servers
  /\ MaxContexts \in Nat \ {0}

VARIABLES stack, focus, cursor

Panels   == {"active-servers", "archived", "global-settings"}
MainMenu == <<"create_server", "active-servers", "archived", "global-settings">>
Tabs     == {ServerTabs[i] : i \in 1..Len(ServerTabs)}

\* In a main context what is shown is a panel, in that of a server a tab.
Context ==
  [ kind : {"main"}, server : {"none"}, shows : Panels ]
    \union [ kind : {"server"}, server : Servers, shows : Tabs ]

Main(panel)      == [kind |-> "main", server |-> "none", shows |-> panel]
Detail(s, tab)   == [kind |-> "server", server |-> s, shows |-> tab]

Top == stack[Len(stack)]

Items == IF Top.kind = "main" THEN MainMenu ELSE ServerTabs

-----------------------------------------------------------------------------
(* The store.                                                              *)

PushContext(context) ==
  /\ Len(stack) < MaxContexts
  /\ stack' = Append(stack, context)

PopContext ==
  stack' = IF Len(stack) <= 1 THEN stack ELSE SubSeq(stack, 1, Len(stack) - 1)

\* Faulty variant: the panel that is shown is pushed again.
SelectSidebarItemAgain(panel) ==
  IF Top.kind = "main" THEN PushContext(Main(panel)) ELSE UNCHANGED stack

SelectSidebarItem(panel) ==
  IF Top.kind = "main" /\ Top.shows # panel
  THEN PushContext(Main(panel)) ELSE UNCHANGED stack

SelectServerTab(tab) ==
  IF Top.kind = "server"
  THEN stack' = [stack EXCEPT ![Len(stack)].shows = tab] ELSE UNCHANGED stack

-----------------------------------------------------------------------------
(* The list of the sidebar.  It stays when the context changes; an effect  *)
(* brings the cursor back when the new items are fewer.                    *)

\* Faulty variant: the effect is missing.
CursorStays == UNCHANGED cursor

CursorFollows ==
  cursor' = IF cursor > Len(Items') THEN Len(Items') ELSE cursor

CursorDown == cursor' = IF cursor < Len(Items) THEN cursor + 1 ELSE cursor

\* Faulty variant: the cursor may leave the first item.
CursorUpTooFar == cursor' = IF cursor > 0 THEN cursor - 1 ELSE cursor

CursorUp == cursor' = IF cursor > 1 THEN cursor - 1 ELSE cursor

NavigationInit ==
  /\ stack = <<Main("active-servers")>>
  /\ focus = "sidebar"
  /\ cursor = 1

NavigationTypeOK ==
  /\ stack \in Seq(Context) /\ Len(stack) \in 1..MaxContexts
  /\ focus \in {"sidebar", "main"}
  /\ cursor \in 1..(IF Len(ServerTabs) > 4 THEN Len(ServerTabs) ELSE 4)
=============================================================================
