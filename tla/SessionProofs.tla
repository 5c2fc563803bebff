---------------------------- MODULE SessionProofs ----------------------------
(***************************************************************************)
(* Theorems about RconSessions, for any number of sessions and             *)
(* connections.                                                            *)
(***************************************************************************)
EXTENDS RconSessions, FiniteSetTheorems, TLAPS

-----------------------------------------------------------------------------
(* Sessions and the gateway.                                               *)

LEMMA GatewayStep == [SessionNext]_sessionVars => SlotNext \/ UNCHANGED slotVars
<1> SUFFICES ASSUME [SessionNext]_sessionVars
             PROVE  SlotNext \/ UNCHANGED slotVars
  OBVIOUS
<1> USE DEF slotVars, gatewayVars, SlotNext, Sockets, Commands
<1>1. ASSUME NEW i \in Sessions, Resolved(i)
      PROVE  SlotNext \/ UNCHANGED slotVars
  BY <1>1 DEF Resolved, SendLast, Finish, DisconnectService
<1>2. ASSUME NEW i \in Sessions, Rejected(i)
      PROVE  SlotNext \/ UNCHANGED slotVars
  BY <1>2 DEF Rejected
<1>3. ASSUME NEW i \in Sessions, AnswerComes(i)
      PROVE  SlotNext \/ UNCHANGED slotVars
  BY <1>3 DEF AnswerComes, SendLast, Finish, DisconnectService
<1>4. ASSUME NEW i \in Sessions, CallFails(i)
      PROVE  SlotNext \/ UNCHANGED slotVars
  BY <1>4 DEF CallFails, Finish, DisconnectService
<1>5. ASSUME NEW i \in Sessions, MountTab(i)
      PROVE  SlotNext \/ UNCHANGED slotVars
  BY <1>5 DEF MountTab, Dial
<1>6. ASSUME NEW i \in Sessions, TunnelOpens(i)
      PROVE  SlotNext \/ UNCHANGED slotVars
  BY <1>6 DEF TunnelOpens, Dial
<1>7. ASSUME NEW i \in Sessions, TunnelFails(i)
      PROVE  SlotNext \/ UNCHANGED slotVars
  BY <1>7 DEF TunnelFails
<1>8. ASSUME NEW i \in Sessions, PollAgain(i)
      PROVE  SlotNext \/ UNCHANGED slotVars
  BY <1>8 DEF PollAgain, Dial
<1>9. ASSUME NEW i \in Sessions, StartSending(i)
      PROVE  SlotNext \/ UNCHANGED slotVars
  BY <1>9 DEF StartSending
<1>10. CASE UnmountTab
  BY <1>10 DEF UnmountTab, DisconnectService
<1>11. ASSUME NEW s \in Sessions, DialEnds(s)
      PROVE  SlotNext \/ UNCHANGED slotVars
  BY <1>11 DEF DialEnds
<1>12. ASSUME NEW s \in Sessions, LineEvent(s)
      PROVE  SlotNext \/ UNCHANGED slotVars
  BY <1>12 DEF LineEvent
<1>13. CASE Timer
  BY <1>13 DEF Timer
<1>14. CASE UNCHANGED sessionVars
  BY <1>14 DEF sessionVars, gatewayVars, serviceVars
<1> QED
  BY <1>1, <1>2, <1>3, <1>4, <1>5, <1>6, <1>7, <1>8, <1>9, <1>10, <1>11, <1>12,
     <1>13, <1>14
     DEF SessionNext, Continue, Sockets

-----------------------------------------------------------------------------
(* Types.                                                                  *)

LEMMA SlotTypeStep ==
  ASSUME SlotTypeOK, SlotNext \/ UNCHANGED slotVars
  PROVE  SlotTypeOK'
<1> USE DEF SlotTypeOK, Promises, Lines
<1>1. Empty \in Occupants /\ \A s \in Sockets : Login(s) \in Occupants
  BY DEF Occupants
<1>2. \A c \in Commands : Command(c) \in Occupants
  BY DEF Occupants
<1>3. ASSUME NEW s \in Sockets, Connect(s) \/ Connected(s) \/ PeerCloses(s)
      PROVE  SlotTypeOK'
  BY <1>1, <1>3 DEF Connect, Connected, PeerCloses
<1>4. ASSUME NEW s \in Sockets, Answer(s)
      PROVE  SlotTypeOK'
  BY <1>1, <1>4 DEF Answer, Settle, LoggingIn
<1>5. ASSUME NEW s \in Sockets, SocketError(s) \/ SocketTimeout(s)
      PROVE  SlotTypeOK'
  BY <1>1, <1>5 DEF SocketError, SocketTimeout, Settle
<1>6. ASSUME NEW c \in Commands, SendCommand(c)
      PROVE  SlotTypeOK'
  BY <1>2, <1>6 DEF SendCommand
<1>7. CASE TimeOut
  BY <1>1, <1>7 DEF TimeOut, Settle
<1>8. CASE Disconnect
  BY <1>1, <1>8 DEF Disconnect, Closed
<1>9. CASE UNCHANGED slotVars
  BY <1>9 DEF slotVars
<1> QED
  BY <1>3, <1>4, <1>5, <1>6, <1>7, <1>8, <1>9 DEF SlotNext

ServiceTypeOK ==
  /\ session \in [Sessions -> Session]
  /\ tab \in Sessions \union {NoSession}
  /\ pollDue \in BOOLEAN
  /\ tunnel \in Sessions \union {NoSession}
  /\ tunnels \subseteq Sessions

LEMMA UnusedType == Unused \in Session
  BY DEF Unused, Session

LEMMA OverType ==
  ASSUME session \in [Sessions -> Session], NEW i \in Sessions
  PROVE  Over(i) \in Session
  BY DEF Over, Unused, Session

LEMMA AccompaniedType ==
  ASSUME session \in [Sessions -> Session]
  PROVE  /\ Accompanied(session) \in [Sessions -> Session]
         /\ \A i \in Sessions :
              /\ Accompanied(session)[i].kind = session[i].kind
              /\ Accompanied(session)[i].at = session[i].at
              /\ Accompanied(session)[i].more = session[i].more
              /\ Accompanied(session)[i].leftIn = session[i].leftIn
              /\ Accompanied(session)[i].company =
                   (session[i].company \/ i \in UnderWay)
<1>1. \A i \in Sessions : session[i] \in Session
  OBVIOUS
<1>2. \A i \in Sessions : [session[i] EXCEPT !.company = TRUE] \in Session
  BY <1>1 DEF Session
<1>3. Accompanied(session) \in [Sessions -> Session]
  BY <1>1, <1>2 DEF Accompanied
<1>4. ASSUME NEW i \in Sessions
      PROVE  /\ Accompanied(session)[i].kind = session[i].kind
             /\ Accompanied(session)[i].at = session[i].at
             /\ Accompanied(session)[i].more = session[i].more
             /\ Accompanied(session)[i].leftIn = session[i].leftIn
             /\ Accompanied(session)[i].company =
                  (session[i].company \/ i \in UnderWay)
  <2>1. Accompanied(session)[i] =
          IF i \in UnderWay THEN [session[i] EXCEPT !.company = TRUE]
          ELSE session[i]
    BY DEF Accompanied
  <2>2. CASE i \in UnderWay
    BY <1>1, <2>1, <2>2 DEF Session
  <2>3. CASE i \notin UnderWay
    BY <1>1, <2>1, <2>3 DEF Session
  <2> QED
    BY <2>2, <2>3
<1> QED
  BY <1>3, <1>4

LEMMA ServiceTypeStep ==
  ASSUME ServiceTypeOK, [SessionNext]_sessionVars
  PROVE  ServiceTypeOK'
<1> USE DEF ServiceTypeOK, serviceVars
<1>1. ASSUME NEW i \in Sessions, Resolved(i)
      PROVE  ServiceTypeOK'
  BY <1>1, OverType DEF Resolved, SendLast, Finish, DisconnectService, Session
<1>2. ASSUME NEW i \in Sessions, Rejected(i)
      PROVE  ServiceTypeOK'
  BY <1>2, OverType DEF Rejected
<1>3. ASSUME NEW i \in Sessions, AnswerComes(i)
      PROVE  ServiceTypeOK'
  BY <1>3, OverType
     DEF AnswerComes, SendLast, Finish, DisconnectService, Session
<1>4. ASSUME NEW i \in Sessions, CallFails(i)
      PROVE  ServiceTypeOK'
  BY <1>4, OverType DEF CallFails, Finish, DisconnectService
<1>5. ASSUME NEW i \in Sessions, MountTab(i)
      PROVE  ServiceTypeOK'
  <2>1. [Unused EXCEPT !.kind = "poll", !.at = "connect",
                        !.company = TRUE] \in Session
    BY DEF Unused, Session
  <2>2. [Unused EXCEPT !.kind = "tab", !.at = "tunnel",
                        !.company = TRUE] \in Session
    BY DEF Unused, Session
  <2>3. i + 1 \in Sessions
    BY <1>5, SessionAssumption DEF MountTab, Sessions
  <2> QED
    BY <1>5, <2>1, <2>2, <2>3, AccompaniedType DEF MountTab
<1>6. ASSUME NEW i \in Sessions, TunnelOpens(i)
      PROVE  ServiceTypeOK'
  BY <1>6 DEF TunnelOpens, Dial, Session
<1>7. ASSUME NEW i \in Sessions, TunnelFails(i)
      PROVE  ServiceTypeOK'
  BY <1>7, OverType DEF TunnelFails
<1>8. ASSUME NEW i \in Sessions, PollAgain(i)
      PROVE  ServiceTypeOK'
  <2>1. [Unused EXCEPT !.kind = "poll", !.at = "connect",
                        !.company = UnderWay # {}] \in Session
    BY DEF Unused, Session
  <2> QED
    BY <1>8, <2>1, AccompaniedType DEF PollAgain
<1>9. ASSUME NEW i \in Sessions, StartSending(i)
      PROVE  ServiceTypeOK'
  <2>1. \A more \in BOOLEAN :
          [Unused EXCEPT !.kind = "sends", !.at = "send", !.more = more,
                         !.company = UnderWay # {}] \in Session
    BY DEF Unused, Session
  <2>2. PICK new \in Session : session' = [Accompanied(session) EXCEPT ![i] = new]
    BY <1>9, <2>1 DEF StartSending
  <2>3. session' \in [Sessions -> Session]
    BY <2>2, AccompaniedType
  <2> QED
    BY <1>9, <2>3 DEF StartSending
<1>10. CASE UnmountTab
  <2>1. tab \in Sessions
    BY <1>10 DEF UnmountTab
  <2>2. Accompanied(session)[tab].at \in {"tunnel", "connect"} =>
          Accompanied(session)[tab].at \in {"none", "tunnel", "connect"}
    OBVIOUS
  <2>3. [Accompanied(session) EXCEPT ![tab].leftIn =
           IF Accompanied(session)[tab].at \in {"tunnel", "connect"}
           THEN Accompanied(session)[tab].at ELSE "none"]
          \in [Sessions -> Session]
    BY <2>1, <2>2, AccompaniedType DEF Session
  <2> QED
    BY <1>10, <2>3 DEF UnmountTab, DisconnectService, LeftTab
<1>11. ASSUME NEW s \in Sessions, DialEnds(s)
      PROVE  ServiceTypeOK'
  BY <1>11 DEF DialEnds
<1>12. ASSUME NEW s \in Sessions, LineEvent(s)
      PROVE  ServiceTypeOK'
  BY <1>12 DEF LineEvent
<1>13. CASE Timer
  BY <1>13 DEF Timer
<1>14. CASE UNCHANGED sessionVars
  BY <1>14 DEF sessionVars, gatewayVars, serviceVars
<1> QED
  BY <1>1, <1>2, <1>3, <1>4, <1>5, <1>6, <1>7, <1>8, <1>9, <1>10, <1>11, <1>12,
     <1>13, <1>14
     DEF SessionNext, Continue, Sockets

-----------------------------------------------------------------------------
(* What a step does to each session.                                       *)

\* A session goes on as before, perhaps with company.
GoesOn(j) ==
  /\ session'[j].kind = session[j].kind
  /\ session'[j].at = session[j].at
  /\ session'[j].more = session[j].more
  /\ session'[j].leftIn = session[j].leftIn
  /\ session'[j].company = (session[j].company \/ j \in UnderWay)

Begins(i, kind, at, company) ==
  /\ session'[i].kind = kind
  /\ session'[i].at = at
  /\ session'[i].leftIn = "none"
  /\ session'[i].company = company

Others(I) == \A j \in Sessions \ I : session'[j] = session[j]

Ends(i) ==
  /\ Others({i})
  /\ session'[i].kind = "none"
  /\ session'[i].at = "ended"
  /\ session'[i].leftIn = session[i].leftIn

Moves(i, at) ==
  /\ Others({i})
  /\ session'[i].kind = session[i].kind
  /\ session'[i].at = at
  /\ session'[i].leftIn = session[i].leftIn
  /\ session'[i].company = session[i].company

LEMMA EndEffect ==
  ASSUME ServiceTypeOK, NEW i \in Sessions,
         session' = [session EXCEPT ![i] = Over(i)]
  PROVE  Ends(i)
<1>1. session'[i] = Over(i) /\ Others({i})
  BY DEF ServiceTypeOK, Others
<1>2. Over(i).kind = "none" /\ Over(i).at = "ended"
      /\ Over(i).leftIn = session[i].leftIn
  BY DEF Over, Unused
<1> QED
  BY <1>1, <1>2 DEF Ends

LEMMA SendEffect ==
  ASSUME ServiceTypeOK, NEW i \in Sessions, SendLast(i)
  PROVE  Moves(i, "send") /\ session'[i].more = FALSE
<1>1. session[i] \in Session
  BY DEF ServiceTypeOK
<1>2. session'[i] = [session[i] EXCEPT !.at = "send", !.more = FALSE]
      /\ Others({i})
  BY DEF ServiceTypeOK, Others, SendLast
<1> QED
  BY <1>1, <1>2 DEF Moves, Session

LEMMA TunnelEffect ==
  ASSUME ServiceTypeOK, NEW i \in Sessions, TunnelOpens(i)
  PROVE  Moves(i, "connect")
<1>1. session[i] \in Session
  BY DEF ServiceTypeOK
<1>2. session'[i] = [session[i] EXCEPT !.at = "connect"] /\ Others({i})
  BY DEF ServiceTypeOK, Others, TunnelOpens
<1> QED
  BY <1>1, <1>2 DEF Moves, Session

LEMMA MountEffect ==
  ASSUME ServiceTypeOK, NEW i \in Sessions, MountTab(i)
  PROVE  /\ i + 1 \in Sessions
         /\ Begins(i, "poll", "connect", TRUE)
         /\ Begins(i + 1, "tab", "tunnel", TRUE)
         /\ \A j \in Sessions \ {i, i + 1} : GoesOn(j)
<1>1. i + 1 \in Sessions /\ i + 1 # i
  BY SessionAssumption DEF MountTab, Sessions
<1> DEFINE poll == [Unused EXCEPT !.kind = "poll", !.at = "connect",
                                  !.company = TRUE]
           new  == [Unused EXCEPT !.kind = "tab", !.at = "tunnel",
                                  !.company = TRUE]
<1>2. session' = [Accompanied(session) EXCEPT ![i] = poll, ![i + 1] = new]
  BY DEF MountTab
<1>3. /\ poll.kind = "poll" /\ poll.at = "connect"
      /\ poll.leftIn = "none" /\ poll.company = TRUE
      /\ new.kind = "tab" /\ new.at = "tunnel"
      /\ new.leftIn = "none" /\ new.company = TRUE
  BY DEF Unused
<1> HIDE DEF poll, new
<1>4. /\ session'[i] = poll /\ session'[i + 1] = new
      /\ \A j \in Sessions \ {i, i + 1} :
           session'[j] = Accompanied(session)[j]
  BY <1>1, <1>2, AccompaniedType DEF ServiceTypeOK
<1> QED
  BY <1>1, <1>3, <1>4, AccompaniedType DEF Begins, GoesOn, ServiceTypeOK

LEMMA PollEffect ==
  ASSUME ServiceTypeOK, NEW i \in Sessions, PollAgain(i)
  PROVE  /\ Begins(i, "poll", "connect", UnderWay # {})
         /\ \A j \in Sessions \ {i} : GoesOn(j)
<1> DEFINE poll == [Unused EXCEPT !.kind = "poll", !.at = "connect",
                                  !.company = UnderWay # {}]
<1>1. session' = [Accompanied(session) EXCEPT ![i] = poll]
  BY DEF PollAgain
<1>2. /\ poll.kind = "poll" /\ poll.at = "connect"
      /\ poll.leftIn = "none" /\ poll.company = (UnderWay # {})
  BY DEF Unused
<1> HIDE DEF poll
<1>3. /\ session'[i] = poll
      /\ \A j \in Sessions \ {i} : session'[j] = Accompanied(session)[j]
  BY <1>1, AccompaniedType DEF ServiceTypeOK
<1> QED
  BY <1>2, <1>3, AccompaniedType DEF Begins, GoesOn, ServiceTypeOK

LEMMA SendingEffect ==
  ASSUME ServiceTypeOK, NEW i \in Sessions, StartSending(i)
  PROVE  /\ Begins(i, "sends", "send", UnderWay # {})
         /\ SendCommand(<<i, IF session'[i].more THEN "first" ELSE "last">>)
         /\ \A j \in Sessions \ {i} : GoesOn(j)
<1> DEFINE new(more) == [Unused EXCEPT !.kind = "sends", !.at = "send",
                           !.more = more, !.company = UnderWay # {}]
<1>1. PICK more \in BOOLEAN :
        /\ SendCommand(<<i, IF more THEN "first" ELSE "last">>)
        /\ session' = [Accompanied(session) EXCEPT ![i] = new(more)]
  BY DEF StartSending
<1>2. /\ new(more).kind = "sends" /\ new(more).at = "send"
      /\ new(more).leftIn = "none" /\ new(more).company = (UnderWay # {})
      /\ new(more).more = more
  BY DEF Unused
<1> HIDE DEF new
<1>3. /\ session'[i] = new(more)
      /\ \A j \in Sessions \ {i} : session'[j] = Accompanied(session)[j]
  BY <1>1, AccompaniedType DEF ServiceTypeOK
<1> QED
  BY <1>1, <1>2, <1>3, AccompaniedType DEF Begins, GoesOn, ServiceTypeOK

LEMMA UnmountEffect ==
  ASSUME ServiceTypeOK, UnmountTab
  PROVE  /\ tab \in Sessions
         /\ \A j \in Sessions \ {tab} : GoesOn(j)
         /\ session'[tab].kind = session[tab].kind
         /\ session'[tab].at = session[tab].at
         /\ session'[tab].more = session[tab].more
         /\ session'[tab].leftIn = IF session[tab].at \in {"tunnel", "connect"}
                                   THEN session[tab].at ELSE "none"
         /\ session'[tab].company = (session[tab].company \/ tab \in UnderWay)
<1> DEFINE f == Accompanied(session)
           l == IF session[tab].at \in {"tunnel", "connect"}
                THEN session[tab].at ELSE "none"
<1>1. tab \in Sessions
  BY DEF UnmountTab, ServiceTypeOK
<1>2. session' = [f EXCEPT ![tab].leftIn = l]
  BY <1>1, AccompaniedType DEF UnmountTab, LeftTab, ServiceTypeOK
<1>3. f \in [Sessions -> Session]
  BY AccompaniedType DEF ServiceTypeOK
<1> HIDE DEF f, l
<1>4. session'[tab] = [f[tab] EXCEPT !.leftIn = l]
      /\ \A j \in Sessions \ {tab} : session'[j] = f[j]
  BY <1>1, <1>2, <1>3
<1>5. /\ session'[tab].kind = f[tab].kind /\ session'[tab].at = f[tab].at
      /\ session'[tab].more = f[tab].more /\ session'[tab].leftIn = l
      /\ session'[tab].company = f[tab].company
  BY <1>1, <1>3, <1>4 DEF Session
<1> QED
  BY <1>1, <1>4, <1>5, AccompaniedType DEF GoesOn, ServiceTypeOK, f, l

\* The steps as TabInv sees them.
Untouched == session' = session /\ tab' = tab
Ended(i)  == i \in UnderWay /\ Ends(i) /\ tab' = tab
Sent(i)   == session[i].at \in {"connect", "send"} /\ Moves(i, "send") /\ tab' = tab
Opened(i) == session[i].at = "tunnel" /\ Moves(i, "connect") /\ tab' = tab

Mounted(i) ==
  /\ tab = NoSession
  /\ Fresh(i)
  /\ i + 1 \in Sessions
  /\ tab' = i + 1
  /\ Begins(i, "poll", "connect", TRUE)
  /\ Begins(i + 1, "tab", "tunnel", TRUE)
  /\ \A j \in Sessions \ {i, i + 1} : GoesOn(j)

Began(i, kind, at) ==
  /\ Fresh(i)
  /\ Begins(i, kind, at, UnderWay # {})
  /\ \A j \in Sessions \ {i} : GoesOn(j)
  /\ tab' = tab

Unmounted ==
  /\ tab \in Sessions
  /\ tab' = NoSession
  /\ \A j \in Sessions \ {tab} : GoesOn(j)
  /\ session'[tab].kind = session[tab].kind
  /\ session'[tab].at = session[tab].at
  /\ session'[tab].leftIn = IF session[tab].at \in {"tunnel", "connect"}
                            THEN session[tab].at ELSE "none"
  /\ session'[tab].company = (session[tab].company \/ tab \in UnderWay)

Effect ==
  \/ Untouched
  \/ Unmounted
  \/ \E i \in Sessions :
       \/ Ended(i) \/ Sent(i) \/ Opened(i) \/ Mounted(i)
       \/ Began(i, "poll", "connect") \/ Began(i, "sends", "send")

LEMMA EffectOfStep ==
  ASSUME ServiceTypeOK, [SessionNext]_sessionVars
  PROVE  Effect
<1> USE DEF Effect
<1>1. ASSUME NEW i \in Sessions, Resolved(i)
      PROVE  Effect
  <2>1. i \in UnderWay /\ session[i].at = "connect" /\ tab' = tab
    BY <1>1 DEF Resolved, ConnectSettled, UnderWay
  <2>2. Ends(i) \/ Moves(i, "send")
    BY <1>1, EndEffect, SendEffect DEF Resolved, Finish
  <2> QED
    BY <2>1, <2>2 DEF Ended, Sent
<1>2. ASSUME NEW i \in Sessions, Rejected(i)
      PROVE  Effect
  BY <1>2, EndEffect DEF Rejected, ConnectSettled, UnderWay, Ended, serviceVars
<1>3. ASSUME NEW i \in Sessions, AnswerComes(i)
      PROVE  Effect
  <2>1. i \in UnderWay /\ session[i].at = "send" /\ tab' = tab
    BY <1>3 DEF AnswerComes, AnswerSettled, UnderWay
  <2>2. Ends(i) \/ Moves(i, "send")
    BY <1>3, EndEffect, SendEffect DEF AnswerComes, Finish
  <2> QED
    BY <2>1, <2>2 DEF Ended, Sent
<1>4. ASSUME NEW i \in Sessions, CallFails(i)
      PROVE  Effect
  BY <1>4, EndEffect DEF CallFails, AnswerSettled, Finish, UnderWay, Ended
<1>5. ASSUME NEW i \in Sessions, MountTab(i)
      PROVE  Effect
  BY <1>5, MountEffect DEF MountTab, Mounted
<1>6. ASSUME NEW i \in Sessions, TunnelOpens(i)
      PROVE  Effect
  BY <1>6, TunnelEffect DEF TunnelOpens, Opened
<1>7. ASSUME NEW i \in Sessions, TunnelFails(i)
      PROVE  Effect
  BY <1>7, EndEffect DEF TunnelFails, UnderWay, Ended, serviceVars
<1>8. ASSUME NEW i \in Sessions, PollAgain(i)
      PROVE  Effect
  BY <1>8, PollEffect DEF PollAgain, Began
<1>9. ASSUME NEW i \in Sessions, StartSending(i)
      PROVE  Effect
  BY <1>9, SendingEffect DEF StartSending, Began, serviceVars
<1>10. CASE UnmountTab
  BY <1>10, UnmountEffect DEF UnmountTab, Unmounted
<1>11. ASSUME NEW s \in Sessions, DialEnds(s)
      PROVE  Effect
  BY <1>11 DEF DialEnds, Untouched, serviceVars
<1>12. ASSUME NEW s \in Sessions, LineEvent(s)
      PROVE  Effect
  BY <1>12 DEF LineEvent, Untouched, serviceVars
<1>13. CASE Timer
  BY <1>13 DEF Timer, Untouched, serviceVars
<1>14. CASE UNCHANGED sessionVars
  BY <1>14 DEF sessionVars, gatewayVars, serviceVars, Untouched
<1> QED
  BY <1>1, <1>2, <1>3, <1>4, <1>5, <1>6, <1>7, <1>8, <1>9, <1>10, <1>11, <1>12,
     <1>13, <1>14
     DEF SessionNext, Continue, Sockets

-----------------------------------------------------------------------------
(* Tabs.                                                                   *)

\* Sessions begin in order; a dial belongs to a tab or a poll; a tab that has
\* not got its connection yet is the one mounted, or was left.
OrderInv ==
  \A i \in Sessions : \A j \in Sessions :
    i < j /\ session[i].at = "unused" => session[j].at = "unused"

TabInv ==
  /\ \A i \in Sessions :
       /\ session[i].at = "unused" => session[i].leftIn = "none"
       /\ session[i].at = "tunnel" => session[i].kind = "tab"
       /\ session[i].at = "tunnel" => session[i].leftIn \in {"none", "tunnel"}
       /\ session[i].at = "connect" => session[i].kind \in {"tab", "poll"}
       /\ session[i].kind = "tab" /\ i # tab
            /\ session[i].at \in {"tunnel", "connect"}
            => session[i].leftIn # "none"
  /\ tab # NoSession => session[tab].leftIn = "none" /\ session[tab].at # "unused"

LEMMA OrderStep ==
  ASSUME OrderInv, Effect
  PROVE  OrderInv'
<1> USE DEF OrderInv
<1> USE SessionAssumption
<1>1. CASE Untouched
  BY <1>1 DEF Untouched, Sessions
<1>2. CASE Unmounted
  BY <1>2 DEF Unmounted, GoesOn, Sessions
<1>3. ASSUME NEW i \in Sessions, Ended(i)
      PROVE  OrderInv'
  BY <1>3 DEF Ended, Ends, Others, UnderWay, Sessions
<1>4. ASSUME NEW i \in Sessions, Sent(i)
      PROVE  OrderInv'
  BY <1>4 DEF Sent, Moves, Others, Sessions
<1>5. ASSUME NEW i \in Sessions, Opened(i)
      PROVE  OrderInv'
  BY <1>5 DEF Opened, Moves, Others, Sessions
<1>6. ASSUME NEW i \in Sessions, Mounted(i)
      PROVE  OrderInv'
  BY <1>6 DEF Mounted, Fresh, Begins, GoesOn, Sessions
<1>7. ASSUME NEW i \in Sessions, Began(i, "poll", "connect")
      PROVE  OrderInv'
  BY <1>7 DEF Began, Fresh, Begins, GoesOn, Sessions
<1>8. ASSUME NEW i \in Sessions, Began(i, "sends", "send")
      PROVE  OrderInv'
  BY <1>8 DEF Began, Fresh, Begins, GoesOn, Sessions
<1> QED
  BY <1>1, <1>2, <1>3, <1>4, <1>5, <1>6, <1>7, <1>8 DEF Effect

LEMMA TabStep ==
  ASSUME ServiceTypeOK, OrderInv, TabInv, Effect
  PROVE  TabInv'
<1> USE DEF TabInv, NoSession
<1>1. CASE Untouched
  BY <1>1 DEF Untouched, ServiceTypeOK
<1>2. CASE Unmounted
  BY <1>2 DEF Unmounted, GoesOn, ServiceTypeOK
<1>3. ASSUME NEW i \in Sessions, Ended(i)
      PROVE  TabInv'
  BY <1>3 DEF Ended, Ends, Others, UnderWay, ServiceTypeOK
<1>4. ASSUME NEW i \in Sessions, Sent(i)
      PROVE  TabInv'
  BY <1>4 DEF Sent, Moves, Others, ServiceTypeOK
<1>5. ASSUME NEW i \in Sessions, Opened(i)
      PROVE  TabInv'
  BY <1>5 DEF Opened, Moves, Others, ServiceTypeOK
<1>6. ASSUME NEW i \in Sessions, Mounted(i)
      PROVE  TabInv'
  <2>1. i # 0 /\ i + 1 # 0 /\ i # i + 1 /\ \A j \in Sessions : j # 0
    BY SessionAssumption DEF Sessions
  <2>2. \A j \in Sessions \ {i, i + 1} : session[j].kind = "tab"
          /\ session[j].at \in {"tunnel", "connect"} => session[j].leftIn # "none"
    BY <1>6, <2>1 DEF Mounted
  <2>3. session'[i].kind = "poll" /\ session'[i].at = "connect"
        /\ session'[i + 1].kind = "tab" /\ session'[i + 1].at = "tunnel"
        /\ session'[i].leftIn = "none" /\ session'[i + 1].leftIn = "none"
        /\ tab' = i + 1
    BY <1>6 DEF Mounted, Begins
  <2> QED
    BY <1>6, <2>1, <2>2, <2>3 DEF Mounted, GoesOn, ServiceTypeOK
<1>7. ASSUME NEW i \in Sessions, Began(i, "poll", "connect")
      PROVE  TabInv'
  BY <1>7 DEF Began, Fresh, Begins, GoesOn, ServiceTypeOK
<1>8. ASSUME NEW i \in Sessions, Began(i, "sends", "send")
      PROVE  TabInv'
  BY <1>8 DEF Began, Fresh, Begins, GoesOn, ServiceTypeOK
<1> QED
  BY <1>1, <1>2, <1>3, <1>4, <1>5, <1>6, <1>7, <1>8 DEF Effect

-----------------------------------------------------------------------------
(* The promises of connect.                                                *)

\* A connect awaits its dial or, in the slot, its login.
PromiseInv ==
  /\ \A s \in Sockets :
       /\ line[s] = "dialing" => promise[s] = "waiting"
       /\ pending = Login(s) =>
            promise[s] = "waiting" /\ line[s] \in {"open", "closed"}
       /\ line[s] = "unused" <=> promise[s] = "unused"
  /\ socket # NoSocket => line[socket] \in {"open", "closed"}

LEMMA PromiseStep ==
  ASSUME SlotTypeOK, PromiseInv, SlotNext \/ UNCHANGED slotVars
  PROVE  PromiseInv'
<1> USE DEF PromiseInv, SlotTypeOK, Promises, Lines
<1>1. \A s \in Sockets, u \in Sockets :
        Login(s) # Empty /\ (Login(s) = Login(u) => s = u)
  BY DEF Login, Empty
<1>2. \A s \in Sockets, c \in Commands : Login(s) # Command(c)
  BY DEF Login, Command
<1>3. ASSUME NEW s \in Sockets, Connect(s)
      PROVE  PromiseInv'
  BY <1>1, <1>3 DEF Connect, Login
<1>4. ASSUME NEW s \in Sockets, Connected(s)
      PROVE  PromiseInv'
  BY <1>1, <1>4 DEF Connected, Login
<1>5. ASSUME NEW s \in Sockets, PeerCloses(s)
      PROVE  PromiseInv'
  BY <1>1, <1>5 DEF PeerCloses, Login
<1>6. ASSUME NEW s \in Sockets, Answer(s)
      PROVE  PromiseInv'
  BY <1>1, <1>6 DEF Answer, Settle, Login
<1>7. ASSUME NEW s \in Sockets, SocketError(s)
      PROVE  PromiseInv'
  BY <1>1, <1>7 DEF SocketError, Settle, Login
<1>8. ASSUME NEW s \in Sockets, SocketTimeout(s)
      PROVE  PromiseInv'
  BY <1>1, <1>8 DEF SocketTimeout, Settle, Login
<1>9. ASSUME NEW c \in Commands, SendCommand(c)
      PROVE  PromiseInv'
  BY <1>2, <1>9 DEF SendCommand, Login, Command
<1>10. CASE TimeOut
  BY <1>1, <1>10 DEF TimeOut, Settle, Login
<1>11. CASE Disconnect
  <2>1. Empty # Login(socket) /\ \A s \in Sockets : Empty # Login(s)
    BY DEF Login, Empty
  <2>2. CASE socket = NoSocket
    BY <1>11, <2>1, <2>2 DEF Disconnect, Closed, Login
  <2>3. CASE socket \in Sockets /\ socket # NoSocket
    <3>1. \A s \in Sockets : line'[s] = IF s = socket THEN "closed" ELSE line[s]
      BY <1>11, <2>3 DEF Disconnect, Closed
    <3> QED
      BY <1>11, <2>1, <2>3, <3>1 DEF Disconnect, Login
  <2> QED
    BY <2>2, <2>3
<1>12. CASE UNCHANGED slotVars
  BY <1>12 DEF slotVars, Login
<1> QED
  BY <1>3, <1>4, <1>5, <1>6, <1>7, <1>8, <1>9, <1>10, <1>11, <1>12 DEF SlotNext

\* A promise that waits is awaited; who has not dialed has no promise.
ConnectInv ==
  \A i \in Sessions :
    /\ promise[i] = "waiting" => session[i].at = "connect"
    /\ session[i].at \in {"unused", "tunnel"} => promise[i] = "unused"

\* An event settles promises and makes none.
LEMMA EventKeeps ==
  ASSUME SlotTypeOK, PromiseInv,
         Timer \/ \E s \in Sockets : DialEnds(s) \/ LineEvent(s)
  PROVE  /\ \A u \in Sockets :
              /\ promise'[u] = "waiting" => promise[u] = "waiting"
              /\ promise[u] = "unused" => promise'[u] = "unused"
         /\ session' = session
<1>1. session' = session
  BY DEF DialEnds, LineEvent, Timer
<1>4. \A u \in Sockets : pending = Login(u) => promise[u] = "waiting"
  BY DEF PromiseInv
<1>5. ASSUME NEW verdict \in {"resolved", "rejected"}, Settle(verdict), NEW u \in Sockets
      PROVE  /\ promise'[u] = "waiting" => promise[u] = "waiting"
             /\ promise[u] = "unused" => promise'[u] = "unused"
  BY <1>4, <1>5 DEF Settle
<1>6. ASSUME NEW s \in Sockets, Answer(s)
      PROVE  /\ \A u \in Sockets :
                  /\ promise'[u] = "waiting" => promise[u] = "waiting"
                  /\ promise[u] = "unused" => promise'[u] = "unused"
             /\ session' = session
  BY <1>1, <1>5, <1>6 DEF Answer
<1>7. ASSUME NEW s \in Sockets, SocketError(s)
      PROVE  /\ \A u \in Sockets :
                  /\ promise'[u] = "waiting" => promise[u] = "waiting"
                  /\ promise[u] = "unused" => promise'[u] = "unused"
             /\ session' = session
  BY <1>1, <1>5, <1>7 DEF SocketError, SlotTypeOK
<1>8. ASSUME NEW s \in Sockets, SocketTimeout(s)
      PROVE  /\ \A u \in Sockets :
                  /\ promise'[u] = "waiting" => promise[u] = "waiting"
                  /\ promise[u] = "unused" => promise'[u] = "unused"
             /\ session' = session
  BY <1>1, <1>5, <1>8 DEF SocketTimeout
<1>9. ASSUME NEW s \in Sockets, Connected(s) \/ PeerCloses(s)
      PROVE  promise' = promise /\ session' = session
  BY <1>1, <1>9 DEF Connected, PeerCloses
<1>10. CASE TimeOut
  BY <1>1, <1>5, <1>10 DEF TimeOut
<1> QED
  BY <1>6, <1>7, <1>8, <1>9, <1>10 DEF DialEnds, LineEvent, Timer

LEMMA ConnectStep ==
  ASSUME SlotTypeOK, ServiceTypeOK, OrderInv, PromiseInv, ConnectInv,
         [SessionNext]_sessionVars
  PROVE  ConnectInv'
<1> USE DEF ConnectInv, Sockets, SlotTypeOK
<1>1. ASSUME NEW i \in Sessions, Resolved(i)
      PROVE  ConnectInv'
  <2>1. promise' = promise /\ session[i].at = "connect" /\ promise[i] # "waiting"
    BY <1>1
       DEF Resolved, ConnectSettled, Finish, SendLast, SendCommand,
           DisconnectService, Disconnect, gatewayVars
  <2>2. Ends(i) \/ Moves(i, "send")
    BY <1>1, EndEffect, SendEffect DEF Resolved, Finish
  <2> QED
    BY <2>1, <2>2 DEF Ends, Moves, Others
<1>2. ASSUME NEW i \in Sessions, Rejected(i)
      PROVE  ConnectInv'
  <2>1. promise' = promise /\ session[i].at = "connect" /\ promise[i] # "waiting"
    BY <1>2 DEF Rejected, ConnectSettled, gatewayVars
  <2>2. Ends(i)
    BY <1>2, EndEffect DEF Rejected
  <2> QED
    BY <2>1, <2>2 DEF Ends, Others
<1>3. ASSUME NEW i \in Sessions, AnswerComes(i)
      PROVE  ConnectInv'
  <2>1. promise' = promise /\ session[i].at = "send"
    BY <1>3
       DEF AnswerComes, AnswerSettled, Finish, SendLast, SendCommand,
           DisconnectService, Disconnect, gatewayVars
  <2>2. Ends(i) \/ Moves(i, "send")
    BY <1>3, EndEffect, SendEffect DEF AnswerComes, Finish
  <2> QED
    BY <2>1, <2>2 DEF Ends, Moves, Others
<1>4. ASSUME NEW i \in Sessions, CallFails(i)
      PROVE  ConnectInv'
  <2>1. promise' = promise /\ session[i].at = "send"
    BY <1>4
       DEF CallFails, AnswerSettled, Finish, SendLast, SendCommand,
           DisconnectService, Disconnect, gatewayVars
  <2>2. Ends(i)
    BY <1>4, EndEffect DEF CallFails, Finish
  <2> QED
    BY <2>1, <2>2 DEF Ends, Others
<1>5. ASSUME NEW i \in Sessions, MountTab(i)
      PROVE  ConnectInv'
  <2>1. \A s \in Sessions : promise'[s] = IF s = i THEN "waiting" ELSE promise[s]
    BY <1>5 DEF MountTab, Dial, Connect
  <2>2. session[i].at = "unused" /\ i + 1 \in Sessions /\ i < i + 1
    BY <1>5, MountEffect, SessionAssumption DEF MountTab, Fresh, Sessions
  <2>3. session[i + 1].at = "unused"
    BY <2>2 DEF OrderInv
  <2>4. /\ session'[i].at = "connect"
        /\ session'[i + 1].at = "tunnel"
        /\ \A j \in Sessions \ {i, i + 1} : session'[j].at = session[j].at
    BY <1>5, MountEffect DEF Begins, GoesOn
  <2> QED
    BY <2>1, <2>2, <2>3, <2>4
<1>6. ASSUME NEW i \in Sessions, TunnelOpens(i)
      PROVE  ConnectInv'
  <2>1. \A s \in Sessions : promise'[s] = IF s = i THEN "waiting" ELSE promise[s]
    BY <1>6 DEF TunnelOpens, Dial, Connect
  <2> QED
    BY <1>6, <2>1, TunnelEffect DEF Moves, Others
<1>7. ASSUME NEW i \in Sessions, TunnelFails(i)
      PROVE  ConnectInv'
  <2>1. promise' = promise /\ session[i].at = "tunnel"
    BY <1>7 DEF TunnelFails, gatewayVars
  <2>2. Ends(i)
    BY <1>7, EndEffect DEF TunnelFails
  <2> QED
    BY <2>1, <2>2 DEF Ends, Others
<1>8. ASSUME NEW i \in Sessions, PollAgain(i)
      PROVE  ConnectInv'
  <2>1. \A s \in Sessions : promise'[s] = IF s = i THEN "waiting" ELSE promise[s]
    BY <1>8 DEF PollAgain, Dial, Connect
  <2> QED
    BY <1>8, <2>1, PollEffect DEF Begins, GoesOn
<1>9. ASSUME NEW i \in Sessions, StartSending(i)
      PROVE  ConnectInv'
  <2>1. promise' = promise /\ session[i].at = "unused"
    BY <1>9, SendingEffect DEF StartSending, Fresh, SendCommand
  <2>2. /\ Begins(i, "sends", "send", UnderWay # {})
        /\ \A j \in Sessions \ {i} : GoesOn(j)
    BY <1>9, SendingEffect
  <2>3. /\ session'[i].at = "send"
        /\ \A j \in Sessions \ {i} : session'[j].at = session[j].at
    BY <2>2 DEF Begins, GoesOn
  <2> QED
    BY <2>1, <2>3
<1>10. CASE UnmountTab
  <2>1. promise' = promise
    BY <1>10 DEF UnmountTab, DisconnectService, Disconnect
  <2> QED
    BY <1>10, <2>1, UnmountEffect DEF GoesOn
<1>11. ASSUME NEW s \in Sessions, DialEnds(s)
      PROVE  ConnectInv'
  BY <1>11, EventKeeps DEF DialEnds
<1>12. ASSUME NEW s \in Sessions, LineEvent(s)
      PROVE  ConnectInv'
  BY <1>12, EventKeeps DEF LineEvent
<1>13. CASE Timer
  BY <1>13, EventKeeps DEF Timer
<1>14. CASE UNCHANGED sessionVars
  BY <1>14 DEF sessionVars, gatewayVars, serviceVars, serviceVars
<1> QED
  BY <1>1, <1>2, <1>3, <1>4, <1>5, <1>6, <1>7, <1>8, <1>9, <1>10, <1>11, <1>12,
     <1>13, <1>14
     DEF SessionNext, Continue, Sockets

-----------------------------------------------------------------------------
(* Who is alone with the gateway gets an answer.                           *)

\* Two that are under way both have company.
CompanyInv ==
  \A i \in Sessions : \A j \in Sessions :
    i # j /\ i \in UnderWay /\ j \in UnderWay => session[i].company

LEMMA CompanyStep ==
  ASSUME ServiceTypeOK, CompanyInv, Effect
  PROVE  CompanyInv'
<1> USE DEF CompanyInv
<1>1. CASE Untouched
  BY <1>1 DEF Untouched, ServiceTypeOK, UnderWay, Sessions
<1>2. CASE Unmounted
  <2>1. \A j \in Sessions : session'[j].at = session[j].at
          /\ session'[j].company = (session[j].company \/ j \in UnderWay)
    BY <1>2 DEF Unmounted, GoesOn
  <2> QED
    BY <2>1 DEF UnderWay
<1>3. ASSUME NEW i \in Sessions, Ended(i)
      PROVE  CompanyInv'
  BY <1>3 DEF Ended, Ends, Others, UnderWay, ServiceTypeOK, UnderWay, Sessions
<1>4. ASSUME NEW i \in Sessions, Sent(i)
      PROVE  CompanyInv'
  BY <1>4 DEF Sent, Moves, Others, ServiceTypeOK, UnderWay, Sessions
<1>5. ASSUME NEW i \in Sessions, Opened(i)
      PROVE  CompanyInv'
  BY <1>5 DEF Opened, Moves, Others, ServiceTypeOK, UnderWay, Sessions
<1>6. ASSUME NEW i \in Sessions, Mounted(i)
      PROVE  CompanyInv'
  BY <1>6 DEF Mounted, Fresh, Begins, GoesOn, ServiceTypeOK, UnderWay, Sessions
<1>7. ASSUME NEW i \in Sessions, NEW kind, NEW at, Began(i, kind, at)
      PROVE  CompanyInv'
  <2>1. /\ i \notin UnderWay
        /\ session'[i].company = (UnderWay # {})
        /\ \A j \in Sessions \ {i} :
             /\ session'[j].at = session[j].at
             /\ session'[j].company = (session[j].company \/ j \in UnderWay)
    BY <1>7 DEF Began, Fresh, Begins, GoesOn, UnderWay
  <2>2. UnderWay' \ {i} = UnderWay
    BY <2>1 DEF UnderWay
  <2> QED
    BY <2>1, <2>2 DEF UnderWay
<1> QED
  BY <1>1, <1>2, <1>3, <1>4, <1>5, <1>6, <1>7 DEF Effect

\* What a session on its own awaits is in the slot, or is still to come.
Served(i) ==
  /\ session[i].at = "connect" /\ promise[i] = "waiting" =>
       line[i] \in {"dialing", "closed"} \/ pending = Login(i)
  /\ session[i].at = "send" /\ answer[Current(i)] = "waiting" =>
       pending = Command(Current(i))

ServedInv == \A i \in UnderWay : ~session[i].company => Served(i)

LEMMA EndLeavesCompany ==
  ASSUME ServiceTypeOK, CompanyInv, NEW i \in Sessions, i \in UnderWay,
         session' = [session EXCEPT ![i] = Over(i)]
  PROVE  ServedInv'
<1>1. Ends(i)
  BY EndEffect
<1>2. \A j \in Sessions \ {i} : j \in UnderWay' => session'[j].company
  BY <1>1 DEF Ends, Others, UnderWay, CompanyInv
<1>3. i \notin UnderWay'
  BY <1>1 DEF Ends, UnderWay
<1> QED
  BY <1>2, <1>3 DEF ServedInv, UnderWay

LEMMA SendLeavesCompany ==
  ASSUME ServiceTypeOK, CompanyInv, NEW i \in Sessions, i \in UnderWay, SendLast(i)
  PROVE  ServedInv'
<1>1. Moves(i, "send") /\ session'[i].more = FALSE
  BY SendEffect
<1>2. \A j \in Sessions \ {i} : j \in UnderWay' => session'[j].company
  BY <1>1 DEF Moves, Others, UnderWay, CompanyInv
<1>3. pending' = Command(Current(i)')
  BY <1>1 DEF SendLast, SendCommand, Current
<1>4. Served(i)'
  BY <1>1, <1>3 DEF Served, Moves
<1> QED
  BY <1>2, <1>4 DEF ServedInv, UnderWay

LEMMA EventServes ==
  ASSUME SlotTypeOK, ServiceTypeOK, PromiseInv, ConnectInv, CompanyInv, ServedInv,
         Timer \/ \E s \in Sockets : DialEnds(s) \/ LineEvent(s)
  PROVE  ServedInv'
<1>1. session' = session
  BY DEF DialEnds, LineEvent, Timer
<1> SUFFICES ASSUME NEW i \in Sessions, i \in UnderWay, ~session[i].company
             PROVE  Served(i)'
  BY <1>1 DEF ServedInv, UnderWay
<1>2. Served(i) /\ \A j \in Sessions \ {i} : j \notin UnderWay
  BY DEF ServedInv, CompanyInv
<1>3. Current(i) \in Commands /\ Current(i)' = Current(i)
  BY <1>1 DEF Current, Commands
<1>4. ASSUME NEW verdict \in {"resolved", "rejected"}, Settle(verdict),
             line'[i] = line[i] \/ line'[i] = "closed"
      PROVE  Served(i)'
  <2>1. promise'[i] = IF pending = Login(i) THEN verdict ELSE promise[i]
    BY <1>4 DEF Settle, Sockets
  <2>2. answer'[Current(i)] = IF pending = Command(Current(i)) THEN verdict
                              ELSE answer[Current(i)]
    BY <1>3, <1>4 DEF Settle
  <2> QED
    BY <1>1, <1>2, <1>3, <1>4, <2>1, <2>2 DEF Served
<1>5. ASSUME NEW s \in Sockets, Answer(s)
      PROVE  Served(i)'
  BY <1>4, <1>5 DEF Answer
<1>6. ASSUME NEW s \in Sockets, SocketError(s)
      PROVE  Served(i)'
  <2>1. line'[i] = line[i] \/ line'[i] = "closed"
    BY <1>6 DEF SocketError, SlotTypeOK, Sockets
  <2>2. CASE Settle("rejected")
    BY <1>4, <2>1, <2>2
  <2>3. CASE pending = Empty /\ UNCHANGED <<pending, answer>>
             /\ promise' = [promise EXCEPT ![s] = IF @ = "waiting" THEN "rejected" ELSE @]
    <3>1. promise'[i] = "waiting" => promise[i] = "waiting"
      BY <2>3 DEF SlotTypeOK, Sockets
    <3> QED
      BY <1>1, <1>2, <1>3, <2>1, <2>3, <3>1 DEF Served
  <2> QED
    BY <1>6, <2>2, <2>3 DEF SocketError
<1>7. ASSUME NEW s \in Sockets, SocketTimeout(s)
      PROVE  Served(i)'
  <2>1. line'[i] = line[i] \/ line'[i] = "closed"
    BY <1>7 DEF SocketTimeout, SlotTypeOK, Sockets
  <2>2. CASE Settle("rejected")
    BY <1>4, <2>1, <2>2
  <2>3. CASE UNCHANGED <<promise, pending, answer>>
    BY <1>1, <1>2, <1>3, <2>1, <2>3 DEF Served
  <2> QED
    BY <1>7, <2>2, <2>3 DEF SocketTimeout
<1>8. ASSUME NEW s \in Sockets, PeerCloses(s)
      PROVE  Served(i)'
  <2>1. line'[i] = line[i] \/ line'[i] = "closed"
    BY <1>8 DEF PeerCloses, SlotTypeOK, Sockets
  <2> QED
    BY <1>1, <1>2, <1>3, <1>8, <2>1 DEF Served, PeerCloses
<1>9. ASSUME NEW s \in Sockets, Connected(s)
      PROVE  Served(i)'
  <2>1. promise[s] = "waiting"
    BY <1>9 DEF Connected, PromiseInv
  <2>2. s = i /\ session[i].at = "connect"
    BY <1>2, <2>1 DEF ConnectInv, UnderWay, Sockets
  <2> QED
    BY <1>1, <1>9, <2>2 DEF Connected, Served
<1>10. CASE TimeOut
  BY <1>4, <1>10 DEF TimeOut
<1> QED
  BY <1>5, <1>6, <1>7, <1>8, <1>9, <1>10 DEF DialEnds, LineEvent, Timer

LEMMA ServedStep ==
  ASSUME SlotTypeOK, ServiceTypeOK, PromiseInv, ConnectInv, CompanyInv,
         ServedInv, [SessionNext]_sessionVars
  PROVE  ServedInv'
<1> USE DEF ServedInv, Sockets
<1>1. ASSUME NEW i \in Sessions, Resolved(i)
      PROVE  ServedInv'
  <2>1. i \in UnderWay
    BY <1>1 DEF Resolved, ConnectSettled, UnderWay
  <2>2. CASE Finish(i)
    BY <2>1, <2>2, EndLeavesCompany DEF Finish
  <2>3. CASE SendLast(i)
    BY <2>1, <2>3, SendLeavesCompany
  <2> QED
    BY <1>1, <2>2, <2>3 DEF Resolved
<1>2. ASSUME NEW i \in Sessions, Rejected(i)
      PROVE  ServedInv'
  <2>1. i \in UnderWay
    BY <1>2 DEF Rejected, ConnectSettled, UnderWay
  <2> QED
    BY <1>2, <2>1, EndLeavesCompany DEF Rejected
<1>3. ASSUME NEW i \in Sessions, AnswerComes(i)
      PROVE  ServedInv'
  <2>1. i \in UnderWay
    BY <1>3 DEF AnswerComes, AnswerSettled, UnderWay
  <2>2. CASE Finish(i)
    BY <2>1, <2>2, EndLeavesCompany DEF Finish
  <2>3. CASE SendLast(i)
    BY <2>1, <2>3, SendLeavesCompany
  <2> QED
    BY <1>3, <2>2, <2>3 DEF AnswerComes
<1>4. ASSUME NEW i \in Sessions, CallFails(i)
      PROVE  ServedInv'
  <2>1. i \in UnderWay
    BY <1>4 DEF CallFails, AnswerSettled, UnderWay
  <2> QED
    BY <1>4, <2>1, EndLeavesCompany DEF CallFails, Finish
<1>5. ASSUME NEW i \in Sessions, MountTab(i)
      PROVE  ServedInv'
  <2>1. session'[i].company /\ session'[i + 1].company
    BY <1>5, MountEffect DEF Begins
  <2>2. \A j \in Sessions \ {i, i + 1} : j \in UnderWay' => session'[j].company
    BY <1>5, MountEffect DEF GoesOn, UnderWay
  <2> QED
    BY <2>1, <2>2 DEF UnderWay
<1>6. ASSUME NEW i \in Sessions, TunnelOpens(i)
      PROVE  ServedInv'
  <2>1. i \in UnderWay /\ line'[i] = "dialing"
    BY <1>6 DEF TunnelOpens, UnderWay, Dial, Connect, SlotTypeOK, Sockets
  <2>2. Moves(i, "connect")
    BY <1>6, TunnelEffect
  <2>3. \A j \in Sessions \ {i} : j \in UnderWay' => session'[j].company
    BY <2>1, <2>2 DEF Moves, Others, UnderWay, CompanyInv
  <2>4. Served(i)'
    BY <2>1, <2>2 DEF Served, Moves
  <2> QED
    BY <2>3, <2>4 DEF UnderWay
<1>7. ASSUME NEW i \in Sessions, TunnelFails(i)
      PROVE  ServedInv'
  <2>1. i \in UnderWay
    BY <1>7 DEF TunnelFails, UnderWay
  <2> QED
    BY <1>7, <2>1, EndLeavesCompany DEF TunnelFails
<1>8. ASSUME NEW i \in Sessions, PollAgain(i)
      PROVE  ServedInv'
  <2>1. line'[i] = "dialing"
    BY <1>8 DEF PollAgain, Dial, Connect, SlotTypeOK, Sockets
  <2>2. \A j \in Sessions \ {i} : j \in UnderWay' => session'[j].company
    BY <1>8, PollEffect DEF GoesOn, UnderWay
  <2>3. Served(i)'
    BY <1>8, <2>1, PollEffect DEF Served, Begins
  <2> QED
    BY <2>2, <2>3 DEF UnderWay
<1>9. ASSUME NEW i \in Sessions, StartSending(i)
      PROVE  ServedInv'
  <2>1. pending' = Command(Current(i)')
    BY <1>9, SendingEffect DEF SendCommand, Current
  <2>2. \A j \in Sessions \ {i} : j \in UnderWay' => session'[j].company
    BY <1>9, SendingEffect DEF GoesOn, UnderWay
  <2>3. Served(i)'
    BY <1>9, <2>1, SendingEffect DEF Served, Begins
  <2> QED
    BY <2>2, <2>3 DEF UnderWay
<1>10. CASE UnmountTab
  <2>1. \A j \in Sessions : session'[j].at = session[j].at
          /\ session'[j].company = (session[j].company \/ j \in UnderWay)
    BY <1>10, UnmountEffect DEF GoesOn
  <2> QED
    BY <2>1 DEF UnderWay
<1>11. ASSUME NEW s \in Sessions, DialEnds(s)
      PROVE  ServedInv'
  BY <1>11, EventServes
<1>12. ASSUME NEW s \in Sessions, LineEvent(s)
      PROVE  ServedInv'
  BY <1>12, EventServes
<1>13. CASE Timer
  BY <1>13, EventServes
<1>14. CASE UNCHANGED sessionVars
  BY <1>14 DEF sessionVars, gatewayVars, serviceVars, Served, UnderWay, Current
<1> QED
  BY <1>1, <1>2, <1>3, <1>4, <1>5, <1>6, <1>7, <1>8, <1>9, <1>10, <1>11, <1>12,
     <1>13, <1>14
     DEF SessionNext, Continue, Sockets

\* Nobody's connection: whoever made it disconnects it in the end.
Minding(i) ==
  /\ session[i].kind = "poll"
  /\ \/ session[i].at = "send"
     \/ session[i].at = "connect" /\ promise[i] = "resolved"

OwnInv ==
  /\ connected /\ tab = NoSession
  /\ \A i \in Sessions : session[i].leftIn = "none"
  => \E i \in Sessions : Minding(i)

\* Only the login of a poll makes a connection nobody has a tab for.
LEMMA EventMinds ==
  ASSUME SlotTypeOK, ServiceTypeOK, TabInv, PromiseInv, ConnectInv, OwnInv,
         Timer \/ \E s \in Sockets : DialEnds(s) \/ LineEvent(s)
  PROVE  OwnInv'
<1>1. session' = session /\ tab' = tab
  BY DEF DialEnds, LineEvent, Timer, serviceVars
<1> SUFFICES ASSUME connected', tab = NoSession,
                    \A i \in Sessions : session[i].leftIn = "none"
             PROVE  \E i \in Sessions : Minding(i)'
  BY <1>1 DEF OwnInv
<1>2. ASSUME connected, \A u \in Sockets : promise[u] = "resolved" =>
                                          promise'[u] = "resolved"
      PROVE  \E i \in Sessions : Minding(i)'
  BY <1>1, <1>2 DEF OwnInv, Minding, Sockets
<1>3. \A u \in Sockets : pending = Login(u) => promise[u] = "waiting"
  BY DEF PromiseInv
<1>4. ASSUME NEW verdict \in {"resolved", "rejected"}, Settle(verdict)
      PROVE  \A u \in Sockets : promise[u] = "resolved" => promise'[u] = "resolved"
  BY <1>3, <1>4 DEF Settle
<1>5. ASSUME NEW s \in Sockets, Answer(s)
      PROVE  \E i \in Sessions : Minding(i)'
  <2>1. CASE connected
    BY <1>2, <1>4, <1>5, <2>1 DEF Answer
  <2>2. CASE Settle("resolved") /\ LoggingIn
    <3>1. PICK u \in Sockets : pending = Login(u)
      BY <2>2 DEF LoggingIn
    <3>2. promise'[u] = "resolved"
      BY <2>2, <3>1 DEF Settle
    <3>3. session[u].at = "connect" /\ session[u].leftIn = "none" /\ u # NoSession
      BY <1>3, <3>1, SessionAssumption
         DEF ConnectInv, Sockets, Sessions, NoSession
    <3>4. session[u].kind = "poll"
      BY <3>3 DEF TabInv, Sockets
    <3> QED
      BY <1>1, <3>2, <3>3, <3>4 DEF Minding, Sockets
  <2> QED
    BY <1>5, <2>1, <2>2 DEF Answer
<1>6. ASSUME NEW s \in Sockets, SocketError(s) \/ SocketTimeout(s)
      PROVE  FALSE
  BY <1>6 DEF SocketError, SocketTimeout
<1>7. ASSUME NEW s \in Sockets, Connected(s) \/ PeerCloses(s)
      PROVE  \E i \in Sessions : Minding(i)'
  BY <1>2, <1>7 DEF Connected, PeerCloses
<1>8. CASE TimeOut
  BY <1>2, <1>4, <1>8 DEF TimeOut
<1> QED
  BY <1>5, <1>6, <1>7, <1>8 DEF DialEnds, LineEvent, Timer

LEMMA OwnStep ==
  ASSUME SlotTypeOK, ServiceTypeOK, TabInv, PromiseInv, ConnectInv, OwnInv,
         [SessionNext]_sessionVars
  PROVE  OwnInv'
<1> USE DEF OwnInv
<1>1. ASSUME NEW i \in Sessions, Resolved(i)
      PROVE  OwnInv'
  <2>1. CASE Finish(i)
    <3>1. Ends(i)
      BY <2>1, EndEffect DEF Finish
    <3>2. CASE session[i].kind = "poll"
      BY <2>1, <3>2 DEF Finish, DisconnectService, Disconnect
    <3>3. CASE session[i].kind # "poll"
      <4>1. connected' = connected /\ promise' = promise /\ tab' = tab
        BY <1>1, <2>1, <3>3 DEF Finish, gatewayVars, Resolved
      <4> QED
        BY <3>1, <3>3, <4>1 DEF Ends, Others, Minding
    <3> QED
      BY <3>2, <3>3
  <2>2. CASE SendLast(i)
    <3>1. Moves(i, "send") /\ connected' = connected /\ promise' = promise /\ tab' = tab
      BY <1>1, <2>2, SendEffect DEF SendLast, SendCommand, Resolved
    <3> QED
      BY <3>1 DEF Moves, Others, Minding
  <2> QED
    BY <1>1, <2>1, <2>2 DEF Resolved
<1>2. ASSUME NEW i \in Sessions, Rejected(i)
      PROVE  OwnInv'
  <2>1. Ends(i)
    BY <1>2, EndEffect DEF Rejected
  <2>2. connected' = connected /\ promise' = promise /\ tab' = tab
        /\ session[i].at = "connect" /\ promise[i] = "rejected"
    BY <1>2 DEF Rejected, ConnectSettled, gatewayVars, serviceVars
  <2> QED
    BY <2>1, <2>2 DEF Ends, Others, Minding
<1>3. ASSUME NEW i \in Sessions, AnswerComes(i)
      PROVE  OwnInv'
  <2>1. CASE Finish(i)
    <3>1. Ends(i)
      BY <2>1, EndEffect DEF Finish
    <3>2. CASE session[i].kind = "poll"
      BY <2>1, <3>2 DEF Finish, DisconnectService, Disconnect
    <3>3. CASE session[i].kind # "poll"
      <4>1. connected' = connected /\ promise' = promise /\ tab' = tab
        BY <1>3, <2>1, <3>3 DEF Finish, gatewayVars, AnswerComes
      <4> QED
        BY <3>1, <3>3, <4>1 DEF Ends, Others, Minding
    <3> QED
      BY <3>2, <3>3
  <2>2. CASE SendLast(i)
    <3>1. Moves(i, "send") /\ connected' = connected /\ promise' = promise /\ tab' = tab
      BY <1>3, <2>2, SendEffect DEF SendLast, SendCommand, AnswerComes
    <3> QED
      BY <3>1 DEF Moves, Others, Minding
  <2> QED
    BY <1>3, <2>1, <2>2 DEF AnswerComes
<1>4. ASSUME NEW i \in Sessions, CallFails(i)
      PROVE  OwnInv'
  <2>1. CASE Finish(i)
    <3>1. Ends(i)
      BY <2>1, EndEffect DEF Finish
    <3>2. CASE session[i].kind = "poll"
      BY <2>1, <3>2 DEF Finish, DisconnectService, Disconnect
    <3>3. CASE session[i].kind # "poll"
      <4>1. connected' = connected /\ promise' = promise /\ tab' = tab
        BY <1>4, <2>1, <3>3 DEF Finish, gatewayVars, CallFails
      <4> QED
        BY <3>1, <3>3, <4>1 DEF Ends, Others, Minding
    <3> QED
      BY <3>2, <3>3
  <2>2. CASE SendLast(i)
    <3>1. Moves(i, "send") /\ connected' = connected /\ promise' = promise /\ tab' = tab
      BY <1>4, <2>2, SendEffect DEF SendLast, SendCommand, CallFails
    <3> QED
      BY <3>1 DEF Moves, Others, Minding
  <2> QED
    BY <1>4, <2>1, <2>2 DEF CallFails
<1>5. ASSUME NEW i \in Sessions, MountTab(i)
      PROVE  OwnInv'
  <2>1. tab' # NoSession
    BY <1>5, MountEffect, SessionAssumption DEF MountTab, Sessions, NoSession
  <2> QED
    BY <2>1
<1>6. ASSUME NEW i \in Sessions, TunnelOpens(i)
      PROVE  OwnInv'
  <2>1. Moves(i, "connect")
    BY <1>6, TunnelEffect
  <2>2. /\ connected' = connected /\ tab' = tab /\ session[i].at = "tunnel"
        /\ \A j \in Sessions \ {i} : promise'[j] = promise[j]
    BY <1>6 DEF TunnelOpens, Dial, Connect, SlotTypeOK, Sockets
  <2> QED
    BY <2>1, <2>2 DEF Moves, Others, Minding
<1>7. ASSUME NEW i \in Sessions, TunnelFails(i)
      PROVE  OwnInv'
  <2>1. Ends(i)
    BY <1>7, EndEffect DEF TunnelFails
  <2>2. connected' = connected /\ promise' = promise /\ tab' = tab
        /\ session[i].at = "tunnel"
    BY <1>7 DEF TunnelFails, gatewayVars, serviceVars
  <2> QED
    BY <2>1, <2>2 DEF Ends, Others, Minding
<1>8. ASSUME NEW i \in Sessions, PollAgain(i)
      PROVE  OwnInv'
  <2>1. /\ connected' = connected /\ tab' = tab /\ session[i].at = "unused"
        /\ \A j \in Sessions \ {i} : promise'[j] = promise[j]
    BY <1>8 DEF PollAgain, Fresh, Dial, Connect, SlotTypeOK, Sockets
  <2>2. session[i].leftIn = "none"
    BY <2>1 DEF TabInv
  <2>3. \A j \in Sessions \ {i} : session'[j].kind = session[j].kind
          /\ session'[j].at = session[j].at /\ session'[j].leftIn = session[j].leftIn
    BY <1>8, PollEffect DEF GoesOn
  <2> QED
    BY <2>1, <2>2, <2>3 DEF Minding
<1>9. ASSUME NEW i \in Sessions, StartSending(i)
      PROVE  OwnInv'
  <2>1. /\ connected' = connected /\ tab' = tab /\ session[i].at = "unused"
        /\ promise' = promise
    BY <1>9 DEF StartSending, Fresh, SendCommand, serviceVars
  <2>2. session[i].leftIn = "none"
    BY <2>1 DEF TabInv
  <2>3. \A j \in Sessions \ {i} : session'[j].kind = session[j].kind
          /\ session'[j].at = session[j].at /\ session'[j].leftIn = session[j].leftIn
    BY <1>9, SendingEffect DEF GoesOn
  <2> QED
    BY <2>1, <2>2, <2>3 DEF Minding
<1>10. CASE UnmountTab
  <2>1. connected' = FALSE
    BY <1>10 DEF UnmountTab, DisconnectService, Disconnect
  <2> QED
    BY <2>1
<1>11. ASSUME NEW s \in Sessions, DialEnds(s)
      PROVE  OwnInv'
  BY <1>11, EventMinds DEF Sockets
<1>12. ASSUME NEW s \in Sessions, LineEvent(s)
      PROVE  OwnInv'
  BY <1>12, EventMinds DEF Sockets
<1>13. CASE Timer
  BY <1>13, EventMinds
<1>14. CASE UNCHANGED sessionVars
  BY <1>14 DEF sessionVars, gatewayVars, serviceVars, Minding
<1> QED
  BY <1>1, <1>2, <1>3, <1>4, <1>5, <1>6, <1>7, <1>8, <1>9, <1>10, <1>11, <1>12,
     <1>13, <1>14
     DEF SessionNext, Continue, Sockets

-----------------------------------------------------------------------------
(* Whose connection it is.                                                 *)

\* The connection is that of the tab mounted or of a poll under way, or its
\* connect was rejected, or its tab was left before it had it.
Accounted(s) ==
  \/ session[s].kind = "poll" /\ s \in UnderWay
  \/ s = tab
  \/ promise[s] = "rejected"
  \/ session[s].leftIn # "none"

RouteInv == socket # NoSocket => Accounted(socket)

LEMMA SlotRoute ==
  ASSUME SlotTypeOK, PromiseInv, SlotNext \/ UNCHANGED slotVars
  PROVE  /\ \A u \in Sockets : promise[u] = "rejected" => promise'[u] = "rejected"
         /\ \/ socket' \in {socket, NoSocket}
            \/ socket' \in Sockets /\ promise'[socket'] = "waiting"
<1> USE DEF SlotTypeOK
<1>1. ASSUME NEW s \in Sockets, Connect(s)
      PROVE  /\ socket' = socket
             /\ \A u \in Sockets : promise[u] = "rejected" => promise'[u] = "rejected"
  BY <1>1 DEF Connect, PromiseInv
<1>2. ASSUME NEW s \in Sockets, Connected(s)
      PROVE  socket' = s /\ promise' = promise /\ promise[s] = "waiting"
  BY <1>2 DEF Connected, PromiseInv
<1>3. \A u \in Sockets : pending = Login(u) => promise[u] = "waiting"
  BY DEF PromiseInv
<1>4. ASSUME NEW verdict, Settle(verdict)
      PROVE  \A u \in Sockets : promise[u] = "rejected" => promise'[u] = "rejected"
  BY <1>3, <1>4 DEF Settle
<1>5. ASSUME NEW s \in Sockets,
             Answer(s) \/ SocketError(s) \/ SocketTimeout(s) \/ PeerCloses(s)
      PROVE  /\ socket' = socket
             /\ \A u \in Sockets : promise[u] = "rejected" => promise'[u] = "rejected"
  BY <1>4, <1>5 DEF Answer, SocketError, SocketTimeout, PeerCloses
<1>6. ASSUME NEW c \in Commands, SendCommand(c)
      PROVE  socket' = socket /\ promise' = promise
  BY <1>6 DEF SendCommand
<1>7. CASE TimeOut
  BY <1>4, <1>7 DEF TimeOut
<1>8. CASE Disconnect
  BY <1>8 DEF Disconnect
<1>9. CASE UNCHANGED slotVars
  BY <1>9 DEF slotVars
<1> QED
  BY <1>1, <1>2, <1>5, <1>6, <1>7, <1>8, <1>9 DEF SlotNext

\* A poll disconnects when it ends, unless its connect was rejected.
LEMMA PollLeaves ==
  ASSUME ServiceTypeOK, OrderInv, TabInv, [SessionNext]_sessionVars,
         NEW i \in Sessions, session[i].kind = "poll", i \in UnderWay
  PROVE  \/ session'[i].kind = "poll" /\ i \in UnderWay'
         \/ socket' = NoSocket
         \/ promise[i] = "rejected"
<1> DEFINE Stays == session'[i].kind = "poll" /\ i \in UnderWay'
<1>1. ASSUME NEW j \in Sessions, Ends(j), j # i
      PROVE  Stays
  BY <1>1 DEF Ends, Others, UnderWay
<1>2. ASSUME NEW j \in Sessions, Moves(j, "send") \/ Moves(j, "connect")
      PROVE  Stays
  BY <1>2 DEF Moves, Others, UnderWay
<1>3. GoesOn(i) => Stays
  BY DEF GoesOn, UnderWay
<1>4. ASSUME NEW j \in Sessions, Finish(j)
      PROVE  Stays \/ socket' = NoSocket
  <2>1. Ends(j)
    BY <1>4, EndEffect DEF Finish
  <2>2. j = i => socket' = NoSocket
    BY <1>4 DEF Finish, DisconnectService, Disconnect
  <2> QED
    BY <1>1, <2>1, <2>2
<1>5. ASSUME NEW j \in Sessions, Resolved(j) \/ AnswerComes(j) \/ CallFails(j)
      PROVE  Stays \/ socket' = NoSocket
  <2>1. Finish(j) \/ SendLast(j)
    BY <1>5 DEF Resolved, AnswerComes, CallFails
  <2> QED
    BY <1>2, <1>4, <2>1, SendEffect
<1>6. ASSUME NEW j \in Sessions, Rejected(j)
      PROVE  Stays \/ promise[i] = "rejected"
  <2>1. Ends(j)
    BY <1>6, EndEffect DEF Rejected
  <2> QED
    BY <1>1, <1>6, <2>1 DEF Rejected
<1>7. ASSUME NEW j \in Sessions, MountTab(j)
      PROVE  Stays
  <2>1. session[j].at = "unused" /\ session[i].at # "unused"
    BY <1>7 DEF MountTab, Fresh, UnderWay
  <2>2. /\ j + 1 \in Sessions
        /\ \A k \in Sessions \ {j, j + 1} : GoesOn(k)
    BY <1>7, MountEffect
  <2>3. i # j + 1
    BY <2>1, <2>2 DEF OrderInv, Sessions
  <2> QED
    BY <1>3, <2>1, <2>2, <2>3
<1>8. ASSUME NEW j \in Sessions, TunnelOpens(j)
      PROVE  Stays
  BY <1>2, <1>8, TunnelEffect
<1>9. ASSUME NEW j \in Sessions, TunnelFails(j)
      PROVE  Stays
  <2>1. Ends(j) /\ j # i
    BY <1>9, EndEffect DEF TunnelFails, TabInv
  <2> QED
    BY <1>1, <2>1
<1>10. ASSUME NEW j \in Sessions, PollAgain(j)
      PROVE  Stays
  BY <1>3, <1>10, PollEffect DEF PollAgain, Fresh, UnderWay
<1>11. ASSUME NEW j \in Sessions, StartSending(j)
      PROVE  Stays
  BY <1>3, <1>11, SendingEffect DEF StartSending, Fresh, UnderWay
<1>12. CASE UnmountTab
  BY <1>12 DEF UnmountTab, DisconnectService, Disconnect
<1>13. session' = session => Stays
  BY DEF UnderWay
<1>14. ASSUME NEW s \in Sessions, DialEnds(s) \/ LineEvent(s)
      PROVE  Stays
  BY <1>13, <1>14 DEF DialEnds, LineEvent
<1>15. CASE Timer
  BY <1>13, <1>15 DEF Timer
<1>16. CASE UNCHANGED sessionVars
  BY <1>13, <1>16 DEF sessionVars
<1> QED
  BY <1>5, <1>6, <1>7, <1>8, <1>9, <1>10, <1>11, <1>12, <1>14, <1>15, <1>16
     DEF SessionNext, Continue, Sockets

LEMMA TabKept ==
  [SessionNext]_sessionVars =>
    UnmountTab \/ tab' = tab \/ \E i \in Sessions : MountTab(i)
  BY DEF SessionNext, Continue, Resolved, Rejected, AnswerComes, CallFails,
         TunnelOpens, TunnelFails, PollAgain, StartSending, DialEnds, LineEvent, Timer,
         sessionVars, serviceVars, Sockets

LEMMA RouteStep ==
  ASSUME SlotTypeOK, ServiceTypeOK, OrderInv, TabInv, PromiseInv, ConnectInv, RouteInv,
         TabInv', ConnectInv', SlotNext \/ UNCHANGED slotVars, Effect,
         [SessionNext]_sessionVars
  PROVE  RouteInv'
<1>1. \A i \in Sessions : i # NoSession
  BY SessionAssumption DEF Sessions, NoSession
<1>2. CASE socket' \in Sockets /\ promise'[socket'] = "waiting"
  <2>1. session'[socket'].at = "connect"
    BY <1>2 DEF ConnectInv, Sockets
  <2> QED
    BY <1>2, <2>1 DEF RouteInv, Accounted, TabInv, UnderWay, Sockets
<1>3. CASE socket' = NoSocket
  BY <1>3 DEF RouteInv
<1>4. CASE socket' = socket /\ socket # NoSocket
  <2>1. socket \in Sessions /\ session[socket].at # "unused"
    BY <1>4 DEF SlotTypeOK, PromiseInv, ConnectInv, Sockets
  <2>2. CASE promise[socket] = "rejected"
    BY <1>4, <2>1, <2>2, SlotRoute DEF RouteInv, Accounted, Sockets
  <2>3. CASE session[socket].kind = "poll" /\ socket \in UnderWay
    BY <1>4, <2>1, <2>2, <2>3, PollLeaves DEF RouteInv, Accounted
  <2>4. CASE UnmountTab
    BY <1>4, <2>4 DEF UnmountTab, DisconnectService, Disconnect
  <2>5. ASSUME NEW i \in Sessions, MountTab(i)
        PROVE  RouteInv'
    <3>1. CASE session[socket].leftIn # "none"
      <4>1. socket # i /\ socket # i + 1
        BY <2>1, <2>5, MountEffect DEF MountTab, Fresh, OrderInv, Sessions
      <4>2. session'[socket].leftIn = session[socket].leftIn
        BY <2>1, <2>5, <4>1, MountEffect DEF GoesOn
      <4> QED
        BY <1>4, <3>1, <4>2 DEF RouteInv, Accounted
    <3> QED
      BY <1>1, <1>4, <2>1, <2>2, <2>3, <2>5, <3>1 DEF RouteInv, Accounted, MountTab
  <2>6. CASE tab' = tab /\ session[socket].leftIn # "none"
    <3>1. session'[socket].leftIn = session[socket].leftIn
      BY <1>1, <2>1, <2>6
         DEF Effect, Untouched, Unmounted, Ended, Ends, Sent, Opened, Moves, Others,
             Mounted, Began, Fresh, GoesOn, UnderWay
    <3> QED
      BY <1>4, <2>6, <3>1 DEF RouteInv, Accounted
  <2> QED
    BY <1>4, <2>2, <2>3, <2>4, <2>5, <2>6, TabKept DEF RouteInv, Accounted
<1> QED
  BY <1>2, <1>3, <1>4, SlotRoute

-----------------------------------------------------------------------------
(* Tunnels.                                                                *)

\* Who was left before it had a tunnel, and is past that.
Late == {i \in Sessions : session[i].leftIn = "tunnel" /\ session[i].at # "tunnel"}

\* Every tunnel but the one this.tunnel knows of has its late tab; there is
\* room for one more as long as the tab mounted has not opened its own.
TunnelInv ==
  /\ Cardinality(tunnels \ {tunnel}) <= Cardinality(Late)
  /\ tunnel # NoSession /\ (tab = NoSession \/ session[tab].at = "tunnel") =>
       Cardinality(tunnels \ {tunnel}) < Cardinality(Late)
  /\ tunnel # NoSession => tunnel \in tunnels
  /\ \A i \in tunnels : session[i].at \notin {"unused", "tunnel"}

LEMMA Finite ==
  /\ IsFiniteSet(Sessions)
  /\ \A S \in SUBSET Sessions : IsFiniteSet(S) /\ Cardinality(S) \in Nat
<1>1. IsFiniteSet(Sessions)
  BY SessionAssumption, FS_Interval DEF Sessions
<1> QED
  BY <1>1, FS_Subset, FS_CardinalityType

LEMMA Smaller ==
  ASSUME NEW S \in SUBSET Sessions, NEW T \in SUBSET S
  PROVE  Cardinality(T) <= Cardinality(S)
  BY Finite, FS_Subset

LEMMA OneMore ==
  ASSUME NEW S \in SUBSET Sessions, NEW x \in Sessions, x \notin S
  PROVE  Cardinality(S \union {x}) = Cardinality(S) + 1
  BY Finite, FS_AddElement

LEMMA OneLess ==
  ASSUME NEW S \in SUBSET Sessions, NEW x \in S
  PROVE  Cardinality(S \ {x}) = Cardinality(S) - 1
  BY Finite, FS_RemoveElement

\* A tunnel that closes, or none: a tab is late for ever.
LEMMA TunnelRest ==
  ASSUME ServiceTypeOK, TunnelInv, ServiceTypeOK',
         Late \subseteq Late',
         \A i \in tunnels : session'[i].at \notin {"unused", "tunnel"},
         \/ /\ tunnel' = tunnel /\ tunnels' = tunnels
            /\ tab' = NoSession \/ session'[tab'].at = "tunnel" =>
                 tab = NoSession \/ session[tab].at = "tunnel"
         \/ tunnel' = NoSession /\ tunnels' = tunnels \ {tunnel}
  PROVE  TunnelInv'
<1>1. /\ Late \in SUBSET Sessions /\ Late' \in SUBSET Sessions
      /\ tunnels \ {tunnel} \in SUBSET Sessions
  BY DEF Late, ServiceTypeOK
<1>2. /\ Cardinality(Late) \in Nat /\ Cardinality(Late') \in Nat
      /\ Cardinality(tunnels \ {tunnel}) \in Nat
      /\ Cardinality(Late) <= Cardinality(Late')
  BY <1>1, Finite, Smaller
<1>3. CASE tunnel' = tunnel /\ tunnels' = tunnels
  BY <1>2, <1>3 DEF TunnelInv, ServiceTypeOK, NoSession, Sessions
<1>4. CASE tunnel' = NoSession /\ tunnels' = tunnels \ {tunnel}
  <2>1. tunnels' \ {tunnel'} = tunnels \ {tunnel}
    BY <1>4, SessionAssumption DEF ServiceTypeOK, NoSession, Sessions
  <2>2. Cardinality(tunnels' \ {tunnel'}) <= Cardinality(Late')
    <3>1. Cardinality(tunnels \ {tunnel}) <= Cardinality(Late)
      BY DEF TunnelInv
    <3>2. Cardinality(tunnels' \ {tunnel'}) = Cardinality(tunnels \ {tunnel})
      BY <2>1, Zenon
    <3> QED
      BY <1>2, <3>1, <3>2
  <2>3. \A i \in tunnels' : session'[i].at \notin {"unused", "tunnel"}
    BY <1>4
  <2> QED
    BY <1>4, <2>2, <2>3 DEF TunnelInv
<1> QED
  BY <1>3, <1>4

LEMMA TunnelMore ==
  ASSUME ServiceTypeOK, ServiceTypeOK', TabInv, TunnelInv,
         NEW i \in Sessions, TunnelOpens(i)
  PROVE  TunnelInv'
<1>1. /\ Moves(i, "connect") /\ session[i].at = "tunnel"
      /\ tab' = tab /\ tunnel' = i /\ tunnels' = tunnels \union {i}
  BY TunnelEffect DEF TunnelOpens
<1>2. i \notin tunnels /\ i # NoSession
  BY <1>1, SessionAssumption DEF TunnelInv, Sessions, NoSession
<1>3. tunnels' \ {tunnel'} = tunnels
  BY <1>1, <1>2
<1>4. /\ tunnels \in SUBSET Sessions /\ Late \in SUBSET Sessions
      /\ Cardinality(tunnels) \in Nat /\ Cardinality(Late) \in Nat
  BY Finite DEF Late, ServiceTypeOK
<1>5. Cardinality(tunnels) = IF tunnel = NoSession
                             THEN Cardinality(tunnels \ {tunnel})
                             ELSE Cardinality(tunnels \ {tunnel}) + 1
  <2>1. CASE tunnel = NoSession
    <3>1. tunnels \ {tunnel} = tunnels
      BY <2>1, SessionAssumption DEF ServiceTypeOK, Sessions, NoSession
    <3> QED
      BY <2>1, <3>1
  <2>2. CASE tunnel # NoSession
    <3>1. tunnel \in tunnels
      BY <2>2 DEF TunnelInv
    <3> QED
      BY <1>4, <2>2, <3>1, OneLess
  <2> QED
    BY <2>1, <2>2
<1>6. Cardinality(tunnels \ {tunnel}) \in Nat
  BY Finite DEF ServiceTypeOK
<1>7. \A j \in tunnels' : session'[j].at \notin {"unused", "tunnel"}
  BY <1>1, <1>4 DEF Moves, Others, TunnelInv
<1>8. CASE i = tab
  <2>1. Late' = Late
    BY <1>1, <1>8, <1>2 DEF Late, Moves, Others, TabInv
  <2>2. Cardinality(tunnels) <= Cardinality(Late)
    BY <1>1, <1>4, <1>5, <1>6, <1>8 DEF TunnelInv
  <2> QED
    BY <1>1, <1>2, <1>3, <1>7, <1>8, <2>1, <2>2 DEF TunnelInv, Moves
<1>9. CASE i # tab
  <2>1. session[i].leftIn = "tunnel"
    BY <1>1, <1>9 DEF TabInv
  <2>2. Late' = Late \union {i} /\ i \notin Late
    BY <1>1, <2>1 DEF Late, Moves, Others
  <2>3. Cardinality(Late') = Cardinality(Late) + 1
    BY <1>4, <2>2, OneMore
  <2>4. tab' # NoSession => session'[tab'].at = session[tab].at
    BY <1>1, <1>9 DEF Moves, Others, ServiceTypeOK
  <2>5. Cardinality(tunnels) <= Cardinality(Late) + 1
    BY <1>4, <1>5, <1>6 DEF TunnelInv
  <2>6. tab = NoSession \/ session[tab].at = "tunnel" =>
          Cardinality(tunnels) < Cardinality(Late) + 1
    <3>1. CASE tunnel = NoSession
      BY <1>4, <1>5, <1>6, <3>1 DEF TunnelInv
    <3>2. CASE tunnel # NoSession
      BY <1>4, <1>5, <1>6, <3>2 DEF TunnelInv
    <3> QED
      BY <3>1, <3>2
  <2>7. Cardinality(tunnels' \ {tunnel'}) <= Cardinality(Late')
    BY <1>3, <2>3, <2>5
  <2>8. tab' = NoSession \/ session'[tab'].at = "tunnel" =>
          Cardinality(tunnels' \ {tunnel'}) < Cardinality(Late')
    BY <1>1, <1>3, <2>3, <2>4, <2>6
  <2>9. tunnel' \in tunnels'
    BY <1>1
  <2> QED
    BY <1>7, <2>7, <2>8, <2>9 DEF TunnelInv
<1> QED
  BY <1>8, <1>9

\* A session under way that ends or goes on to its next command.
LEMMA ChangeKeepsTunnels ==
  ASSUME ServiceTypeOK, ServiceTypeOK', TunnelInv, NEW i \in Sessions,
         \/ Ends(i) /\ i \in UnderWay
         \/ Moves(i, "send") /\ session[i].at \in {"connect", "send"},
         tab' = tab,
         \/ tunnel' = tunnel /\ tunnels' = tunnels
         \/ tunnel' = NoSession /\ tunnels' = tunnels \ {tunnel}
  PROVE  TunnelInv'
<1>1. \A j \in Sessions \ {i} : session'[j] = session[j]
  BY DEF Ends, Moves, Others
<1>2. session'[i].leftIn = session[i].leftIn /\ session'[i].at \in {"ended", "send"}
  BY DEF Ends, Moves
<1>3. Late \subseteq Late'
  BY <1>1, <1>2 DEF Late
<1>4. \A j \in tunnels : session'[j].at \notin {"unused", "tunnel"}
  BY <1>1, <1>2 DEF TunnelInv, ServiceTypeOK
<1>5. tab' = NoSession \/ session'[tab'].at = "tunnel" =>
        tab = NoSession \/ session[tab].at = "tunnel"
  BY <1>1, <1>2 DEF ServiceTypeOK
<1> QED
  BY <1>3, <1>4, <1>5, TunnelRest

LEMMA BeginKeepsTunnels ==
  ASSUME ServiceTypeOK, ServiceTypeOK', TabInv, TunnelInv, NEW i \in Sessions,
         session[i].at = "unused",
         \A j \in Sessions \ {i} :
           session'[j].at = session[j].at /\ session'[j].leftIn = session[j].leftIn,
         tab' = tab /\ tunnel' = tunnel /\ tunnels' = tunnels
  PROVE  TunnelInv'
<1>1. Late \subseteq Late'
  BY DEF Late, TabInv
<1>2. \A j \in tunnels : session'[j].at \notin {"unused", "tunnel"}
  BY DEF TunnelInv, ServiceTypeOK
<1>3. tab' = NoSession \/ session'[tab'].at = "tunnel" =>
        tab = NoSession \/ session[tab].at = "tunnel"
  BY DEF ServiceTypeOK, TabInv
<1> QED
  BY <1>1, <1>2, <1>3, TunnelRest

LEMMA StillKeepsTunnels ==
  TunnelInv /\ UNCHANGED <<session, tab, tunnel, tunnels>> => TunnelInv'
  BY DEF TunnelInv, Late

LEMMA TunnelStep ==
  ASSUME ServiceTypeOK, ServiceTypeOK', OrderInv, TabInv, TunnelInv,
         [SessionNext]_sessionVars
  PROVE  TunnelInv'
<1>1. ASSUME NEW i \in Sessions, Resolved(i)
      PROVE  TunnelInv'
  <2>1. Ends(i) \/ Moves(i, "send")
    BY <1>1, EndEffect, SendEffect DEF Resolved, Finish
  <2>2. session[i].at \in {"connect", "send"} /\ i \in UnderWay /\ tab' = tab
    BY <1>1 DEF Resolved, ConnectSettled, AnswerSettled, UnderWay
  <2>3. \/ tunnel' = tunnel /\ tunnels' = tunnels
        \/ tunnel' = NoSession /\ tunnels' = tunnels \ {tunnel}
    BY <1>1 DEF Resolved, Finish, SendLast, DisconnectService
  <2> QED
    BY <2>1, <2>2, <2>3, ChangeKeepsTunnels
<1>2. ASSUME NEW i \in Sessions, Rejected(i)
      PROVE  TunnelInv'
  <2>1. Ends(i)
    BY <1>2, EndEffect DEF Rejected
  <2>2. i \in UnderWay /\ tab' = tab /\ tunnel' = tunnel /\ tunnels' = tunnels
    BY <1>2 DEF Rejected, ConnectSettled, UnderWay, serviceVars
  <2> QED
    BY <2>1, <2>2, ChangeKeepsTunnels
<1>3. ASSUME NEW i \in Sessions, AnswerComes(i)
      PROVE  TunnelInv'
  <2>1. Ends(i) \/ Moves(i, "send")
    BY <1>3, EndEffect, SendEffect DEF AnswerComes, Finish
  <2>2. session[i].at \in {"connect", "send"} /\ i \in UnderWay /\ tab' = tab
    BY <1>3 DEF AnswerComes, ConnectSettled, AnswerSettled, UnderWay
  <2>3. \/ tunnel' = tunnel /\ tunnels' = tunnels
        \/ tunnel' = NoSession /\ tunnels' = tunnels \ {tunnel}
    BY <1>3 DEF AnswerComes, Finish, SendLast, DisconnectService
  <2> QED
    BY <2>1, <2>2, <2>3, ChangeKeepsTunnels
<1>4. ASSUME NEW i \in Sessions, CallFails(i)
      PROVE  TunnelInv'
  <2>1. Ends(i) \/ Moves(i, "send")
    BY <1>4, EndEffect, SendEffect DEF CallFails, Finish
  <2>2. session[i].at \in {"connect", "send"} /\ i \in UnderWay /\ tab' = tab
    BY <1>4 DEF CallFails, ConnectSettled, AnswerSettled, UnderWay
  <2>3. \/ tunnel' = tunnel /\ tunnels' = tunnels
        \/ tunnel' = NoSession /\ tunnels' = tunnels \ {tunnel}
    BY <1>4 DEF CallFails, Finish, SendLast, DisconnectService
  <2> QED
    BY <2>1, <2>2, <2>3, ChangeKeepsTunnels
<1>5. ASSUME NEW i \in Sessions, MountTab(i)
      PROVE  TunnelInv'
  <2>1. /\ session[i].at = "unused" /\ session[i + 1].at = "unused"
        /\ i + 1 \in Sessions /\ i # i + 1
    BY <1>5, MountEffect, SessionAssumption
       DEF MountTab, Fresh, OrderInv, Sessions
  <2>2. \A j \in Sessions \ {i, i + 1} :
          session'[j].at = session[j].at /\ session'[j].leftIn = session[j].leftIn
    BY <1>5, MountEffect DEF GoesOn
  <2>3. Late \subseteq Late'
    BY <2>1, <2>2 DEF Late, TabInv
  <2>4. \A j \in tunnels : session'[j].at \notin {"unused", "tunnel"}
    BY <2>1, <2>2 DEF TunnelInv, ServiceTypeOK
  <2>5. tab = NoSession /\ tunnel' = tunnel /\ tunnels' = tunnels
    BY <1>5 DEF MountTab
  <2> QED
    BY <2>3, <2>4, <2>5, TunnelRest
<1>6. ASSUME NEW i \in Sessions, TunnelOpens(i)
      PROVE  TunnelInv'
  BY <1>6, TunnelMore
<1>7. ASSUME NEW i \in Sessions, TunnelFails(i)
      PROVE  TunnelInv'
  <2>1. Ends(i)
    BY <1>7, EndEffect DEF TunnelFails
  <2>2. i \in UnderWay /\ tab' = tab /\ tunnel' = tunnel /\ tunnels' = tunnels
    BY <1>7 DEF TunnelFails, ConnectSettled, UnderWay, serviceVars
  <2> QED
    BY <2>1, <2>2, ChangeKeepsTunnels
<1>8. ASSUME NEW i \in Sessions, PollAgain(i)
      PROVE  TunnelInv'
  <2>1. session[i].at = "unused"
    BY <1>8 DEF PollAgain, Fresh
  <2>2. \A j \in Sessions \ {i} :
          session'[j].at = session[j].at /\ session'[j].leftIn = session[j].leftIn
    BY <1>8, PollEffect DEF GoesOn
  <2>3. tab' = tab /\ tunnel' = tunnel /\ tunnels' = tunnels
    BY <1>8 DEF PollAgain
  <2> QED
    BY <2>1, <2>2, <2>3, BeginKeepsTunnels
<1>9. ASSUME NEW i \in Sessions, StartSending(i)
      PROVE  TunnelInv'
  <2>1. session[i].at = "unused"
    BY <1>9 DEF StartSending, Fresh
  <2>2. \A j \in Sessions \ {i} :
          session'[j].at = session[j].at /\ session'[j].leftIn = session[j].leftIn
    BY <1>9, SendingEffect DEF GoesOn
  <2>3. tab' = tab /\ tunnel' = tunnel /\ tunnels' = tunnels
    BY <1>9 DEF StartSending, serviceVars
  <2> QED
    BY <2>1, <2>2, <2>3, BeginKeepsTunnels
<1>10. CASE UnmountTab
  <2>1. /\ tab \in Sessions
        /\ \A j \in Sessions : session'[j].at = session[j].at
        /\ \A j \in Sessions \ {tab} : session'[j].leftIn = session[j].leftIn
    BY <1>10, UnmountEffect DEF GoesOn
  <2>2. tab # NoSession /\ tunnel' = NoSession /\ tunnels' = tunnels \ {tunnel}
    BY <1>10 DEF UnmountTab, DisconnectService
  <2>3. Late \subseteq Late'
    BY <2>1, <2>2 DEF Late, TabInv
  <2>4. \A j \in tunnels : session'[j].at \notin {"unused", "tunnel"}
    BY <2>1 DEF TunnelInv, ServiceTypeOK
  <2> QED
    BY <2>2, <2>3, <2>4, TunnelRest
<1>11. ASSUME NEW s \in Sessions, DialEnds(s)
      PROVE  TunnelInv'
  <2>1. UNCHANGED <<session, tab, tunnel, tunnels>>
    BY <1>11 DEF DialEnds, serviceVars
  <2> QED
    BY <2>1, StillKeepsTunnels
<1>12. ASSUME NEW s \in Sessions, LineEvent(s)
      PROVE  TunnelInv'
  <2>1. UNCHANGED <<session, tab, tunnel, tunnels>>
    BY <1>12 DEF LineEvent, serviceVars
  <2> QED
    BY <2>1, StillKeepsTunnels
<1>13. CASE Timer
  <2>1. UNCHANGED <<session, tab, tunnel, tunnels>>
    BY <1>13 DEF Timer, serviceVars
  <2> QED
    BY <2>1, StillKeepsTunnels
<1>14. CASE UNCHANGED sessionVars
  BY <1>14, StillKeepsTunnels DEF sessionVars, serviceVars
<1> QED
  BY <1>1, <1>2, <1>3, <1>4, <1>5, <1>6, <1>7, <1>8, <1>9, <1>10, <1>11, <1>12,
     <1>13, <1>14
     DEF SessionNext, Continue, Sockets

-----------------------------------------------------------------------------
(* The inductive invariant, and what follows from it.                      *)

SessionInv ==
  /\ SlotTypeOK /\ ServiceTypeOK
  /\ OrderInv /\ TabInv
  /\ PromiseInv /\ ConnectInv
  /\ CompanyInv /\ ServedInv
  /\ OwnInv /\ RouteInv
  /\ TunnelInv

LEMMA SessionInvInit == SessionInit => SessionInv
<1> SUFFICES ASSUME SessionInit
             PROVE  SessionInv
  OBVIOUS
<1>1. SlotTypeOK /\ ServiceTypeOK
  BY UnusedType
     DEF SessionInit, SlotInit, ServiceTypeOK, SlotTypeOK, Occupants, Lines, Promises
<1>2. /\ \A i \in Sessions : session[i] = Unused
      /\ Unused.at = "unused" /\ Unused.kind = "none" /\ Unused.leftIn = "none"
      /\ tab = NoSession /\ tunnel = NoSession /\ tunnels = {} /\ connected = FALSE
  BY DEF SessionInit, SlotInit, Unused
<1>3. OrderInv /\ TabInv
  BY <1>2 DEF OrderInv, TabInv
<1>4. /\ \A s \in Sockets : line[s] = "unused" /\ promise[s] = "unused"
                             /\ pending # Login(s)
      /\ socket = NoSocket
  BY DEF SessionInit, SlotInit, Empty, Login
<1>5. PromiseInv /\ ConnectInv
  BY <1>2, <1>4 DEF PromiseInv, ConnectInv, Sockets
<1>6. UnderWay = {}
  BY <1>2 DEF UnderWay
<1>7. CompanyInv /\ ServedInv /\ OwnInv
  BY <1>2, <1>6 DEF CompanyInv, ServedInv, OwnInv
<1>8. RouteInv
  BY <1>4 DEF RouteInv
<1>9. TunnelInv
  <2>1. Late = {} /\ tunnels \ {tunnel} = {}
    BY <1>2 DEF Late
  <2>2. Cardinality(Late) = 0 /\ Cardinality(tunnels \ {tunnel}) = 0
    BY <2>1, FS_EmptySet
  <2> QED
    BY <1>2, <2>2 DEF TunnelInv
<1> QED
  BY <1>1, <1>3, <1>5, <1>7, <1>8, <1>9 DEF SessionInv

LEMMA SessionInvStep ==
  ASSUME SessionInv, [SessionNext]_sessionVars
  PROVE  SessionInv'
<1>1. SlotNext \/ UNCHANGED slotVars
  BY GatewayStep
<1>2. SlotTypeOK' /\ PromiseInv'
  BY <1>1, SlotTypeStep, PromiseStep DEF SessionInv
<1>3. ServiceTypeOK'
  BY ServiceTypeStep DEF SessionInv
<1>4. Effect
  BY EffectOfStep DEF SessionInv
<1>5. OrderInv' /\ TabInv' /\ CompanyInv'
  BY <1>4, OrderStep, TabStep, CompanyStep DEF SessionInv
<1>6. ConnectInv'
  BY ConnectStep DEF SessionInv
<1>7. ServedInv'
  BY ServedStep DEF SessionInv
<1>8. OwnInv'
  BY OwnStep DEF SessionInv
<1>9. TunnelInv'
  BY <1>3, TunnelStep DEF SessionInv
<1>10. RouteInv'
  BY <1>1, <1>4, <1>5, <1>6, RouteStep DEF SessionInv
<1> QED
  BY <1>2, <1>3, <1>5, <1>6, <1>7, <1>8, <1>9, <1>10 DEF SessionInv

LEMMA SessionInvAlways == SessionSpec => []SessionInv
  BY SessionInvInit, SessionInvStep, PTL DEF SessionSpec

\* Every variable of RconSessions has its type.
THEOREM SessionTypeCorrect == SessionSpec => []SessionTypeOK
<1>1. SessionInv => SessionTypeOK
  BY DEF SessionInv, SessionTypeOK, ServiceTypeOK
<1> QED
  BY <1>1, SessionInvAlways, PTL

\* A tab, a poll or a command that has the service for itself is answered, or
\* has failed to dial: only overlapping sessions leave each other waiting.
THEOREM HangsOnlyInCompanyAlways == SessionSpec => []HangsOnlyInCompany
<1>1. SessionInv => HangsOnlyInCompany
  <2> SUFFICES ASSUME SessionInv, NEW i \in Sessions, Hung(i), ~session[i].company
               PROVE  session[i].at = "connect" /\ line[i] = "closed"
    BY DEF HangsOnlyInCompany
  <2>1. i \in UnderWay
    BY DEF Hung, UnderWay
  <2> QED
    BY <2>1 DEF SessionInv, ServedInv, Served, Hung
<1> QED
  BY <1>1, SessionInvAlways, PTL

\* rcon-service.ts keeps one tunnel: as many others stay open as there were
\* tabs left before their tunnel was there, and no more.
THEOREM TunnelsAreClosedAlways == SessionSpec => []TunnelsAreClosed
<1>1. SessionInv => TunnelsAreClosed
  <2> SUFFICES ASSUME SessionInv
               PROVE  TunnelsAreClosed
    OBVIOUS
  <2> DEFINE left == {i \in Sessions : session[i].leftIn = "tunnel"}
  <2>1. Late \in SUBSET left /\ left \in SUBSET Sessions
    BY DEF Late
  <2>2. tunnels \ {tunnel} \in SUBSET Sessions
    BY DEF SessionInv, ServiceTypeOK
  <2>3. /\ Cardinality(tunnels \ {tunnel}) \in Nat
        /\ Cardinality(Late) \in Nat /\ Cardinality(left) \in Nat
    BY <2>1, <2>2, Finite
  <2>4. Cardinality(Late) <= Cardinality(left)
    BY <2>1, Smaller
  <2>5. Cardinality(tunnels \ {tunnel}) <= Cardinality(Late)
    BY DEF SessionInv, TunnelInv
  <2>6. Cardinality(tunnels \ {tunnel}) <= Cardinality(left)
    BY <2>3, <2>4, <2>5
  <2> QED
    BY <2>6 DEF TunnelsAreClosed
<1> QED
  BY <1>1, SessionInvAlways, PTL

\* A connection that is open while no tab is mounted and nobody is under way
\* was made by a tab that was left before it had it.
THEOREM NobodysConnectionAlways == SessionSpec => []NobodysConnection
<1>1. SessionInv => NobodysConnection
  BY DEF SessionInv, OwnInv, Minding, NobodysConnection, UnderWay,
     ServiceTypeOK, Session
<1> QED
  BY <1>1, SessionInvAlways, PTL

\* What is sent while a tab is mounted goes to that tab's server, unless a poll
\* of a tab closed before is under way or was rejected while it connected, or
\* that tab was left before its connection was there: rcon-service.ts and the
\* gateway have one connection for all servers, and nothing that says whose.
THEOREM CommandsStayInTabAlways == SessionSpec => []CommandsStayInTab
<1>1. SessionInv => CommandsStayInTab
  <2> SUFFICES ASSUME SessionInv, socket \in Sockets, OfAnEarlierTab(socket)
               PROVE  \E i \in Sessions : OfAnEarlierTab(i) /\
                        (i \in UnderWay \/ promise[i] = "rejected"
                           \/ session[i].leftIn # "none")
    BY DEF CommandsStayInTab
  <2>1. socket # NoSocket /\ socket # tab
    BY SessionAssumption
       DEF OfAnEarlierTab, Sockets, Sessions, NoSocket, NoSession, SessionInv,
           ServiceTypeOK
  <2>2. Accounted(socket)
    BY <2>1 DEF SessionInv, RouteInv
  <2> QED
    BY <2>1, <2>2 DEF Accounted, Sockets
<1> QED
  BY <1>1, SessionInvAlways, PTL
=============================================================================
