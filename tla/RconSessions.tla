---------------------------- MODULE RconSessions ----------------------------
(***************************************************************************)
(* RconSessions: those who use the one RconService of the process, and     *)
(* with it the gateway (RconSlot), without knowing of each other           *)
(* (rcon-service.ts, use-rcon.ts, use-server-players-polling.ts,           *)
(* PlayerManagement.tsx).                                                  *)
(*                                                                         *)
(*   "tab"   the effect of a players tab: tunnel, connect, players         *)
(*   "poll"  getOnlinePlayers: connect, players, and always a disconnect   *)
(*   "sends" kick or ban and players, a broadcast, or two steps of an      *)
(*           update: commands over whatever connection there is            *)
(*                                                                         *)
(*   session   what each of them awaits                                    *)
(*   tab       the session of the players tab that is mounted              *)
(*   pollDue   the timer of its second and last poll                       *)
(*   tunnel    this.tunnel, by the session that opened it                  *)
(*   tunnels   the tunnels that are open                                   *)
(*                                                                         *)
(* What follows an await runs as soon as its promise has settled, before   *)
(* any other event.                                                        *)
(***************************************************************************)
EXTENDS Integers, FiniteSets

CONSTANTS
  MaxSessions,  \* bound on the number of sessions
  MaxLines      \* bound on the connections dialing or open at the same time

ASSUME SessionAssumption == MaxSessions \in Nat /\ MaxLines \in Nat

Sessions  == 1..MaxSessions
NoSession == 0

\* A session connects at most once, by the socket of its number, and sends at
\* most two commands.
Sockets  == Sessions
NoSocket == NoSession
Commands == Sessions \X {"first", "last"}

VARIABLES socket, connected, pending, line, promise, answer,
          session, tab, pollDue, tunnel, tunnels

INSTANCE RconSlot

gatewayVars == <<socket, connected, pending, line, promise, answer>>
serviceVars == <<tab, pollDue, tunnel, tunnels>>
sessionVars == <<gatewayVars, session, serviceVars>>

\* more: the command to be answered is followed by another.  History: leftIn
\* is what a tab awaited when it was left; company says that another session
\* has been under way at the same time, or that a tab was left meanwhile.
Session ==
  [ kind    : {"none", "tab", "poll", "sends"},
    at      : {"unused", "tunnel", "connect", "send", "ended"},
    more    : BOOLEAN,
    leftIn  : {"none", "tunnel", "connect"},
    company : BOOLEAN ]

Unused == [kind |-> "none", at |-> "unused", more |-> FALSE, leftIn |-> "none",
           company |-> FALSE]

UnderWay == {i \in Sessions : session[i].at \in {"tunnel", "connect", "send"}}

\* The command whose answer a session awaits.
Current(i) == <<i, IF session[i].more THEN "first" ELSE "last">>

\* Sessions begin in the order of their numbers.
Fresh(i) ==
  /\ session[i].at = "unused"
  /\ \A j \in Sessions : j < i => session[j].at # "unused"

Over(i) == [Unused EXCEPT !.at = "ended", !.leftIn = session[i].leftIn]

\* Everybody under way gets company.
Accompanied(f) ==
  [i \in Sessions |-> IF i \in UnderWay THEN [f[i] EXCEPT !.company = TRUE]
                      ELSE f[i]]

-----------------------------------------------------------------------------
(* Promises that have settled.                                             *)

ConnectSettled(i) ==
  session[i].at = "connect" /\ promise[i] # "waiting"

AnswerSettled(i) ==
  session[i].at = "send" /\ answer[Current(i)] # "waiting"

\* No continuation is due.
Quiet == \A i \in Sessions : ~ConnectSettled(i) /\ ~AnswerSettled(i)

\* gateway.connect, within the bound on connections.
Dial(i) ==
  /\ Cardinality({s \in Sockets : line[s] \in {"dialing", "open"}}) < MaxLines
  /\ Connect(i)

-----------------------------------------------------------------------------
(* RconService.                                                            *)

\* Faulty variant: the tunnel stays.
DisconnectRcon ==
  /\ Disconnect
  /\ UNCHANGED <<tunnel, tunnels>>

\* disconnect: the gateway, and the tunnel this.tunnel knows of.
DisconnectService ==
  /\ Disconnect
  /\ tunnels' = tunnels \ {tunnel}
  /\ tunnel' = NoSession

\* Faulty variant: a poll does not disconnect.
Leave(i) ==
  /\ session' = [session EXCEPT ![i] = Over(i)]
  /\ UNCHANGED <<gatewayVars, tunnel, tunnels>>

\* A session ends; getOnlinePlayers disconnects whatever there is.
Finish(i) ==
  /\ session' = [session EXCEPT ![i] = Over(i)]
  /\ IF session[i].kind = "poll"
     THEN DisconnectService
     ELSE UNCHANGED <<gatewayVars, tunnel, tunnels>>

\* sendCommand, which throws when there is no connection.
SendLast(i) ==
  /\ SendCommand(<<i, "last">>)
  /\ session' = [session EXCEPT ![i].at = "send", ![i].more = FALSE]
  /\ UNCHANGED <<tunnel, tunnels>>

-----------------------------------------------------------------------------
(* Continuations.                                                          *)

\* players() after connect.
Resolved(i) ==
  /\ ConnectSettled(i)
  /\ promise[i] = "resolved"
  /\ IF MaySend THEN SendLast(i) ELSE Finish(i)
  /\ UNCHANGED <<tab, pollDue>>

\* connect is outside the try of getOnlinePlayers: nothing is disconnected.
Rejected(i) ==
  /\ ConnectSettled(i)
  /\ promise[i] = "rejected"
  /\ session' = [session EXCEPT ![i] = Over(i)]
  /\ UNCHANGED <<gatewayVars, serviceVars>>

AnswerComes(i) ==
  /\ AnswerSettled(i)
  /\ answer[Current(i)] = "resolved"
  /\ IF ~session[i].more THEN Finish(i)
     ELSE IF MaySend THEN SendLast(i) ELSE Finish(i)
  /\ UNCHANGED <<tab, pollDue>>

CallFails(i) ==
  /\ AnswerSettled(i)
  /\ answer[Current(i)] = "rejected"
  /\ Finish(i)
  /\ UNCHANGED <<tab, pollDue>>

Continue(i) == Resolved(i) \/ Rejected(i) \/ AnswerComes(i) \/ CallFails(i)

-----------------------------------------------------------------------------
(* The players tab of a running server.                                    *)

\* The poll of the first effect and the connect of the second begin in one go.
MountTab(i) ==
  /\ Quiet
  /\ tab = NoSession
  /\ Fresh(i) /\ i < MaxSessions
  /\ Dial(i)
  /\ session' = [Accompanied(session) EXCEPT
       ![i]     = [Unused EXCEPT !.kind = "poll", !.at = "connect",
                                 !.company = TRUE],
       ![i + 1] = [Unused EXCEPT !.kind = "tab", !.at = "tunnel",
                                 !.company = TRUE]]
  /\ tab' = i + 1
  /\ pollDue' = TRUE
  /\ UNCHANGED <<tunnel, tunnels>>

\* createTunnel answers: this.tunnel is replaced, not closed.
TunnelOpens(i) ==
  /\ Quiet
  /\ session[i].at = "tunnel"
  /\ tunnel' = i
  /\ tunnels' = tunnels \union {i}
  /\ Dial(i)
  /\ session' = [session EXCEPT ![i].at = "connect"]
  /\ UNCHANGED <<tab, pollDue>>

TunnelFails(i) ==
  /\ Quiet
  /\ session[i].at = "tunnel"
  /\ session' = [session EXCEPT ![i] = Over(i)]
  /\ UNCHANGED <<gatewayVars, serviceVars>>

\* setTimeout, not setInterval: one more poll.
PollAgain(i) ==
  /\ Quiet
  /\ pollDue
  /\ Fresh(i)
  /\ Dial(i)
  /\ session' = [Accompanied(session) EXCEPT
       ![i] = [Unused EXCEPT !.kind = "poll", !.at = "connect",
                             !.company = UnderWay # {}]]
  /\ pollDue' = FALSE
  /\ UNCHANGED <<tab, tunnel, tunnels>>

\* What the left tab awaits goes on.
LeftTab(f) ==
  [f EXCEPT ![tab].leftIn = IF f[tab].at \in {"tunnel", "connect"}
                            THEN f[tab].at ELSE "none"]

\* Faulty variant: the tunnel is forgotten.
UnmountRcon ==
  /\ Quiet
  /\ tab # NoSession
  /\ tab' = NoSession
  /\ pollDue' = FALSE
  /\ session' = LeftTab(Accompanied(session))
  /\ DisconnectRcon

UnmountTab ==
  /\ Quiet
  /\ tab # NoSession
  /\ tab' = NoSession
  /\ pollDue' = FALSE
  /\ session' = LeftTab(Accompanied(session))
  /\ DisconnectService

\* kick and ban are followed by players; a broadcast is not.
StartSending(i) ==
  /\ Quiet
  /\ Fresh(i)
  /\ \E more \in BOOLEAN :
       /\ SendCommand(<<i, IF more THEN "first" ELSE "last">>)
       /\ session' = [Accompanied(session) EXCEPT
            ![i] = [Unused EXCEPT !.kind = "sends", !.at = "send",
                                  !.more = more, !.company = UnderWay # {}]]
  /\ UNCHANGED serviceVars

-----------------------------------------------------------------------------
(* The game, the network and the timers of the gateway.                    *)

DialEnds(s) ==
  /\ Quiet
  /\ line[s] = "dialing"
  /\ Connected(s) \/ SocketError(s) \/ SocketTimeout(s)
  /\ UNCHANGED <<session, serviceVars>>

LineEvent(s) ==
  /\ Quiet
  /\ line[s] = "open"
  /\ Answer(s) \/ SocketError(s) \/ SocketTimeout(s) \/ PeerCloses(s)
  /\ UNCHANGED <<session, serviceVars>>

Timer ==
  /\ Quiet
  /\ TimeOut
  /\ UNCHANGED <<session, serviceVars>>

-----------------------------------------------------------------------------
SessionInit ==
  /\ SlotInit
  /\ session = [i \in Sessions |-> Unused]
  /\ tab = NoSession
  /\ pollDue = FALSE
  /\ tunnel = NoSession
  /\ tunnels = {}

SessionNext ==
  \/ \E i \in Sessions :
       \/ Continue(i)
       \/ MountTab(i) \/ TunnelOpens(i) \/ TunnelFails(i)
       \/ PollAgain(i) \/ StartSending(i)
  \/ UnmountTab
  \/ \E s \in Sockets : DialEnds(s) \/ LineEvent(s)
  \/ Timer

SessionSpec == SessionInit /\ [][SessionNext]_sessionVars

-----------------------------------------------------------------------------
(* Properties.                                                             *)

\* Every variable has its type.
SessionTypeOK ==
  /\ SlotTypeOK
  /\ session \in [Sessions -> Session]
  /\ tab \in Sessions \union {NoSession}
  /\ pollDue \in BOOLEAN
  /\ tunnel \in Sessions \union {NoSession}
  /\ tunnels \subseteq Sessions

\* Nothing in the gateway will settle what i awaits.
Hung(i) ==
  \/ /\ session[i].at = "connect" /\ promise[i] = "waiting"
     /\ line[i] # "dialing" /\ pending # Login(i)
  \/ /\ session[i].at = "send" /\ answer[Current(i)] = "waiting"
     /\ pending # Command(Current(i))

\* A session that has the service for itself is never left waiting for ever,
\* but for a connect whose dial has timed out.
HangsOnlyInCompany ==
  \A i \in Sessions : Hung(i) =>
    session[i].company \/ (session[i].at = "connect" /\ line[i] = "closed")

\* A tunnel that this.tunnel no longer knows of stays open; there are no more
\* of them than tabs that were left before their tunnel was there.
TunnelsAreClosed ==
  Cardinality(tunnels \ {tunnel}) <=
    Cardinality({i \in Sessions : session[i].leftIn = "tunnel"})

\* When no tab is mounted and nobody is under way, the connection is closed,
\* unless a tab was left before its own connection was there.
NobodysConnection ==
  connected /\ tab = NoSession /\ UnderWay = {} =>
    \E i \in Sessions : session[i].leftIn # "none"

\* The poll that is mounted with a tab is the first of its sessions, and those
\* of tabs mounted before have lower numbers.
OfAnEarlierTab(i) == tab # NoSession /\ i < tab - 1

\* What is sent while a tab is mounted goes over a connection of that tab, and
\* not to the server of one that was closed before, unless a poll of that one
\* is still under way or was rejected while it connected, after which nothing
\* is disconnected, or it was left before its own connection was there.
CommandsStayInTab ==
  connected /\ socket \in Sockets /\ OfAnEarlierTab(socket) =>
    \E i \in Sessions : OfAnEarlierTab(i) /\
      (i \in UnderWay \/ promise[i] = "rejected" \/ session[i].leftIn # "none")
=============================================================================
