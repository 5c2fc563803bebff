--------------------------- MODULE TcpRconGateway ---------------------------
(***************************************************************************)
(* TcpRconGateway: the one RCON client of the process, shared by every     *)
(* Players tab, every poll of the player count and every update flow       *)
(* (tcp-rcon-gateway.ts).  It keeps one pending promise, one reference to  *)
(* the newest timer and one receive buffer, whatever number of sockets and *)
(* calls are alive:                                                        *)
(*                                                                         *)
(*   socket, connected, requestId, pending, currentTimer, buffer           *)
(*            the fields of the gateway; the two pending callbacks are set *)
(*            and cleared together, so one field stands for both           *)
(*   line     the TCP connection behind each socket                        *)
(*   promise  what has become of the promise that connect returned         *)
(*   call     what has become of each sendPacket                           *)
(*                                                                         *)
(* Panels call connect, sendCommand and disconnect without regard to each  *)
(* other, so any of them may come at any time.  A handler runs to its end. *)
(* Sockets and calls are numbered; NoSocket and NoCall are null.           *)
(***************************************************************************)
EXTENDS Integers, Sequences

CONSTANTS
  MaxSockets,  \* bound on the number of connects
  MaxCalls,    \* bound on the number of packets sent
  MaxReplies   \* bound on the packets with which the game answers each

ASSUME RconAssumption ==
  MaxSockets \in Nat /\ MaxCalls \in Nat /\ MaxReplies \in Nat

Sockets == 1..MaxSockets
Calls   == 1..MaxCalls

NoSocket == 0
NoCall   == 0

\* Every packet of the game carries the id of the request it answers; nr tells
\* those of one request apart.
Packets == [call : Calls, nr : 1..MaxReplies]
NoPacket == [call |-> NoCall, nr |-> 0]

VARIABLES socket, connected, requestId, pending, currentTimer, buffer,
          line, promise, call

rconVars == <<socket, connected, requestId, pending, currentTimer, buffer,
              line, promise, call>>

\* status of the promise of sendPacket; timer started for it; how many packets
\* of the game's answer have come, and whether the last of them refuses the
\* password; the packet that settled it.
Call ==
  [ status  : {"unused", "waiting", "answered", "rejected"},
    auth    : BOOLEAN,
    sock    : Sockets \union {NoSocket},
    timer   : {"off", "running", "over"},
    written : BOOLEAN,
    replies : 0..MaxReplies,
    refused : BOOLEAN,
    by      : Packets \union {NoPacket} ]

NotSent ==
  [ status |-> "unused", auth |-> FALSE, sock |-> NoSocket, timer |-> "off",
    written |-> FALSE, replies |-> 0, refused |-> FALSE, by |-> NoPacket ]

Lines    == {"unused", "dialing", "open", "closed"}
Promises == {"unused", "waiting", "resolved", "rejected"}

\* A promise settles once.
Settled(p, s, outcome) ==
  [p EXCEPT ![s] = IF @ = "waiting" THEN outcome ELSE @]

-----------------------------------------------------------------------------
(* sendPacket.                                                             *)

Send(s, auth) ==
  LET c == requestId + 1 IN
  /\ requestId < MaxCalls
  /\ requestId' = c
  /\ pending' = c
  /\ call' = [call EXCEPT ![c] =
       [NotSent EXCEPT
          !.status = "waiting", !.auth = auth, !.sock = s, !.timer = "running"]]

\* The callback of socket.write remembers the timer of the packet written.
PacketWritten(c) ==
  /\ call[c].status # "unused"
  /\ ~call[c].written
  /\ call' = [call EXCEPT ![c].written = TRUE]
  /\ currentTimer' = c
  /\ UNCHANGED <<socket, connected, requestId, pending, buffer, line, promise>>

\* Rejecting the pending promise; connect hands the failure of its AUTH on.
RejectPending ==
  /\ call' = [call EXCEPT ![pending].status = "rejected"]
  /\ promise' = IF call[pending].auth
                THEN Settled(promise, call[pending].sock, "rejected")
                ELSE promise
  /\ pending' = NoCall

\* All timers run equally long, so they fire in the order they were started.
NextTimer(c) ==
  /\ call[c].timer = "running"
  /\ \A d \in Calls : d < c => call[d].timer # "running"

\* Faulty variant: a timer leaves the callbacks in place.
TimerFiresOnly(c) ==
  /\ NextTimer(c)
  /\ call' = [call EXCEPT ![c].timer = "over"]
  /\ UNCHANGED <<socket, connected, requestId, pending, currentTimer, buffer,
                 line, promise>>

\* The timer of a call rejects whatever call is pending by then.
TimerFires(c) ==
  /\ NextTimer(c)
  /\ IF pending # NoCall
     THEN /\ call' = [call EXCEPT ![c].timer = "over",
                                  ![pending].status = "rejected"]
          /\ promise' = IF call[pending].auth
                        THEN Settled(promise, call[pending].sock, "rejected")
                        ELSE promise
     ELSE /\ call' = [call EXCEPT ![c].timer = "over"]
          /\ UNCHANGED promise
  /\ pending' = NoCall
  /\ UNCHANGED <<socket, connected, requestId, currentTimer, buffer, line>>

-----------------------------------------------------------------------------
(* connect, sendCommand, disconnect.                                       *)

Connect(s) ==
  /\ line[s] = "unused"
  /\ \A t \in Sockets : t < s => line[t] # "unused"
  /\ line' = [line EXCEPT ![s] = "dialing"]
  /\ promise' = [promise EXCEPT ![s] = "waiting"]
  /\ UNCHANGED <<socket, connected, requestId, pending, currentTimer, buffer,
                 call>>

\* The socket replaces the current one, which is not closed, and the AUTH
\* packet replaces the pending call, which is not settled.
Connected(s) ==
  /\ line[s] = "dialing"
  /\ line' = [line EXCEPT ![s] = "open"]
  /\ socket' = s
  /\ buffer' = <<>>
  /\ Send(s, TRUE)
  /\ UNCHANGED <<connected, currentTimer, promise>>

\* sendCommand throws when not connected; otherwise it sends.
SendCommand ==
  /\ connected
  /\ socket # NoSocket
  /\ Send(socket, FALSE)
  /\ UNCHANGED <<socket, connected, currentTimer, buffer, line, promise>>

Cut(s) == line' = [line EXCEPT ![s] = "closed"]

\* Faulty variant: the pending callbacks survive.
DisconnectSocketOnly ==
  /\ IF socket = NoSocket THEN UNCHANGED line ELSE Cut(socket)
  /\ socket' = NoSocket
  /\ connected' = FALSE
  /\ buffer' = <<>>
  /\ UNCHANGED <<requestId, pending, currentTimer, promise, call>>

\* The pending callbacks are dropped, not called; timers run on.
Disconnect ==
  /\ IF socket = NoSocket THEN UNCHANGED line ELSE Cut(socket)
  /\ socket' = NoSocket
  /\ connected' = FALSE
  /\ pending' = NoCall
  /\ buffer' = <<>>
  /\ UNCHANGED <<requestId, currentTimer, promise, call>>

-----------------------------------------------------------------------------
(* The packets of the game.  It answers a request with any number of them, *)
(* none included: a login with a RESPONSE_VALUE and then an AUTH_RESPONSE,  *)
(* whose id is -1 if the password is refused, and a long output in several. *)
(* A connection delivers them in the order of their requests.              *)

NextPacket(sent, c) == [call |-> c, nr |-> sent[c].replies + 1]

\* The next packet on connection s may answer call c, and be its refusal.  What
\* is answered has been written: the callback of the write has run.
MayCome(sent, s, c, refusal) ==
  /\ sent[c].sock = s /\ sent[c].written
  /\ sent[c].replies < MaxReplies /\ ~sent[c].refused
  /\ refusal => sent[c].auth
  /\ \A d \in Calls : d > c /\ sent[d].sock = s => sent[d].replies = 0

Come(sent, c, refusal) ==
  [sent EXCEPT ![c].replies = @ + 1, ![c].refused = refusal]

-----------------------------------------------------------------------------
(* handleData, for the data of any socket that is still open.  One packet  *)
(* is handled for each data event, and neither its id nor its type is      *)
(* looked at; sent are the calls with the packets of the event counted.    *)

IsRefusal(sent, p) == sent[p.call].refused /\ p.nr = sent[p.call].replies

\* The timer remembered last is cleared, whosever it is, and the pending call is
\* answered, whatever packet p is.
After(sent, c, p) ==
  [sent[c] EXCEPT
     !.timer  = IF c = currentTimer /\ @ = "running" THEN "over" ELSE @,
     !.status = IF c = pending THEN "answered" ELSE @,
     !.by     = IF c = pending THEN p ELSE @]

\* Faulty variants: a packet that is not the pending call's clears the timer
\* and is dropped; the packet handled stays in the buffer.
HandleMatching(received, sent) ==
  LET p == Head(received) IN
  /\ buffer' = Tail(received)
  /\ currentTimer' = NoCall
  /\ pending' = IF p.call = pending THEN NoCall ELSE pending
  /\ call' = [c \in Calls |->
       IF c = pending /\ c # p.call
       THEN [After(sent, c, p) EXCEPT !.status = "waiting", !.by = NoPacket]
       ELSE After(sent, c, p)]
  /\ UNCHANGED <<connected, promise, socket, requestId, line>>

HandleKeeping(received, sent) ==
  LET p == Head(received) IN
  /\ buffer' = received
  /\ currentTimer' = NoCall
  /\ pending' = NoCall
  /\ call' = [c \in Calls |-> After(sent, c, p)]
  /\ IF pending # NoCall /\ call[pending].auth
     THEN /\ connected' = ~IsRefusal(sent, p)
          /\ promise' = Settled(promise, call[pending].sock, "resolved")
     ELSE UNCHANGED <<connected, promise>>
  /\ UNCHANGED <<socket, requestId, line>>

Handle(received, sent) ==
  LET p == Head(received) IN
  /\ buffer' = Tail(received)
  /\ currentTimer' = NoCall
  /\ pending' = NoCall
  /\ call' = [c \in Calls |-> After(sent, c, p)]
  /\ IF pending # NoCall /\ call[pending].auth
     THEN /\ connected' = ~IsRefusal(sent, p)
          /\ promise' = Settled(promise, call[pending].sock,
                          IF IsRefusal(sent, p) THEN "rejected" ELSE "resolved")
     ELSE UNCHANGED <<connected, promise>>
  /\ UNCHANGED <<socket, requestId, line>>

\* A data event completes one packet, or two.
DataArrives(s) ==
  /\ line[s] = "open"
  /\ \E c \in Calls, r \in BOOLEAN :
       /\ MayCome(call, s, c, r)
       /\ LET one == Come(call, c, r) IN
          \/ Handle(Append(buffer, NextPacket(call, c)), one)
          \/ \E d \in Calls, q \in BOOLEAN :
               /\ MayCome(one, s, d, q)
               /\ Handle(buffer \o <<NextPacket(call, c), NextPacket(one, d)>>,
                         Come(one, d, q))

-----------------------------------------------------------------------------
(* The socket handlers, for any socket, current or not.                    *)

SocketError(s) ==
  /\ line[s] \in {"dialing", "open"}
  /\ Cut(s)
  /\ connected' = FALSE
  /\ IF pending # NoCall
     THEN RejectPending
     ELSE /\ promise' = Settled(promise, s, "rejected")
          /\ UNCHANGED <<pending, call>>
  /\ UNCHANGED <<socket, requestId, currentTimer, buffer>>

\* Idle for as long as the timeout: a connect that is still dialing, with no
\* call pending, is left waiting.
SocketTimeout(s) ==
  /\ line[s] \in {"dialing", "open"}
  /\ Cut(s)
  /\ connected' = FALSE
  /\ IF pending # NoCall
     THEN RejectPending
     ELSE UNCHANGED <<promise, pending, call>>
  /\ UNCHANGED <<socket, requestId, currentTimer, buffer>>

\* The game closes the connection: there is no handler.
PeerCloses(s) ==
  /\ line[s] = "open"
  /\ Cut(s)
  /\ UNCHANGED <<socket, connected, requestId, pending, currentTimer, buffer,
                 promise, call>>

-----------------------------------------------------------------------------
RconInit ==
  /\ socket = NoSocket
  /\ connected = FALSE
  /\ requestId = 0
  /\ pending = NoCall
  /\ currentTimer = NoCall
  /\ buffer = <<>>
  /\ line = [s \in Sockets |-> "unused"]
  /\ promise = [s \in Sockets |-> "unused"]
  /\ call = [c \in Calls |-> NotSent]

RconNext ==
  \/ \E s \in Sockets :
       \/ Connect(s) \/ Connected(s) \/ DataArrives(s)
       \/ SocketError(s) \/ SocketTimeout(s) \/ PeerCloses(s)
  \/ \E c \in Calls : PacketWritten(c) \/ TimerFires(c)
  \/ SendCommand
  \/ Disconnect

RconSpec == RconInit /\ [][RconNext]_rconVars

\* The event loop runs every timer that is due; nothing else is certain.
FairRconSpec == RconSpec /\ \A c \in Calls : WF_rconVars(TimerFires(c))

-----------------------------------------------------------------------------
(* Properties.                                                             *)

\* Every variable has its type.
RconTypeOK ==
  /\ socket \in Sockets \union {NoSocket}
  /\ connected \in BOOLEAN
  /\ requestId \in 0..MaxCalls
  /\ pending \in Calls \union {NoCall}
  /\ currentTimer \in Calls \union {NoCall}
  /\ buffer \in Seq(Packets)
  /\ line \in [Sockets -> Lines]
  /\ promise \in [Sockets -> Promises]
  /\ call \in [Calls -> Call]

\* The call that is pending is still waiting, and its own timer still runs,
\* however many timers have been cleared that were somebody else's: a call
\* that is neither answered nor dropped is sure to be timed out.
PendingIsTimed ==
  pending # NoCall =>
    call[pending].status = "waiting" /\ call[pending].timer = "running"

\* Being connected, or waiting for an answer, means having a socket: no late
\* event of an old socket brings a connection back after disconnect.
ConnectedHasSocket == connected \/ pending # NoCall => socket # NoSocket

Answered(c) == call[c].status = "answered"

\* No packet of the game is taken for the answer to two calls.
AnswersOnce ==
  \A c, d \in Calls :
    Answered(c) /\ Answered(d) /\ call[c].by = call[d].by => c = d

\* What leaves packets behind that nobody waits for: a call that failed or timed
\* out, or was dropped by a disconnect or by the next call while it waited; and
\* one that the game answers with several packets.
GivenUp(c) ==
  \/ call[c].status = "rejected"
  \/ call[c].status = "waiting" /\ pending # c

LeavesPackets(c) == GivenUp(c) \/ call[c].replies > 1

\* Packets carry the id of their request, which nobody compares.  The answer to
\* another call that a call is given is always one to an earlier call, and some
\* earlier call, not necessarily that one, has left packets behind.
WrongAnswerHasCause ==
  \A c \in Calls : Answered(c) /\ call[c].by.call # c =>
    /\ call[c].by.call < c
    /\ \E d \in Calls : d < c /\ LeavesPackets(d)

\* A call does not stay pending for ever.
CallsEnd == \A c \in Calls : pending = c ~> pending # c

\* What callers see: not the AUTH packet, but the promise of its connect.
SlotPending ==
  IF pending = NoCall THEN <<"nothing", NoSocket>>
  ELSE IF call[pending].auth THEN <<"login", call[pending].sock>>
  ELSE <<"command", pending>>

SlotAnswer ==
  [c \in Calls |->
     CASE call[c].status = "unused" \/ call[c].auth -> "unused"
       [] call[c].status = "waiting" /\ ~call[c].auth -> "waiting"
       [] call[c].status = "answered" /\ ~call[c].auth -> "resolved"
       [] OTHER -> "rejected"]

Slot == INSTANCE RconSlot
          WITH Commands <- Calls, pending <- SlotPending, answer <- SlotAnswer

\* With its packets, timers and buffer the gateway is what RconSlot promises
\* to callers: a timer that fires late, an answer to another call or an event
\* of an old socket never does more than empty the one slot.
IsOneSlot == Slot!SlotSpec
============================================================================
