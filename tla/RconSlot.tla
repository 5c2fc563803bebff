------------------------------ MODULE RconSlot ------------------------------
(***************************************************************************)
(* RconSlot: what the RCON gateway is to those who call it.  There is one  *)
(* connection, and one slot for the promise that awaits an answer: that of *)
(* a connect that logs in, or that of a command.  Whoever logs in or sends *)
(* takes both, and the promise that was in the slot never settles; the     *)
(* slot is emptied by an answer, be it to another packet, by a timer, or   *)
(* by an error of any connection, the current one or not.                  *)
(* TcpRconGateway implements this with packets, timers and a buffer.       *)
(*                                                                         *)
(*   socket, connected   fields of the gateway                             *)
(*   pending   the slot: pendingResolve and pendingReject                  *)
(*   line      the connection behind each socket                           *)
(*   promise   what has become of the connect of each socket               *)
(*   answer    what has become of each command                             *)
(***************************************************************************)

CONSTANTS
  Sockets, NoSocket,  \* every socket ever made, and null
  Commands            \* every command ever sent

VARIABLES socket, connected, pending, line, promise, answer

slotVars == <<socket, connected, pending, line, promise, answer>>

Lines    == {"unused", "dialing", "open", "closed"}
Promises == {"unused", "waiting", "resolved", "rejected"}

Empty      == <<"nothing", NoSocket>>
Login(s)   == <<"login", s>>
Command(c) == <<"command", c>>

Occupants ==
  {Empty} \union {Login(s) : s \in Sockets} \union {Command(c) : c \in Commands}

-----------------------------------------------------------------------------
(* The three operations.                                                   *)

Connect(s) ==
  /\ line[s] = "unused"
  /\ line' = [line EXCEPT ![s] = "dialing"]
  /\ promise' = [promise EXCEPT ![s] = "waiting"]
  /\ UNCHANGED <<socket, connected, pending, answer>>

\* The new socket replaces the current one, which stays open.
Connected(s) ==
  /\ line[s] = "dialing"
  /\ line' = [line EXCEPT ![s] = "open"]
  /\ socket' = s
  /\ pending' = Login(s)
  /\ UNCHANGED <<connected, promise, answer>>

MaySend == connected /\ socket # NoSocket

SendCommand(c) ==
  /\ MaySend
  /\ answer[c] = "unused"
  /\ answer' = [answer EXCEPT ![c] = "waiting"]
  /\ pending' = Command(c)
  /\ UNCHANGED <<socket, connected, line, promise>>

Closed(f) == IF socket = NoSocket THEN f ELSE [f EXCEPT ![socket] = "closed"]

\* The slot is emptied, and what was in it not settled.
Disconnect ==
  /\ line' = Closed(line)
  /\ socket' = NoSocket
  /\ connected' = FALSE
  /\ pending' = Empty
  /\ UNCHANGED <<promise, answer>>

-----------------------------------------------------------------------------
(* What comes from outside.                                                *)

\* Whoever is in the slot gets the verdict.
Settle(verdict) ==
  /\ pending # Empty
  /\ promise' = [s \in Sockets |->
                   IF pending = Login(s) THEN verdict ELSE promise[s]]
  /\ answer' = [c \in Commands |->
                  IF pending = Command(c) THEN verdict ELSE answer[c]]
  /\ pending' = Empty

LoggingIn == \E s \in Sockets : pending = Login(s)

\* A packet, on any connection that is open; the game may refuse a password.
Answer(s) ==
  /\ line[s] = "open"
  /\ \/ Settle("resolved") /\ connected' = (connected \/ LoggingIn)
     \/ LoggingIn /\ Settle("rejected") /\ connected' = FALSE
  /\ UNCHANGED <<socket, line>>

\* A timer, of the command in the slot or of an earlier one.
TimeOut ==
  /\ Settle("rejected")
  /\ UNCHANGED <<socket, connected, line>>

\* Faulty variant: what is in the slot is dropped.
SocketErrorDrops(s) ==
  /\ line[s] \in {"dialing", "open"}
  /\ line' = [line EXCEPT ![s] = "closed"]
  /\ connected' = FALSE
  /\ pending' = Empty
  /\ promise' = [promise EXCEPT ![s] = IF @ = "waiting" THEN "rejected" ELSE @]
  /\ UNCHANGED <<socket, answer>>

SocketError(s) ==
  /\ line[s] \in {"dialing", "open"}
  /\ line' = [line EXCEPT ![s] = "closed"]
  /\ connected' = FALSE
  /\ \/ Settle("rejected")
     \/ /\ pending = Empty
        /\ promise' = [promise EXCEPT
                         ![s] = IF @ = "waiting" THEN "rejected" ELSE @]
        /\ UNCHANGED <<pending, answer>>
  /\ UNCHANGED socket

\* A connect that is still dialing is not told.
SocketTimeout(s) ==
  /\ line[s] \in {"dialing", "open"}
  /\ line' = [line EXCEPT ![s] = "closed"]
  /\ connected' = FALSE
  /\ \/ Settle("rejected")
     \/ pending = Empty /\ UNCHANGED <<promise, pending, answer>>
  /\ UNCHANGED socket

PeerCloses(s) ==
  /\ line[s] = "open"
  /\ line' = [line EXCEPT ![s] = "closed"]
  /\ UNCHANGED <<socket, connected, pending, promise, answer>>

-----------------------------------------------------------------------------
SlotInit ==
  /\ socket = NoSocket
  /\ connected = FALSE
  /\ pending = Empty
  /\ line = [s \in Sockets |-> "unused"]
  /\ promise = [s \in Sockets |-> "unused"]
  /\ answer = [c \in Commands |-> "unused"]

SlotNext ==
  \/ \E s \in Sockets :
       \/ Connect(s) \/ Connected(s) \/ Answer(s)
       \/ SocketError(s) \/ SocketTimeout(s) \/ PeerCloses(s)
  \/ \E c \in Commands : SendCommand(c)
  \/ TimeOut
  \/ Disconnect

SlotSpec == SlotInit /\ [][SlotNext]_slotVars

\* Every variable has its type.
SlotTypeOK ==
  /\ socket \in Sockets \union {NoSocket}
  /\ connected \in BOOLEAN
  /\ pending \in Occupants
  /\ line \in [Sockets -> Lines]
  /\ promise \in [Sockets -> Promises]
  /\ answer \in [Commands -> Promises]
=============================================================================
