--------------------------- MODULE TcpRconProofs ---------------------------
(***************************************************************************)
(* Theorems about TcpRconGateway for any number of sockets and calls.      *)
(***************************************************************************)
EXTENDS TcpRconGateway, SequenceTheorems, TLAPS

-----------------------------------------------------------------------------
(* The inductive invariant.                                                *)

\* Calls are numbered as they are sent, and the last one sent is pending or none.
NumberedAsSent ==
  /\ \A c \in Calls : c > requestId => call[c].status = "unused"
  /\ pending # NoCall => pending = requestId

UnusedHasNoReply ==
  \A c \in Calls :
    call[c].status = "unused" => call[c].replies = 0 /\ ~call[c].written

\* What is in the buffer has come, and is there once.
BufferInv ==
  /\ \A i \in 1..Len(buffer) : buffer[i].nr <= call[buffer[i].call].replies
  /\ \A i, j \in 1..Len(buffer) : buffer[i] = buffer[j] => i = j

\* A call has been answered by a packet that had come, to it or to an earlier
\* call, and is not in the buffer any more.
AnswersUsed ==
  \A c \in Calls : Answered(c) =>
    /\ call[c].by \in Packets /\ call[c].by.call <= c
    /\ call[c].by.nr <= call[call[c].by.call].replies
    /\ \A i \in 1..Len(buffer) : buffer[i] # call[c].by

RconInv ==
  /\ RconTypeOK
  /\ PendingIsTimed
  /\ ConnectedHasSocket
  /\ NumberedAsSent /\ UnusedHasNoReply
  /\ BufferInv
  /\ AnswersUsed
  /\ AnswersOnce
  /\ WrongAnswerHasCause

\* The last six conjuncts follow from what has become of the calls.
SameAnswers ==
  /\ requestId' = requestId
  /\ pending' = pending \/ pending' = NoCall
  /\ buffer' = buffer \/ buffer' = <<>>
  /\ \A c \in Calls :
       /\ call'[c].replies = call[c].replies
       /\ call'[c].by = call[c].by
       /\ Answered(c)' <=> Answered(c)
       /\ GivenUp(c) => GivenUp(c)'
       /\ call'[c].status = "unused" <=> call[c].status = "unused"
       /\ call[c].status = "unused" => call'[c].written = call[c].written

LEMMA AnswersStay ==
  ASSUME RconInv, RconTypeOK', SameAnswers
  PROVE  /\ NumberedAsSent' /\ UnusedHasNoReply' /\ BufferInv'
         /\ AnswersUsed' /\ AnswersOnce'
         /\ WrongAnswerHasCause'
<1>1. NumberedAsSent' /\ UnusedHasNoReply'
  BY DEF RconInv, SameAnswers, NumberedAsSent, UnusedHasNoReply
<1>2. /\ \A i \in 1..Len(buffer) : buffer[i] \in Packets
      /\ \A p \in Packets : p.call \in Calls
  <2>1. RconTypeOK
    BY DEF RconInv
  <2>2. \A i \in 1..Len(buffer) : buffer[i] \in Packets
    BY <2>1 DEF RconTypeOK
  <2> QED
    BY <2>2 DEF Packets
<1>3. BufferInv'
  <2>1. CASE buffer' = <<>>
    BY <2>1 DEF BufferInv
  <2>2. CASE buffer' = buffer
    BY <1>2, <2>2 DEF RconInv, SameAnswers, BufferInv
  <2> QED
    BY <2>1, <2>2 DEF SameAnswers
<1>4. AnswersUsed'
  <2>1. CASE buffer' = <<>>
    <3>1. \A i \in 1..Len(buffer') : FALSE
      BY <2>1
    <3> QED
      BY <1>2, <3>1 DEF RconInv, SameAnswers, AnswersUsed
  <2>2. CASE buffer' = buffer
    BY <1>2, <2>2 DEF RconInv, SameAnswers, AnswersUsed
  <2> QED
    BY <2>1, <2>2 DEF SameAnswers
<1>5. AnswersOnce'
  BY DEF RconInv, SameAnswers, AnswersOnce
<1>6. WrongAnswerHasCause'
  <2>1. \A c \in Calls : LeavesPackets(c) => LeavesPackets(c)'
    BY DEF SameAnswers, LeavesPackets
  <2> QED
    BY <2>1 DEF RconInv, SameAnswers, WrongAnswerHasCause
<1> QED
  BY <1>1, <1>3, <1>4, <1>5, <1>6

-----------------------------------------------------------------------------
(* Every step keeps it.                                                    *)

LEMMA WrittenInv ==
  ASSUME RconInv, NEW c \in Calls, PacketWritten(c)
  PROVE  RconInv'
<1>1. RconTypeOK /\ call[c] \in Call
  BY DEF RconInv, RconTypeOK
<1>2. RconTypeOK'
  <2>1. [call[c] EXCEPT !.written = TRUE] \in Call
    BY <1>1 DEF Call
  <2> QED
    BY <1>1, <2>1 DEF PacketWritten, RconTypeOK
<1>3. \A d \in Calls :
        /\ call'[d].status = call[d].status /\ call'[d].timer = call[d].timer
        /\ call'[d].replies = call[d].replies /\ call'[d].by = call[d].by
        /\ d # c => call'[d].written = call[d].written
  BY <1>1 DEF PacketWritten, RconTypeOK, Call
<1>4. PendingIsTimed' /\ ConnectedHasSocket'
  BY <1>1, <1>3 DEF PacketWritten, RconInv, RconTypeOK, PendingIsTimed,
     ConnectedHasSocket
<1>5. SameAnswers
  BY <1>3 DEF PacketWritten, SameAnswers, Answered, GivenUp
<1> QED
  BY <1>2, <1>4, <1>5, AnswersStay DEF RconInv

\* A call is rejected, or nothing is pending; other timers may have fired.
LEMMA SettledType ==
  ASSUME NEW s, NEW outcome \in Promises, promise \in [Sockets -> Promises]
  PROVE  Settled(promise, s, outcome) \in [Sockets -> Promises]
BY DEF Settled, Promises

LEMMA EntryTypes ==
  ASSUME NEW g \in [Calls -> Call], NEW c \in Calls
  PROVE  /\ [g EXCEPT ![c].timer = "over"] \in [Calls -> Call]
         /\ [g EXCEPT ![c].status = "rejected"] \in [Calls -> Call]
BY DEF Call

LEMMA TimerInv ==
  ASSUME RconInv, NEW c \in Calls, TimerFires(c)
  PROVE  RconInv'
<1>1. /\ RconTypeOK /\ call[c] \in Call
      /\ pending # NoCall => pending \in Calls /\ call[pending] \in Call
  BY DEF RconInv, RconTypeOK
<1>2. promise' \in [Sockets -> Promises]
  BY <1>1, SettledType DEF TimerFires, RconTypeOK, Promises
<1>3. call' \in [Calls -> Call]
  <2>1. CASE pending = NoCall
    <3>1. [call[c] EXCEPT !.timer = "over"] \in Call
      BY <1>1 DEF Call
    <3> QED
      BY <1>1, <2>1, <3>1 DEF TimerFires, RconTypeOK
  <2>2. CASE pending # NoCall
    <3>1. [call EXCEPT ![c].timer = "over"] \in [Calls -> Call]
      BY <1>1, EntryTypes DEF RconTypeOK
    <3>2. [call EXCEPT ![c].timer = "over", ![pending].status = "rejected"]
            \in [Calls -> Call]
      BY <1>1, <2>2, <3>1, EntryTypes
    <3> QED
      BY <2>2, <3>2 DEF TimerFires
  <2> QED
    BY <2>1, <2>2
<1>4. RconTypeOK'
  BY <1>1, <1>2, <1>3 DEF TimerFires, RconTypeOK
<1>5. PendingIsTimed' /\ ConnectedHasSocket'
  BY DEF TimerFires, RconInv, PendingIsTimed, ConnectedHasSocket
<1>6. \A d \in Calls :
        /\ call'[d].replies = call[d].replies /\ call'[d].by = call[d].by
        /\ call'[d].written = call[d].written
        /\ call'[d].status = IF pending # NoCall /\ d = pending
                             THEN "rejected" ELSE call[d].status
  BY <1>1 DEF TimerFires, RconTypeOK, Call
<1>7. SameAnswers
  <2>1. /\ pending # NoCall => call[pending].status = "waiting"
        /\ requestId' = requestId /\ buffer' = buffer /\ pending' = NoCall
    BY DEF TimerFires, RconInv, PendingIsTimed
  <2> QED
    BY <1>6, <2>1 DEF SameAnswers, Answered, GivenUp, NoCall, Calls
<1> QED
  BY <1>4, <1>5, <1>7, AnswersStay DEF RconInv

\* Rejecting the pending call settles it and promise to a failure.
LEMMA RejectFacts ==
  ASSUME RconInv, pending # NoCall, RejectPending,
         UNCHANGED <<requestId, buffer>>
  PROVE  /\ call' \in [Calls -> Call] /\ promise' \in [Sockets -> Promises]
         /\ SameAnswers
<1>1. /\ RconTypeOK /\ pending \in Calls /\ call[pending] \in Call
      /\ call[pending].status = "waiting"
  BY DEF RconInv, RconTypeOK, PendingIsTimed
<1>2. [call EXCEPT ![pending].status = "rejected"] \in [Calls -> Call]
  BY <1>1, EntryTypes DEF RconTypeOK
<1>3. promise' \in [Sockets -> Promises]
  BY <1>1, SettledType DEF RejectPending, RconTypeOK, Promises
<1>4. \A d \in Calls :
        /\ call'[d].replies = call[d].replies /\ call'[d].by = call[d].by
        /\ call'[d].written = call[d].written
        /\ call'[d].status = IF d = pending THEN "rejected" ELSE call[d].status
  BY <1>1 DEF RejectPending, RconTypeOK, Call
<1>5. requestId' = requestId /\ buffer' = buffer /\ pending' = NoCall
  BY DEF RejectPending
<1>6. SameAnswers
  BY <1>1, <1>4, <1>5 DEF SameAnswers, Answered, GivenUp, NoCall, Calls
<1> QED
  BY <1>2, <1>3, <1>6 DEF RejectPending

LEMMA LineInv ==
  ASSUME RconInv, NEW s \in Sockets,
         Connect(s) \/ SocketError(s) \/ SocketTimeout(s) \/ PeerCloses(s)
  PROVE  RconInv'
<1>1. RconTypeOK
  BY DEF RconInv
<1>2. /\ line' \in [Sockets -> Lines]
      /\ UNCHANGED <<socket, requestId, currentTimer, buffer>>
      /\ connected' = connected \/ connected' = FALSE
  <2>1. line \in [Sockets -> Lines] /\ {"dialing", "closed"} \subseteq Lines
    BY <1>1 DEF RconTypeOK, Lines
  <2>2. \A x \in Lines : [line EXCEPT ![s] = x] \in [Sockets -> Lines]
    BY <2>1
  <2> QED
    BY <2>1, <2>2 DEF Connect, SocketError, SocketTimeout, PeerCloses, Cut
<1>3. CASE pending # NoCall /\ RejectPending
  <2>1. /\ call' \in [Calls -> Call] /\ promise' \in [Sockets -> Promises]
        /\ SameAnswers /\ pending' = NoCall
    BY <1>2, <1>3, RejectFacts DEF RejectPending
  <2>2. RconTypeOK'
    BY <1>1, <1>2, <2>1 DEF RconTypeOK
  <2>3. PendingIsTimed' /\ ConnectedHasSocket'
    BY <1>2, <2>1 DEF RconInv, PendingIsTimed, ConnectedHasSocket
  <2> QED
    BY <2>1, <2>2, <2>3, AnswersStay DEF RconInv
<1>4. CASE UNCHANGED <<pending, call>>
  <2>1. promise' \in [Sockets -> Promises]
    BY <1>1, <1>4, SettledType
       DEF Connect, SocketError, SocketTimeout, PeerCloses, RejectPending,
           RconTypeOK, Promises
  <2>2. RconTypeOK'
    BY <1>1, <1>2, <1>4, <2>1 DEF RconTypeOK
  <2>3. PendingIsTimed' /\ ConnectedHasSocket'
    BY <1>2, <1>4 DEF RconInv, PendingIsTimed, ConnectedHasSocket
  <2>4. SameAnswers
    BY <1>2, <1>4 DEF SameAnswers, Answered, GivenUp
  <2> QED
    BY <2>2, <2>3, <2>4, AnswersStay DEF RconInv
<1> QED
  BY <1>3, <1>4 DEF Connect, SocketError, SocketTimeout, PeerCloses

LEMMA DisconnectInv ==
  ASSUME RconInv, Disconnect
  PROVE  RconInv'
<1>0. RconTypeOK
  BY DEF RconInv
<1>1. RconTypeOK'
  <2>1. line' \in [Sockets -> Lines]
    BY DEF RconInv, RconTypeOK, Disconnect, Cut, Lines
  <2>2. buffer' \in Seq(Packets)
    BY EmptySeq DEF Disconnect
  <2> QED
    BY <1>0, <2>1, <2>2 DEF RconTypeOK, Disconnect
<1>2. PendingIsTimed' /\ ConnectedHasSocket'
  BY DEF Disconnect, PendingIsTimed, ConnectedHasSocket
<1>3. SameAnswers
  BY DEF Disconnect, SameAnswers, Answered, GivenUp, NoCall, Calls
<1> QED
  BY <1>1, <1>2, <1>3, AnswersStay DEF RconInv

\* sendPacket uses the next number, and gives up the call it replaces.
LEMMA SendInv ==
  ASSUME RconInv, NEW s \in Sockets, NEW auth \in BOOLEAN, Send(s, auth),
         line' \in [Sockets -> Lines], connected' = connected,
         socket' = s, buffer' = buffer \/ buffer' = <<>>,
         UNCHANGED <<currentTimer, promise>>
  PROVE  RconInv'
<1> DEFINE c == requestId + 1
           packet == [NotSent EXCEPT !.status = "waiting", !.auth = auth,
                                     !.sock = s, !.timer = "running"]
<1>1. RconTypeOK /\ c \in Calls /\ c > requestId /\ requestId' = c
  BY RconAssumption DEF RconInv, RconTypeOK, Send, Calls
<1>2. call[c].status = "unused" /\ call[c].replies = 0
  BY <1>1 DEF RconInv, NumberedAsSent, UnusedHasNoReply
<1>3. call' = [call EXCEPT ![c] = packet]
  BY DEF Send
<1>4. /\ packet \in Call /\ packet.status = "waiting"
      /\ packet.timer = "running" /\ packet.replies = 0
  <2>1. NotSent \in Call /\ NotSent.replies = 0
    BY RconAssumption DEF NotSent, NoPacket, Call, NoCall, NoSocket
  <2> QED
    BY <2>1 DEF Call
<1>5. call'[c] = packet /\ \A d \in Calls \ {c} : call'[d] = call[d]
  BY <1>1, <1>3 DEF RconTypeOK
<1>6. call' \in [Calls -> Call]
  BY <1>1, <1>3, <1>4 DEF RconTypeOK
<1>7. pending' = c
  BY DEF Send
<1> HIDE DEF packet
<1>8. RconTypeOK'
  <2>1. requestId' \in 0..MaxCalls
    BY <1>1 DEF Calls
  <2>2. buffer' \in Seq(Packets)
    BY <1>1, EmptySeq DEF RconTypeOK
  <2> QED
    BY <1>1, <1>6, <1>7, <2>1, <2>2 DEF RconTypeOK
<1>9. PendingIsTimed' /\ ConnectedHasSocket'
  BY <1>1, <1>4, <1>5, <1>7 DEF PendingIsTimed, ConnectedHasSocket, NoSocket,
     Sockets
<1>10. NumberedAsSent' /\ UnusedHasNoReply'
  <2>1. NumberedAsSent'
    BY <1>1, <1>5, <1>7 DEF RconInv, NumberedAsSent, Calls, RconTypeOK
  <2>2. UnusedHasNoReply'
    BY <1>1, <1>4, <1>5 DEF RconInv, UnusedHasNoReply
  <2> QED
    BY <2>1, <2>2
<1>11. /\ \A d \in Calls : call'[d].replies = call[d].replies
       /\ \A p \in Packets : p.call \in Calls
       /\ \A i \in 1..Len(buffer) : buffer[i] \in Packets
  <2>1. \A i \in 1..Len(buffer) : buffer[i] \in Packets
    BY <1>1 DEF RconTypeOK
  <2> QED
    BY <1>2, <1>4, <1>5, <2>1 DEF Packets
<1>12. BufferInv'
  <2>1. CASE buffer' = <<>>
    BY <2>1 DEF BufferInv
  <2>2. CASE buffer' = buffer
    BY <1>11, <2>2 DEF RconInv, BufferInv
  <2> QED
    BY <2>1, <2>2
<1>13. \A d \in Calls : /\ Answered(d)' <=> Answered(d)
                        /\ Answered(d) => d # c /\ call'[d].by = call[d].by
  BY <1>1, <1>2, <1>4, <1>5 DEF Answered
<1>14. AnswersUsed'
  <2>1. CASE buffer' = <<>>
    <3>1. \A i \in 1..Len(buffer') : FALSE
      BY <2>1
    <3> QED
      BY <1>11, <1>13, <3>1 DEF RconInv, AnswersUsed
  <2>2. CASE buffer' = buffer
    BY <1>11, <1>13, <2>2 DEF RconInv, AnswersUsed
  <2> QED
    BY <2>1, <2>2
<1>15. AnswersOnce'
  BY <1>13 DEF RconInv, AnswersOnce
<1>16. WrongAnswerHasCause'
  <2>1. \A d \in Calls : LeavesPackets(d) => LeavesPackets(d)'
    BY <1>1, <1>2, <1>5, <1>7, <1>11 DEF LeavesPackets, GivenUp
  <2> QED
    BY <1>13, <2>1 DEF RconInv, WrongAnswerHasCause
<1> QED
  BY <1>8, <1>9, <1>10, <1>12, <1>14, <1>15, <1>16 DEF RconInv

\* The calls with some packets counted, and what is then to be handled: packets
\* that have come and that nobody has been answered with.
Counted(sent) ==
  /\ sent \in [Calls -> Call]
  /\ \A c \in Calls :
       /\ sent[c].status = call[c].status /\ sent[c].by = call[c].by
       /\ sent[c].auth = call[c].auth /\ sent[c].sock = call[c].sock
       /\ sent[c].timer = call[c].timer /\ sent[c].written = call[c].written
       /\ sent[c].replies >= call[c].replies
       /\ sent[c].status = "unused" => sent[c].replies = 0

Receivable(received, sent) ==
  /\ received \in Seq(Packets)
  /\ \A i \in 1..Len(received) : received[i].nr <= sent[received[i].call].replies
  /\ \A i, j \in 1..Len(received) : received[i] = received[j] => i = j
  /\ \A i \in 1..Len(received), c \in Calls :
       Answered(c) => received[i] # call[c].by

LEMMA HandleInv ==
  ASSUME RconInv, NEW received, NEW sent, Counted(sent),
         Receivable(received, sent), received # <<>>, Handle(received, sent)
  PROVE  RconInv'
<1> DEFINE p == Head(received)
<1>1. /\ RconTypeOK /\ p \in Packets /\ p = received[1]
      /\ Tail(received) \in Seq(Packets) /\ Len(received) \in Nat \ {0}
      /\ Len(Tail(received)) = Len(received) - 1
      /\ \A i \in 1..Len(Tail(received)) : Tail(received)[i] = received[i + 1]
  BY HeadTailProperties, LenProperties, EmptySeq, ElementOfSeq
     DEF Receivable, RconInv
<1>2. /\ p.call \in Calls /\ p.nr \in 1..MaxReplies
      /\ p.nr <= sent[p.call].replies
      /\ \A c \in Calls : Answered(c) => p # call[c].by
      /\ \A q \in Packets : p.call = q.call /\ p.nr = q.nr => p = q
  <2>1. 1 \in 1..Len(received)
    BY <1>1
  <2> QED
    BY <1>1, <2>1 DEF Receivable, Packets
<1> HIDE DEF p
<1>3. call' = [c \in Calls |-> After(sent, c, p)]
  BY DEF Handle, p
<1>4. /\ buffer' = Tail(received) /\ currentTimer' = NoCall
      /\ pending' = NoCall
      /\ UNCHANGED <<socket, requestId, line>>
  BY DEF Handle
<1>5. ASSUME NEW c \in Calls
      PROVE  /\ After(sent, c, p) \in Call
             /\ After(sent, c, p).replies = sent[c].replies
             /\ After(sent, c, p).written = sent[c].written
             /\ After(sent, c, p).status =
                  IF c = pending THEN "answered" ELSE sent[c].status
             /\ After(sent, c, p).by =
                  IF c = pending THEN p ELSE sent[c].by
  <2>1. sent[c] \in Call
    BY DEF Counted
  <2> QED
    BY <1>1, <2>1, ZenonT(30) DEF After, Call
<1>6. \A c \in Calls :
        /\ call'[c].replies = sent[c].replies
        /\ call'[c].replies >= call[c].replies
        /\ call'[c].written = call[c].written
        /\ call'[c].status = IF c = pending THEN "answered" ELSE call[c].status
        /\ call'[c].by = IF c = pending THEN p ELSE call[c].by
  BY <1>3, <1>5 DEF Counted
<1>7. /\ \A c \in Calls : /\ call[c].replies \in Nat /\ call'[c].replies \in Nat
                          /\ sent[c].replies \in Nat
      /\ requestId \in Nat
  <2>1. \A c \in Calls : call[c] \in Call /\ sent[c] \in Call
    BY <1>1 DEF Counted, RconTypeOK
  <2> QED
    BY <1>1, <1>6, <2>1, RconAssumption DEF Call, RconTypeOK
<1>8. /\ pending # NoCall => /\ pending \in Calls /\ pending = requestId
                              /\ call[pending].status = "waiting"
                              /\ socket # NoSocket
      /\ pending = NoCall => pending \notin Calls
  BY <1>1 DEF RconInv, RconTypeOK, PendingIsTimed, ConnectedHasSocket,
     NumberedAsSent, NoCall, Calls
<1>9. call[p.call].status # "unused" /\ p.call <= requestId
  <2>1. call[p.call].status # "unused"
    BY <1>2, <1>7 DEF Counted
  <2> QED
    BY <1>2, <1>7, <2>1 DEF RconInv, NumberedAsSent, Calls
<1>10. RconTypeOK'
  <2>1. connected' \in BOOLEAN
    BY <1>1 DEF Handle, RconTypeOK
  <2>2. promise' \in [Sockets -> Promises]
    BY <1>1, SettledType DEF Handle, RconTypeOK, Promises
  <2>3. call' \in [Calls -> Call]
    BY <1>3, <1>5
  <2> QED
    BY <1>1, <1>4, <2>1, <2>2, <2>3 DEF RconTypeOK
<1>11. PendingIsTimed' /\ ConnectedHasSocket'
  <2>1. pending = NoCall => connected' = connected
    BY DEF Handle
  <2> QED
    BY <1>4, <1>8, <2>1 DEF RconInv, PendingIsTimed, ConnectedHasSocket
<1>12. NumberedAsSent' /\ UnusedHasNoReply'
  <2>1. ASSUME NEW c \in Calls
        PROVE  c > requestId => c # pending
    BY <1>7, <1>8 DEF Calls
  <2>2. NumberedAsSent'
    BY <1>4, <1>6, <2>1 DEF RconInv, NumberedAsSent
  <2>3. UnusedHasNoReply'
    BY <1>6 DEF RconInv, UnusedHasNoReply, Counted
  <2> QED
    BY <2>2, <2>3
<1>13. ASSUME NEW i \in 1..Len(buffer')
       PROVE  /\ i + 1 \in 1..Len(received) /\ buffer'[i] = received[i + 1]
              /\ received[i + 1] \in Packets /\ received[i + 1].call \in Calls
              /\ received[i + 1] # p
  <2>1. /\ i + 1 \in 1..Len(received) /\ buffer'[i] = received[i + 1]
        /\ 1 \in 1..Len(received) /\ i + 1 # 1
    BY <1>1, <1>4
  <2>2. received[i + 1] # p
    BY <1>1, <2>1 DEF Receivable
  <2>3. received[i + 1] \in Packets
    BY <2>1, ElementOfSeq DEF Receivable
  <2> QED
    BY <2>1, <2>2, <2>3 DEF Packets
<1>14. BufferInv'
  <2>1. ASSUME NEW i \in 1..Len(buffer')
        PROVE  buffer'[i].nr <= call'[buffer'[i].call].replies
    BY <1>6, <1>13 DEF Receivable
  <2>2. ASSUME NEW i \in 1..Len(buffer'), NEW j \in 1..Len(buffer'),
               buffer'[i] = buffer'[j]
        PROVE  i = j
    <3>1. i + 1 = j + 1
      BY <1>13, <2>2 DEF Receivable
    <3> QED
      BY <1>1, <1>4, <3>1
  <2> QED
    BY <2>1, <2>2 DEF BufferInv
<1>15. \A c \in Calls :
         Answered(c)' => \/ c = pending /\ call'[c].by = p
                         \/ /\ Answered(c) /\ c # pending
                            /\ call'[c].by = call[c].by
  BY <1>6, <1>8 DEF Answered
<1>16. AnswersUsed'
  <2>1. ASSUME NEW c \in Calls, c = pending
        PROVE  /\ call'[c].by \in Packets /\ call'[c].by.call <= c
               /\ call'[c].by.nr <= call'[call'[c].by.call].replies
               /\ \A i \in 1..Len(buffer') : buffer'[i] # call'[c].by
    BY <1>1, <1>2, <1>6, <1>8, <1>9, <1>13, <2>1
  <2>2. ASSUME NEW c \in Calls, Answered(c), c # pending
        PROVE  /\ call'[c].by \in Packets /\ call'[c].by.call <= c
               /\ call'[c].by.nr <= call'[call'[c].by.call].replies
               /\ \A i \in 1..Len(buffer') : buffer'[i] # call'[c].by
    <3> DEFINE q == call[c].by
    <3>1. /\ q \in Packets /\ q.call \in Calls /\ q.call <= c
          /\ q.nr \in 1..MaxReplies /\ q.nr <= call[q.call].replies
      BY <2>2 DEF RconInv, AnswersUsed, Packets
    <3>2. q.nr <= call'[q.call].replies
      BY <1>6, <1>7, <3>1
    <3>3. \A i \in 1..Len(buffer') : buffer'[i] # q
      BY <1>13, <2>2 DEF Receivable
    <3>4. call'[c].by = q
      BY <1>6, <2>2
    <3> QED
      BY <3>1, <3>2, <3>3, <3>4
  <2> QED
    BY <1>15, <2>1, <2>2 DEF AnswersUsed
<1>17. AnswersOnce'
  BY <1>2, <1>15 DEF RconInv, AnswersOnce
<1>18. WrongAnswerHasCause'
  <2>1. ASSUME NEW c \in Calls, LeavesPackets(c)
        PROVE  LeavesPackets(c)'
    BY <1>4, <1>6, <1>7, <1>8, <2>1 DEF LeavesPackets, GivenUp, NoCall, Calls
  <2>2. ASSUME NEW c \in Calls, Answered(c), call[c].by.call # c
        PROVE  /\ call[c].by.call < c
               /\ \E d \in Calls : d < c /\ LeavesPackets(d)'
    BY <2>1, <2>2 DEF RconInv, WrongAnswerHasCause
  <2>3. ASSUME pending \in Calls, p.call # pending
        PROVE  /\ p.call < pending
               /\ \E d \in Calls : d < pending /\ LeavesPackets(d)'
    <3>1. p.call < pending
      BY <1>2, <1>8, <1>9, <2>3 DEF NoCall, Calls
    <3>2. CASE ~Answered(p.call)
      <4>1. call[p.call] \in Call
        BY <1>1, <1>2 DEF RconTypeOK
      <4>2. GivenUp(p.call)
        BY <1>9, <2>3, <3>2, <4>1 DEF Call, Answered, GivenUp
      <4> QED
        BY <1>2, <2>1, <3>1, <4>2 DEF LeavesPackets
    <3>3. CASE Answered(p.call) /\ call[p.call].by.call # p.call
      <4>1. PICK d \in Calls : d < p.call /\ LeavesPackets(d)'
        BY <1>2, <2>2, <3>3
      <4> QED
        BY <1>2, <2>3, <3>1, <4>1 DEF Calls
    <3>4. CASE Answered(p.call) /\ call[p.call].by.call = p.call
      <4> DEFINE q == call[p.call].by
      <4>1. q \in Packets /\ q.nr \in 1..MaxReplies
            /\ q.nr <= call[p.call].replies
        BY <1>2, <3>4 DEF RconInv, AnswersUsed, Packets
      <4>2. q.nr # p.nr
        BY <1>2, <3>4, <4>1
      <4>3. call[p.call].replies <= sent[p.call].replies
        BY <1>2, <1>7 DEF Counted
      <4>4. sent[p.call].replies > 1
        BY <1>2, <1>7, <4>1, <4>2, <4>3
      <4>5. LeavesPackets(p.call)'
        BY <1>2, <1>6, <4>4 DEF LeavesPackets
      <4> QED
        BY <1>2, <3>1, <4>5
    <3> QED
      BY <3>1, <3>2, <3>3, <3>4
  <2> QED
    BY <1>15, <2>2, <2>3 DEF WrongAnswerHasCause
<1> QED
  BY <1>10, <1>11, <1>12, <1>14, <1>16, <1>17, <1>18 DEF RconInv

\* A packet that comes is counted, and is received after those that came before.
LEMMA ComeReceivable ==
  ASSUME RconInv, NEW sent, Counted(sent), NEW received,
         Receivable(received, sent), NEW s \in Sockets, NEW c \in Calls,
         NEW r \in BOOLEAN, MayCome(sent, s, c, r)
  PROVE  /\ Counted(Come(sent, c, r))
         /\ Receivable(Append(received, NextPacket(sent, c)), Come(sent, c, r))
         /\ Append(received, NextPacket(sent, c)) # <<>>
<1> DEFINE p == NextPacket(sent, c)
           all == Append(received, p)
           next == Come(sent, c, r)
<1>1. /\ RconTypeOK /\ sent \in [Calls -> Call] /\ sent[c] \in Call
      /\ sent[c].replies \in Nat /\ sent[c].replies < MaxReplies
      /\ sent[c].written
  BY DEF RconInv, MayCome, Counted, Call
<1>2. p \in Packets /\ p.call = c /\ p.nr = sent[c].replies + 1
  BY <1>1, RconAssumption DEF NextPacket, Packets
<1>3. ASSUME NEW d \in Calls
      PROVE  /\ next[d] \in Call
             /\ next[d].status = sent[d].status /\ next[d].by = sent[d].by
             /\ next[d].auth = sent[d].auth /\ next[d].sock = sent[d].sock
             /\ next[d].timer = sent[d].timer
             /\ next[d].written = sent[d].written
             /\ next[d].replies =
                  IF d = c THEN sent[c].replies + 1 ELSE sent[d].replies
  <2>1. sent[d] \in Call
    BY <1>1
  <2>2. sent[c].replies + 1 \in 0..MaxReplies
    BY <1>1, RconAssumption
  <2> QED
    BY <1>1, <2>1, <2>2 DEF Come, Call
<1>4. \A d \in Calls : sent[d].replies \in Nat /\ call[d].replies \in Nat
  BY <1>1 DEF RconTypeOK, Call
<1>5. next \in [Calls -> Call]
  <2>1. next = [next EXCEPT ![c] = next[c]] /\ DOMAIN next = Calls
    BY <1>1 DEF Come
  <2>2. \A d \in DOMAIN next : next[d] \in Call
    BY <1>3, <2>1
  <2> QED
    BY <1>1, <2>1, <2>2, <1>3 DEF Come
<1>6. Counted(next)
  <2>1. call[c].status # "unused"
    BY <1>1 DEF RconInv, UnusedHasNoReply, Counted
  <2>2. ASSUME NEW d \in Calls
        PROVE  /\ next[d].replies >= call[d].replies
               /\ next[d].status = "unused" => next[d].replies = 0
    BY <1>3, <1>4, <2>1 DEF Counted
  <2> QED
    BY <1>3, <1>5, <2>2 DEF Counted
<1>7. /\ all \in Seq(Packets) /\ Len(all) = Len(received) + 1
      /\ \A i \in 1..Len(received) : all[i] = received[i]
      /\ all[Len(received) + 1] = p /\ Len(received) \in Nat
      /\ all # <<>>
  BY <1>2, AppendProperties, LenProperties DEF Receivable
<1> HIDE DEF all, next, p
<1>8. ASSUME NEW i \in 1..Len(received)
      PROVE  /\ received[i] \in Packets /\ received[i].call \in Calls
             /\ received[i].nr \in Nat
             /\ received[i].nr <= sent[received[i].call].replies
             /\ received[i] # p
  <2>1. received[i] \in Packets
    BY ElementOfSeq DEF Receivable
  <2> QED
    BY <1>2, <1>4, <2>1 DEF Receivable, Packets
<1>9. \A i \in 1..Len(all) : i \in 1..Len(received) \/ i = Len(received) + 1
  BY <1>7
<1>10. ASSUME NEW i \in 1..Len(all)
       PROVE  all[i].nr <= next[all[i].call].replies
  <2>1. CASE i \in 1..Len(received)
    BY <1>3, <1>4, <1>7, <1>8, <2>1
  <2>2. CASE i = Len(received) + 1
    BY <1>1, <1>2, <1>3, <1>7, <2>2
  <2> QED
    BY <1>9, <2>1, <2>2
<1>11. ASSUME NEW i \in 1..Len(all), NEW j \in 1..Len(all), all[i] = all[j]
       PROVE  i = j
  BY <1>7, <1>8, <1>9, <1>11 DEF Receivable
<1>12. ASSUME NEW i \in 1..Len(all), NEW d \in Calls, Answered(d)
       PROVE  all[i] # call[d].by
  <2>1. CASE i \in 1..Len(received)
    BY <1>7, <1>12, <2>1 DEF Receivable
  <2>2. CASE i = Len(received) + 1
    <3>1. call[d].by.call \in Calls
          /\ call[d].by.nr <= call[call[d].by.call].replies
      BY <1>12 DEF RconInv, AnswersUsed, Packets
    <3>2. call[c].replies <= sent[c].replies
      BY DEF Counted
    <3> QED
      BY <1>1, <1>2, <1>4, <1>7, <2>2, <3>1, <3>2
  <2> QED
    BY <1>9, <2>1, <2>2
<1>13. Receivable(all, next)
  BY <1>7, <1>10, <1>11, <1>12 DEF Receivable
<1> QED
  BY <1>6, <1>7, <1>13 DEF all, next, p

LEMMA DataIsHandled ==
  ASSUME RconInv, NEW s \in Sockets, DataArrives(s)
  PROVE  \E received, sent :
           /\ Counted(sent) /\ Receivable(received, sent) /\ received # <<>>
           /\ Handle(received, sent)
<1>1. Counted(call) /\ Receivable(buffer, call)
  <2>1. call \in [Calls -> Call]
    BY DEF RconInv, RconTypeOK
  <2>2. \A c \in Calls : call[c].replies >= call[c].replies
    BY <2>1 DEF Call
  <2>3. Counted(call)
    BY <2>1, <2>2 DEF RconInv, Counted, UnusedHasNoReply
  <2>4. Receivable(buffer, call)
    BY DEF RconInv, RconTypeOK, BufferInv, AnswersUsed, Receivable
  <2> QED
    BY <2>3, <2>4
<1>2. PICK c \in Calls, r \in BOOLEAN :
        /\ MayCome(call, s, c, r)
        /\ \/ Handle(Append(buffer, NextPacket(call, c)), Come(call, c, r))
           \/ \E d \in Calls, q \in BOOLEAN :
                /\ MayCome(Come(call, c, r), s, d, q)
                /\ Handle(buffer \o <<NextPacket(call, c),
                                      NextPacket(Come(call, c, r), d)>>,
                          Come(Come(call, c, r), d, q))
  BY DEF DataArrives
<1> DEFINE one == Come(call, c, r)
           first == Append(buffer, NextPacket(call, c))
<1>3. Counted(one) /\ Receivable(first, one) /\ first # <<>>
  BY <1>1, <1>2, ComeReceivable
<1>4. CASE Handle(first, one)
  BY <1>3, <1>4
<1>5. ASSUME NEW d \in Calls, NEW q \in BOOLEAN, MayCome(one, s, d, q),
             Handle(buffer \o <<NextPacket(call, c), NextPacket(one, d)>>,
                    Come(one, d, q))
      PROVE  \E received, sent :
               /\ Counted(sent) /\ Receivable(received, sent)
               /\ received # <<>> /\ Handle(received, sent)
  <2>1. buffer \in Seq(Packets)
    BY DEF RconInv, RconTypeOK
  <2> HIDE DEF one
  <2>2. Append(first, NextPacket(one, d))
          = buffer \o <<NextPacket(call, c), NextPacket(one, d)>>
    BY <2>1
  <2> HIDE DEF first
  <2>3. /\ Counted(Come(one, d, q))
        /\ Receivable(Append(first, NextPacket(one, d)), Come(one, d, q))
        /\ Append(first, NextPacket(one, d)) # <<>>
    BY <1>3, <1>5, ComeReceivable
  <2> QED
    BY <1>5, <2>2, <2>3
<1> QED
  BY <1>2, <1>4, <1>5

LEMMA DataInv ==
  ASSUME RconInv, NEW s \in Sockets, DataArrives(s)
  PROVE  RconInv'
BY DataIsHandled, HandleInv

-----------------------------------------------------------------------------
(* The theorems.                                                           *)

LEMMA RconInitInv == RconInit => RconInv
<1> SUFFICES ASSUME RconInit
             PROVE  RconInv
  OBVIOUS
<1>1. /\ NotSent \in Call /\ NotSent.status = "unused"
      /\ NotSent.replies = 0 /\ ~NotSent.written
  BY RconAssumption DEF NotSent, NoPacket, Call, NoCall, NoSocket
<1>2. \A c \in Calls : call[c] = NotSent
  BY DEF RconInit
<1>3. RconTypeOK
  <2>1. line \in [Sockets -> Lines] /\ promise \in [Sockets -> Promises]
    BY DEF RconInit, Lines, Promises
  <2>2. call \in [Calls -> Call]
    BY <1>1 DEF RconInit
  <2>3. requestId \in 0..MaxCalls /\ buffer \in Seq(Packets)
    BY RconAssumption, EmptySeq DEF RconInit
  <2>4. connected \in BOOLEAN
    BY DEF RconInit
  <2> QED
    BY <2>1, <2>2, <2>3, <2>4 DEF RconInit, RconTypeOK
<1>4. \A c \in Calls : ~Answered(c)
  BY <1>1, <1>2 DEF Answered
<1>5. NumberedAsSent /\ UnusedHasNoReply
  BY <1>1, <1>2 DEF RconInit, NumberedAsSent, UnusedHasNoReply
<1>6. PendingIsTimed /\ ConnectedHasSocket
  BY DEF RconInit, PendingIsTimed, ConnectedHasSocket
<1>7. BufferInv
  BY EmptySeq DEF RconInit, BufferInv
<1> QED
  BY <1>3, <1>4, <1>5, <1>6, <1>7
     DEF RconInv, AnswersUsed, AnswersOnce, WrongAnswerHasCause

LEMMA RconNextInv == RconInv /\ [RconNext]_rconVars => RconInv'
<1> SUFFICES ASSUME RconInv, [RconNext]_rconVars
             PROVE  RconInv'
  OBVIOUS
<1>1. ASSUME NEW s \in Sockets, Connected(s)
      PROVE  RconInv'
  <2>1. Send(s, TRUE)
    BY <1>1 DEF Connected
  <2>2. /\ line' \in [Sockets -> Lines] /\ socket' = s /\ buffer' = <<>>
        /\ connected' = connected /\ UNCHANGED <<currentTimer, promise>>
    BY <1>1 DEF Connected, RconInv, RconTypeOK, Lines
  <2> QED
    BY <2>1, <2>2, SendInv
<1>2. CASE SendCommand
  <2>1. /\ socket \in Sockets /\ Send(socket, FALSE)
        /\ line' \in [Sockets -> Lines] /\ socket' = socket
        /\ buffer' = buffer /\ connected' = connected
        /\ UNCHANGED <<currentTimer, promise>>
    BY <1>2 DEF SendCommand, RconInv, RconTypeOK
  <2> QED
    BY <2>1, SendInv
<1>3. CASE UNCHANGED rconVars
  <2>1. UNCHANGED <<socket, connected, requestId, pending, currentTimer, buffer,
                    line, promise, call>>
    BY <1>3 DEF rconVars
  <2>2. RconTypeOK' /\ PendingIsTimed' /\ ConnectedHasSocket'
    BY <2>1 DEF RconInv, RconTypeOK, PendingIsTimed, ConnectedHasSocket
  <2>3. SameAnswers
    BY <2>1 DEF SameAnswers, Answered, GivenUp
  <2> QED
    BY <2>2, <2>3, AnswersStay DEF RconInv
<1> QED
  BY <1>1, <1>2, <1>3, WrittenInv, TimerInv, LineInv, DisconnectInv, DataInv
     DEF RconNext

\* The invariant holds of every behaviour.
THEOREM RconInvCorrect == RconSpec => []RconInv
BY RconInitInv, RconNextInv, PTL DEF RconSpec

\* A call that awaits its answer is always being timed (tcp-rcon-gateway.ts,
\* sendPacket and handleData): clearing the newest timer, whosever it is,
\* never leaves the pending call without one.
THEOREM PendingIsTimedAlways == RconSpec => []PendingIsTimed
<1>1. RconInv => PendingIsTimed
  BY DEF RconInv
<1> QED
  BY <1>1, RconInvCorrect, PTL

\* After disconnect nothing an old socket still does makes the gateway
\* connected, or has it wait, without a socket.
THEOREM ConnectedHasSocketAlways == RconSpec => []ConnectedHasSocket
<1>1. RconInv => ConnectedHasSocket
  BY DEF RconInv
<1> QED
  BY <1>1, RconInvCorrect, PTL

\* One packet of the game never answers two calls.
THEOREM AnswersOnceAlways == RconSpec => []AnswersOnce
<1>1. RconInv => AnswersOnce
  BY DEF RconInv
<1> QED
  BY <1>1, RconInvCorrect, PTL

\* The gateway never compares request ids (tcp-rcon-gateway.ts, handleData).  A
\* call that is answered with the answer to another gets that of an earlier
\* one, and only once an earlier call was given up or was answered with several
\* packets: however many calls, connections and packets there are, a command is
\* never answered ahead of its time, and never wrongly by a game that answers
\* each request with one packet in time.
THEOREM WrongAnswerHasCauseAlways == RconSpec => []WrongAnswerHasCause
<1>1. RconInv => WrongAnswerHasCause
  BY DEF RconInv
<1> QED
  BY <1>1, RconInvCorrect, PTL

-----------------------------------------------------------------------------
(* The gateway implements RconSlot.                                        *)

\* A connect is waiting while it is dialing, and while its login is pending.
LoginInv ==
  /\ \A s \in Sockets : line[s] = "dialing" => promise[s] = "waiting"
  /\ pending # NoCall /\ call[pending].auth =>
       /\ call[pending].sock \in Sockets
       /\ promise[call[pending].sock] = "waiting"
       /\ line[call[pending].sock] \in {"open", "closed"}

\* The calls are to those who made them what they were.
SameCalls ==
  \A c \in Calls :
    call'[c].status = call[c].status /\ call'[c].auth = call[c].auth

LEMMA SameCallsSameAnswer ==
  ASSUME SameCalls
  PROVE  SlotAnswer' = SlotAnswer
BY DEF SameCalls, SlotAnswer

LEMMA SameCallsSamePending ==
  ASSUME RconTypeOK, SameCalls, pending' = pending,
         \A c \in Calls : call'[c].sock = call[c].sock
  PROVE  SlotPending' = SlotPending
BY DEF SameCalls, SlotPending, RconTypeOK

\* The pending call is settled, and nothing else.
SettledAs(outcome, verdict) ==
  /\ pending # NoCall /\ pending' = NoCall
  /\ \A c \in Calls :
       /\ call'[c].auth = call[c].auth
       /\ call'[c].status = IF c = pending THEN outcome ELSE call[c].status
  /\ promise' = IF call[pending].auth
                THEN Settled(promise, call[pending].sock, verdict)
                ELSE promise

LEMMA SettledIsSettle ==
  ASSUME RconInv, LoginInv,
         NEW outcome \in {"answered", "rejected"},
         NEW verdict \in {"resolved", "rejected"},
         call[pending].auth \/ (outcome = "answered" <=> verdict = "resolved"),
         SettledAs(outcome, verdict)
  PROVE  Slot!Settle(verdict)
<1>1. /\ RconTypeOK /\ pending \in Calls /\ pending' = NoCall
      /\ call[pending].status = "waiting" /\ call[pending].auth \in BOOLEAN
      /\ promise \in [Sockets -> Promises]
  BY DEF RconInv, RconTypeOK, PendingIsTimed, SettledAs, Call
<1>2. SlotPending' = Slot!Empty
  BY <1>1 DEF SlotPending, Slot!Empty
<1>3. SlotPending # Slot!Empty
  BY <1>1 DEF SlotPending, Slot!Empty, SettledAs
<1>4. CASE call[pending].auth
  <2>1. SlotPending = Slot!Login(call[pending].sock)
    BY <1>4 DEF SlotPending, Slot!Login, SettledAs
  <2>2. \A s \in Sockets :
          SlotPending = Slot!Login(s) <=> s = call[pending].sock
    BY <2>1 DEF Slot!Login
  <2>3. promise' = [s \in Sockets |->
          IF SlotPending = Slot!Login(s) THEN verdict ELSE promise[s]]
    BY <1>1, <1>4, <2>2 DEF LoginInv, SettledAs, Settled
  <2>4. \A c \in Calls : SlotPending # Slot!Command(c)
    BY <2>1 DEF Slot!Login, Slot!Command
  <2>5. SlotAnswer' = SlotAnswer
    BY <1>1, <1>4 DEF SettledAs, SlotAnswer
  <2>6. SlotAnswer = [c \in Calls |-> SlotAnswer[c]]
    BY DEF SlotAnswer
  <2> QED
    BY <1>2, <1>3, <2>3, <2>4, <2>5, <2>6 DEF Slot!Settle
<1>5. CASE ~call[pending].auth
  <2>1. SlotPending = Slot!Command(pending)
    BY <1>5 DEF SlotPending, Slot!Command, SettledAs
  <2>2. \A c \in Calls : SlotPending = Slot!Command(c) <=> c = pending
    BY <2>1 DEF Slot!Command
  <2>3. \A s \in Sockets : SlotPending # Slot!Login(s)
    BY <2>1 DEF Slot!Login, Slot!Command
  <2>4. promise' = [s \in Sockets |->
          IF SlotPending = Slot!Login(s) THEN verdict ELSE promise[s]]
    BY <1>1, <1>5, <2>3 DEF SettledAs
  <2>5. SlotAnswer' = [c \in Calls |->
          IF SlotPending = Slot!Command(c) THEN verdict ELSE SlotAnswer[c]]
    BY <1>1, <1>5, <2>2 DEF SettledAs, SlotAnswer
  <2> QED
    BY <1>2, <1>3, <2>4, <2>5 DEF Slot!Settle
<1> QED
  BY <1>1, <1>4, <1>5

LEMMA LoginStep == RconInv /\ LoginInv /\ [RconNext]_rconVars => LoginInv'
<1> SUFFICES ASSUME RconInv, LoginInv, [RconNext]_rconVars
             PROVE  LoginInv'
  OBVIOUS
<1>1. /\ RconTypeOK /\ ConnectedHasSocket
      /\ line \in [Sockets -> Lines] /\ promise \in [Sockets -> Promises]
  BY DEF RconInv, RconTypeOK
<1>2. ASSUME NEW s \in Sockets, Connect(s)
      PROVE  LoginInv'
  BY <1>1, <1>2 DEF Connect, LoginInv
<1>3. ASSUME NEW s \in Sockets, Connected(s)
      PROVE  LoginInv'
  <2>1. Send(s, TRUE)
    BY <1>3 DEF Connected
  <2>2. pending' \in Calls /\ call'[pending'].sock = s
    BY <1>1, <2>1, RconAssumption
       DEF Send, RconTypeOK, Calls, NotSent
  <2> QED
    BY <1>1, <1>3, <2>2 DEF Connected, LoginInv
<1>4. ASSUME NEW s \in Sockets, DataArrives(s)
      PROVE  LoginInv'
  <2>1. /\ pending' = NoCall /\ line' = line
        /\ \E received, sent : Handle(received, sent)
    BY <1>4, DataIsHandled DEF Handle
  <2>2. \/ promise' = promise
        \/ /\ pending # NoCall /\ call[pending].auth
           /\ \E v \in {"resolved", "rejected"} :
                promise' = Settled(promise, call[pending].sock, v)
    BY <2>1 DEF Handle
  <2> QED
    BY <1>1, <2>1, <2>2 DEF LoginInv, Settled
<1>5. ASSUME NEW s \in Sockets, SocketError(s) \/ SocketTimeout(s)
      PROVE  LoginInv'
  <2>1. pending' = NoCall /\ line' = [line EXCEPT ![s] = "closed"]
    BY <1>5 DEF SocketError, SocketTimeout, RejectPending, Cut
  <2>2. \/ promise' = promise
        \/ promise' = Settled(promise, s, "rejected")
        \/ /\ pending # NoCall /\ call[pending].auth
           /\ promise' = Settled(promise, call[pending].sock, "rejected")
    BY <1>5 DEF SocketError, SocketTimeout, RejectPending
  <2> QED
    BY <1>1, <2>1, <2>2 DEF LoginInv, Settled
<1>6. ASSUME NEW s \in Sockets, PeerCloses(s)
      PROVE  LoginInv'
  BY <1>1, <1>6 DEF PeerCloses, Cut, LoginInv
<1>7. ASSUME NEW c \in Calls, PacketWritten(c)
      PROVE  LoginInv'
  BY <1>1, <1>7 DEF PacketWritten, LoginInv, RconTypeOK, Call
<1>8. ASSUME NEW c \in Calls, TimerFires(c)
      PROVE  LoginInv'
  BY <1>1, <1>8 DEF TimerFires, LoginInv, Settled
<1>9. CASE SendCommand
  <2>1. pending' \in Calls /\ ~call'[pending'].auth
    BY <1>1, <1>9, RconAssumption
       DEF SendCommand, Send, RconTypeOK, Calls, NotSent
  <2> QED
    BY <1>9, <2>1 DEF SendCommand, LoginInv
<1>10. CASE Disconnect
  BY <1>1, <1>10 DEF Disconnect, Cut, LoginInv
<1>11. CASE UNCHANGED rconVars
  BY <1>11 DEF rconVars, LoginInv
<1> QED
  BY <1>2, <1>3, <1>4, <1>5, <1>6, <1>7, <1>8, <1>9, <1>10, <1>11 DEF RconNext

\* A packet that is sent takes the slot.
LEMMA SendTakesSlot ==
  ASSUME RconInv, NEW s \in Sockets, NEW auth \in BOOLEAN,
         Send(s, auth)
  PROVE  \E c \in Calls :
           /\ SlotAnswer[c] = "unused"
           /\ SlotPending' = IF auth THEN Slot!Login(s) ELSE Slot!Command(c)
           /\ SlotAnswer' = IF auth THEN SlotAnswer
                            ELSE [SlotAnswer EXCEPT ![c] = "waiting"]
<1> DEFINE c == requestId + 1
<1>1. c \in Calls /\ c # NoCall /\ RconTypeOK /\ call[c].status = "unused"
  BY RconAssumption
     DEF RconInv, RconTypeOK, Send, Calls, NoCall, NumberedAsSent
<1>2. /\ pending' = c /\ call'[c].auth = auth /\ call'[c].sock = s
      /\ call'[c].status = "waiting"
      /\ \A d \in Calls \ {c} : call'[d] = call[d]
  BY <1>1 DEF Send, RconTypeOK, NotSent
<1> HIDE DEF c
<1>3. SlotAnswer[c] = "unused"
  BY <1>1 DEF SlotAnswer
<1>4. SlotPending' = IF auth THEN Slot!Login(s) ELSE Slot!Command(c)
  BY <1>1, <1>2 DEF SlotPending, Slot!Login, Slot!Command
<1>5. SlotAnswer' = IF auth THEN SlotAnswer
                    ELSE [SlotAnswer EXCEPT ![c] = "waiting"]
  BY <1>1, <1>2 DEF SlotAnswer
<1> QED
  BY <1>1, <1>3, <1>4, <1>5

\* What a data event does to the pending call.
LEMMA HandleIsAnswer ==
  ASSUME RconInv, LoginInv, NEW s \in Sockets, line[s] = "open",
         NEW received, NEW sent, Counted(sent),
         Handle(received, sent)
  PROVE  Slot!Answer(s) \/ UNCHANGED Slot!slotVars
<1>1. RconTypeOK /\ pending' = NoCall
  BY DEF RconInv, Handle
<1>2. \A c \in Calls :
        /\ call'[c].auth = call[c].auth /\ call'[c].sock = call[c].sock
        /\ call'[c].status = IF c = pending THEN "answered" ELSE call[c].status
  <2>1. call' = [c \in Calls |-> After(sent, c, Head(received))]
    BY DEF Handle
  <2>2. ASSUME NEW c \in Calls, NEW p
        PROVE  /\ After(sent, c, p).auth = sent[c].auth
               /\ After(sent, c, p).sock = sent[c].sock
               /\ After(sent, c, p).status =
                    IF c = pending THEN "answered" ELSE sent[c].status
    <3>1. sent[c] \in Call
      BY DEF Counted
    <3> QED
      BY <3>1 DEF After, Call
  <2> QED
    BY <2>1, <2>2 DEF Counted
<1>3. UNCHANGED <<socket, line>>
  BY DEF Handle
<1>4. CASE pending = NoCall
  <2>1. SameCalls /\ UNCHANGED <<connected, promise>>
    BY <1>2, <1>4 DEF SameCalls, Handle, NoCall, Calls
  <2>2. UNCHANGED <<SlotPending, SlotAnswer>>
    BY <1>1, <1>2, <1>4, <2>1, SameCallsSameAnswer, SameCallsSamePending
  <2> QED
    BY <1>3, <2>1, <2>2 DEF Slot!slotVars
<1>5. CASE pending # NoCall /\ ~call[pending].auth
  <2>1. SettledAs("answered", "resolved") /\ connected' = connected
    BY <1>1, <1>2, <1>5 DEF SettledAs, Handle
  <2>2. ~Slot!LoggingIn
    BY <1>5 DEF Slot!LoggingIn, SlotPending, Slot!Login
  <2>3. Slot!Settle("resolved")
    BY <2>1, SettledIsSettle
  <2> QED
    BY <1>1, <1>3, <2>1, <2>2, <2>3 DEF Slot!Answer, RconTypeOK
<1>6. CASE pending # NoCall /\ call[pending].auth
  <2> DEFINE refusal == IsRefusal(sent, Head(received))
             verdict == IF refusal THEN "rejected" ELSE "resolved"
  <2>1. /\ SettledAs("answered", verdict)
        /\ connected' = ~refusal
    BY <1>1, <1>2, <1>6 DEF SettledAs, Handle
  <2>2. Slot!LoggingIn
    BY <1>6 DEF Slot!LoggingIn, SlotPending, Slot!Login, LoginInv
  <2>3. Slot!Settle(verdict)
    BY <1>6, <2>1, SettledIsSettle
  <2>4. CASE refusal
    BY <1>3, <2>1, <2>2, <2>3, <2>4 DEF Slot!Answer
  <2>5. CASE ~refusal
    BY <1>1, <1>3, <2>1, <2>2, <2>3, <2>5 DEF Slot!Answer, RconTypeOK
  <2> QED
    BY <2>4, <2>5
<1> QED
  BY <1>4, <1>5, <1>6

\* A failure of the pending call is one in the slot.
LEMMA RejectIsSettle ==
  ASSUME RconInv, LoginInv, pending # NoCall,
         RejectPending
  PROVE  Slot!Settle("rejected")
<1>1. SettledAs("rejected", "rejected")
  BY DEF RejectPending, SettledAs, RconInv, RconTypeOK, Call
<1> QED
  BY <1>1, SettledIsSettle

\* Every step of the gateway is a step of the slot, or none.
LEMMA SlotStep ==
  RconInv /\ LoginInv /\ [RconNext]_rconVars => [Slot!SlotNext]_(Slot!slotVars)
<1> SUFFICES ASSUME RconInv, LoginInv, [RconNext]_rconVars
             PROVE  Slot!SlotNext \/ UNCHANGED Slot!slotVars
  OBVIOUS
<1>1. /\ RconTypeOK /\ ConnectedHasSocket
      /\ line \in [Sockets -> Lines] /\ promise \in [Sockets -> Promises]
      /\ call \in [Calls -> Call] /\ pending \in Calls \union {NoCall}
  BY DEF RconInv, RconTypeOK
<1>2. ASSUME NEW s \in Sockets, Connect(s)
      PROVE  Slot!SlotNext
  <2>1. UNCHANGED <<SlotPending, SlotAnswer>>
    BY <1>2 DEF Connect, SlotPending, SlotAnswer
  <2> QED
    BY <1>2, <2>1 DEF Connect, Slot!Connect, Slot!SlotNext
<1>3. ASSUME NEW s \in Sockets, Connected(s)
      PROVE  Slot!SlotNext
  <2>1. Send(s, TRUE)
    BY <1>3 DEF Connected
  <2>2. SlotPending' = Slot!Login(s) /\ SlotAnswer' = SlotAnswer
    BY <2>1, SendTakesSlot
  <2> QED
    BY <1>3, <2>2 DEF Connected, Slot!Connected, Slot!SlotNext
<1>4. ASSUME NEW s \in Sockets, DataArrives(s)
      PROVE  Slot!SlotNext \/ UNCHANGED Slot!slotVars
  <2>1. \E received, sent : Counted(sent) /\ Handle(received, sent)
    BY <1>4, DataIsHandled
  <2> QED
    BY <1>4, <2>1, HandleIsAnswer DEF DataArrives, Slot!SlotNext
<1>5. ASSUME NEW s \in Sockets, SocketError(s)
      PROVE  Slot!SlotNext
  <2>1. CASE pending # NoCall
    BY <1>5, <2>1, RejectIsSettle
       DEF SocketError, Cut, Slot!SocketError, Slot!SlotNext
  <2>2. CASE pending = NoCall
    <3>1. SlotPending = Slot!Empty /\ UNCHANGED <<SlotPending, SlotAnswer>>
      BY <1>5, <2>2 DEF SocketError, SlotPending, SlotAnswer, Slot!Empty
    <3> QED
      BY <1>5, <2>2, <3>1
         DEF SocketError, Settled, Cut, Slot!SocketError, Slot!SlotNext
  <2> QED
    BY <2>1, <2>2
<1>6. ASSUME NEW s \in Sockets, SocketTimeout(s)
      PROVE  Slot!SlotNext
  <2>1. CASE pending # NoCall
    BY <1>6, <2>1, RejectIsSettle
       DEF SocketTimeout, Cut, Slot!SocketTimeout, Slot!SlotNext
  <2>2. CASE pending = NoCall
    <3>1. SlotPending = Slot!Empty /\ UNCHANGED <<SlotPending, SlotAnswer>>
      BY <1>6, <2>2 DEF SocketTimeout, SlotPending, SlotAnswer, Slot!Empty
    <3> QED
      BY <1>6, <2>2, <3>1 DEF SocketTimeout, Cut, Slot!SocketTimeout, Slot!SlotNext
  <2> QED
    BY <2>1, <2>2
<1>7. ASSUME NEW s \in Sockets, PeerCloses(s)
      PROVE  Slot!SlotNext
  <2>1. UNCHANGED <<SlotPending, SlotAnswer>>
    BY <1>7 DEF PeerCloses, SlotPending, SlotAnswer
  <2> QED
    BY <1>7, <2>1 DEF PeerCloses, Cut, Slot!PeerCloses, Slot!SlotNext
<1>8. ASSUME NEW c \in Calls, PacketWritten(c)
      PROVE  UNCHANGED Slot!slotVars
  <2>1. SameCalls /\ \A d \in Calls : call'[d].sock = call[d].sock
    BY <1>1, <1>8 DEF PacketWritten, SameCalls, Call
  <2> QED
    BY <1>1, <1>8, <2>1, SameCallsSameAnswer, SameCallsSamePending
       DEF PacketWritten, Slot!slotVars
<1>9. ASSUME NEW c \in Calls, TimerFires(c)
      PROVE  Slot!SlotNext \/ UNCHANGED Slot!slotVars
  <2>1. CASE pending # NoCall
    <3>1. SettledAs("rejected", "rejected")
      BY <1>1, <1>9, <2>1 DEF TimerFires, SettledAs, Call
    <3>2. Slot!TimeOut
      BY <1>9, <3>1, SettledIsSettle DEF TimerFires, Slot!TimeOut
    <3> QED
      BY <3>2 DEF Slot!SlotNext
  <2>2. CASE pending = NoCall
    <3>1. SameCalls /\ \A d \in Calls : call'[d].sock = call[d].sock
      BY <1>1, <1>9, <2>2 DEF TimerFires, SameCalls, Call
    <3> QED
      BY <1>1, <1>9, <2>2, <3>1, SameCallsSameAnswer, SameCallsSamePending
         DEF TimerFires, Slot!slotVars
  <2> QED
    BY <2>1, <2>2
<1>10. CASE SendCommand
  <2>1. PICK c \in Calls :
          /\ SlotAnswer[c] = "unused"
          /\ SlotPending' = Slot!Command(c)
          /\ SlotAnswer' = [SlotAnswer EXCEPT ![c] = "waiting"]
    BY <1>1, <1>10, SendTakesSlot DEF SendCommand, RconTypeOK
  <2> QED
    BY <1>10, <2>1
       DEF SendCommand, Slot!SendCommand, Slot!MaySend, Slot!SlotNext
<1>11. CASE Disconnect
  <2>1. SlotPending' = Slot!Empty /\ SlotAnswer' = SlotAnswer
    BY <1>11 DEF Disconnect, SlotPending, SlotAnswer, Slot!Empty
  <2> QED
    BY <1>11, <2>1
       DEF Disconnect, Slot!Disconnect, Slot!Closed, Cut, Slot!SlotNext
<1>12. CASE UNCHANGED rconVars
  <2>1. SameCalls
    BY <1>12 DEF rconVars, SameCalls
  <2> QED
    BY <1>1, <1>12, <2>1, SameCallsSameAnswer, SameCallsSamePending
       DEF rconVars, Slot!slotVars
<1> QED
  BY <1>2, <1>3, <1>4, <1>5, <1>6, <1>7, <1>8, <1>9, <1>10, <1>11, <1>12
     DEF RconNext

\* To its callers the gateway, with its packets, timers and buffer, is the one
\* slot of RconSlot, for any number of sockets and calls: whoever reasons
\* about callers may forget how tcp-rcon-gateway.ts does it.
THEOREM ImplementsSlot == RconSpec => IsOneSlot
<1>1. RconInit => LoginInv
  BY DEF RconInit, LoginInv
<1>2. RconInit => Slot!SlotInit
  BY DEF RconInit, Slot!SlotInit, SlotPending, SlotAnswer, Slot!Empty, NotSent
<1> QED
  BY <1>1, <1>2, LoginStep, SlotStep, RconInvCorrect, PTL
     DEF RconSpec, IsOneSlot, Slot!SlotSpec
=============================================================================
