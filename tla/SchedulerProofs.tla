-------------------------- MODULE SchedulerProofs --------------------------
(***************************************************************************)
(* Theorems about SchedulerService and the ssh pool under it, for any      *)
(* number of callers, tasks and connections.                               *)
(***************************************************************************)
EXTENDS SchedulerService, FiniteSetTheorems, TLAPS

-----------------------------------------------------------------------------
(* The ssh clients.                                                        *)

\* A client that is being made is being made for one caller.
DialingInv ==
  \A f \in Callers : exec[f].at = "dialing" =>
    /\ exec[f].client \in Clients
    /\ client[exec[f].client].state = "dialing"
    /\ \A g \in Callers :
         exec[g].at = "dialing" /\ exec[g].client = exec[f].client => g = f

\* As long as the pool is empty every client is being made for a caller.
Alive == {c \in Clients : ~Unused(c)}

Dialing == {f \in Callers : exec[f].at = "dialing"}

OrphanInv ==
  /\ pool = NoClient => \A c \in Alive : \E f \in Dialing : exec[f].client = c
  /\ Cardinality(Alive) <= Cardinality(Callers)

SshInv == SshTypeOK /\ DialingInv /\ CommandsAreLoggedIn /\ OrphanInv

\* What a step of the program is to the clients.
SshStep ==
  \/ \E f \in Callers :
       \/ \E user \in Users : Begin(f, user)
       \/ Ready(f) \/ Refused(f) \/ Fails(f) \/ Retry(f)
       \/ Succeeds(f) \/ GivesUp(f)
  \/ \E c \in Clients : Lost(c)
  \/ UNCHANGED sshVars

LEMMA StepIsSshStep == [SchedulerNext]_schedulerVars => SshStep
<1> SUFFICES ASSUME [SchedulerNext]_schedulerVars
             PROVE  SshStep
  OBVIOUS
<1>1. ASSUME NEW f \in Callers, SyncCrontab(f)
      PROVE  SshStep
  BY <1>1, TaskAssumption DEF SyncCrontab, SshStep
<1>2. ASSUME NEW f \in Callers, Watch(f)
      PROVE  SshStep
  BY <1>2, TaskAssumption DEF Watch, SshStep
<1>3. ASSUME NEW f \in Callers, CallerSteps(f)
      PROVE  SshStep
  BY <1>3 DEF CallerSteps, GatewaySteps, CommandSucceeds, CommandThrows, SshStep
<1>4. ASSUME NEW c \in Clients, LineDrops(c)
      PROVE  SshStep
  BY <1>4 DEF LineDrops, SshStep
<1>5. CASE UNCHANGED schedulerVars
  BY <1>5 DEF schedulerVars, sshVars, SshStep
<1> QED
  BY <1>1, <1>2, <1>3, <1>4, <1>5
     DEF SchedulerNext, AddTask, RemoveTask, ToggleTask,
         CreateTask, DeleteTask, UpdateTask

\* The clients are finitely many.
LEMMA AliveIsFinite ==
  /\ IsFiniteSet(Clients)
  /\ IsFiniteSet(Alive)
  /\ Cardinality(Alive) \in Nat
  /\ Cardinality(Callers) \in Nat
<1>1. IsFiniteSet(Clients)
  BY FS_Interval, SshAssumption DEF Clients
<1> QED
  BY <1>1, FS_Subset, FS_CardinalityType, SshAssumption DEF Alive

\* A caller that finds the pool empty, and is not dialing itself, makes one
\* client more than fewer clients than there are callers.
LEMMA RoomForOne ==
  ASSUME SshInv, pool = NoClient, NEW f \in Callers, exec[f].at = "idle"
  PROVE  Cardinality(Alive) + 1 <= Cardinality(Callers)
<1> DEFINE made  == {g \in Dialing : exec[g].client \in Alive}
           maker == [g \in made |-> exec[g].client]
<1>1. maker \in Surjection(made, Alive)
  BY DEF SshInv, OrphanInv, Surjection
<1>2. made \subseteq Callers \ {f}
  BY DEF Dialing
<1> HIDE DEF made, maker
<1>3. /\ IsFiniteSet(Callers \ {f})
      /\ Cardinality(Callers \ {f}) = Cardinality(Callers) - 1
  BY FS_RemoveElement, SshAssumption
<1>4. /\ IsFiniteSet(made)
      /\ Cardinality(made) <= Cardinality(Callers) - 1
  BY <1>2, <1>3, FS_Subset
<1>5. Cardinality(Alive) <= Cardinality(made)
  BY <1>1, <1>4, FS_Surjection
<1> QED
  BY <1>4, <1>5, FS_CardinalityType, AliveIsFinite
\* The step that makes a client.
LEMMA MakingInv ==
  ASSUME SshInv, pool = NoClient, NEW f \in Callers, exec[f].at = "idle",
         NEW c \in Clients, Unused(c), NEW user \in Users,
         client' = [client EXCEPT ![c] = [state |-> "dialing", user |-> user]],
         exec' = [exec EXCEPT ![f] =
           [NoExec EXCEPT !.at = "dialing", !.client = c, !.left = 1]],
         pool' = pool
  PROVE  SshInv'
<1>1. exec'[f] = [at |-> "dialing", client |-> c, left |-> 1]
  BY DEF SshInv, SshTypeOK, NoExec
<1>2. client'[c] = [state |-> "dialing", user |-> user]
  BY DEF SshInv, SshTypeOK
<1>3. \A g \in Callers : g # f => exec'[g] = exec[g]
  BY DEF SshInv, SshTypeOK
<1>4. \A d \in Clients : d # c => client'[d] = client[d]
  BY DEF SshInv, SshTypeOK
<1>5. SshTypeOK'
  <2>1. exec'[f] \in Exec
    <3>1. 1 \in 0..MaxRetries /\ c \in Clients \union {NoClient}
      BY DEF MaxRetries
    <3>2. "dialing" \in {"idle", "dialing", "command", "cut", "backoff"}
      OBVIOUS
    <3>3. [at |-> "dialing", client |-> c, left |-> 1] \in Exec
      BY <3>1, <3>2 DEF Exec
    <3> QED
      BY <1>1, <3>3
  <2>2. client'[c] \in [state : ClientStates, user : Users \union {NoUser}]
    BY <1>2 DEF ClientStates
  <2> QED
    BY <2>1, <2>2 DEF SshInv, SshTypeOK
<1>6. DialingInv'
  BY <1>1, <1>2, <1>3, <1>4 DEF SshInv, DialingInv, Unused
<1>7. CommandsAreLoggedIn'
  BY <1>1, <1>3, <1>4 DEF SshInv, CommandsAreLoggedIn, LoggedIn, Unused, SshTypeOK
<1>8. Alive' = Alive \union {c}
  BY <1>2, <1>4 DEF Alive, Unused
<1>9. Cardinality(Alive') <= Cardinality(Callers)
  <2>1. Cardinality(Alive) + 1 <= Cardinality(Callers)
    BY RoomForOne
  <2>2. Cardinality(Alive \union {c}) <= Cardinality(Alive) + 1
    <3>1. Cardinality(Alive \union {c}) =
            IF c \in Alive THEN Cardinality(Alive) ELSE Cardinality(Alive) + 1
      BY AliveIsFinite, FS_AddElement
    <3> QED
      BY <3>1, AliveIsFinite
  <2>3. Cardinality(Alive \union {c}) \in Nat
    BY AliveIsFinite, FS_AddElement, FS_CardinalityType
  <2>4. Cardinality(Alive \union {c}) <= Cardinality(Callers)
    BY <2>1, <2>2, <2>3, AliveIsFinite
  <2> QED
    BY <1>8, <2>4
<1>10. \A d \in Alive' : \E g \in Dialing' : exec'[g].client = d
  <2>1. \A d \in Alive : \E g \in Dialing : exec[g].client = d
    BY DEF SshInv, OrphanInv
  <2>2. \A g \in Dialing : g \in Dialing' /\ exec'[g].client = exec[g].client
    BY <1>3 DEF Dialing
  <2>3. f \in Dialing' /\ exec'[f].client = c
    BY <1>1 DEF Dialing
  <2> QED
    BY <1>8, <2>1, <2>2, <2>3
<1> QED
  BY <1>5, <1>6, <1>7, <1>9, <1>10 DEF SshInv, OrphanInv

LEMMA BeginInv ==
  ASSUME SshInv, NEW f \in Callers, NEW user \in Users, Begin(f, user)
  PROVE  SshInv'
<1>1. CASE pool = NoClient
  <2>1. PICK c \in Clients :
          /\ Fresh(c)
          /\ client' = [client EXCEPT ![c] = [state |-> "dialing", user |-> user]]
          /\ exec' = [exec EXCEPT ![f] =
               [NoExec EXCEPT !.at = "dialing", !.client = c, !.left = 1]]
          /\ UNCHANGED pool
    BY <1>1 DEF Begin
  <2> QED
    BY <1>1, <2>1, MakingInv DEF Begin, Fresh
<1>2. CASE pool # NoClient
  <2>1. /\ exec' = [exec EXCEPT ![f] =
             [NoExec EXCEPT !.at = "command", !.client = pool, !.left = MaxRetries]]
        /\ UNCHANGED <<pool, client>>
    BY <1>2 DEF Begin
  <2>2. exec'[f] = [at |-> "command", client |-> pool, left |-> MaxRetries]
    BY <2>1 DEF SshInv, SshTypeOK, NoExec
  <2>3. \A g \in Callers : g # f => exec'[g] = exec[g]
    BY <2>1 DEF SshInv, SshTypeOK
  <2>4. exec'[f] \in Exec
    BY <2>2 DEF Exec, MaxRetries, SshInv, SshTypeOK
  <2>5. SshTypeOK'
    BY <2>1, <2>4 DEF SshInv, SshTypeOK
  <2>6. DialingInv'
    BY <2>1, <2>2, <2>3 DEF SshInv, DialingInv
  <2>7. CommandsAreLoggedIn'
    BY <1>2, <2>1, <2>2, <2>3 DEF SshInv, CommandsAreLoggedIn, LoggedIn
  <2>8. OrphanInv'
    BY <1>2, <2>1 DEF SshInv, OrphanInv, Alive, Unused
  <2> QED
    BY <2>5, <2>6, <2>7, <2>8 DEF SshInv
<1> QED
  BY <1>1, <1>2

LEMMA ReadyInv ==
  ASSUME SshInv, NEW f \in Callers, Ready(f)
  PROVE  SshInv'
<1>1. PICK c \in Clients :
        /\ c = exec[f].client /\ client[c].state = "dialing"
        /\ client[c].user \in Accepted /\ exec[f].at = "dialing"
  BY DEF Ready, SshInv, DialingInv
<1>2. /\ client' = [client EXCEPT ![c].state = "ready"]
      /\ pool' = c
      /\ exec' = [exec EXCEPT ![f].at = "command"]
  BY <1>1 DEF Ready
<1>3. exec'[f] = [exec[f] EXCEPT !.at = "command"]
  BY <1>2 DEF SshInv, SshTypeOK
<1>4. \A g \in Callers : g # f => exec'[g] = exec[g]
  BY <1>2 DEF SshInv, SshTypeOK
<1>5. client'[c] = [client[c] EXCEPT !.state = "ready"]
  BY <1>1, <1>2 DEF SshInv, SshTypeOK
<1>6. \A d \in Clients : d # c => client'[d] = client[d]
  BY <1>2 DEF SshInv, SshTypeOK
<1>7. exec[f] \in Exec /\ client[c] \in [state : ClientStates, user : Users \union {NoUser}]
  BY <1>1 DEF SshInv, SshTypeOK
<1>8. exec'[f] \in Exec /\ exec'[f].at = "command" /\ exec'[f].client = c
  BY <1>1, <1>3, <1>7 DEF Exec
<1>9. /\ client'[c] \in [state : ClientStates, user : Users \union {NoUser}]
      /\ client'[c].state = "ready" /\ client'[c].user = client[c].user
  BY <1>5, <1>7 DEF ClientStates
<1>10. SshTypeOK'
  BY <1>1, <1>2, <1>8, <1>9 DEF SshInv, SshTypeOK
<1>11. DialingInv'
  BY <1>1, <1>4, <1>6, <1>8 DEF SshInv, DialingInv
<1>12. CommandsAreLoggedIn'
  <2>1. LoggedIn(c)'
    BY <1>1, <1>9 DEF LoggedIn
  <2>2. ASSUME NEW g \in Callers, g # f, exec[g].at \in {"command", "cut", "backoff"}
        PROVE  LoggedIn(exec[g].client)'
    <3>1. LoggedIn(exec[g].client)
      BY <2>2 DEF SshInv, CommandsAreLoggedIn
    <3>2. exec[g].client # c
      BY <1>1, <3>1 DEF LoggedIn
    <3>3. exec[g].client \in Clients \/ exec[g].client = NoClient
      BY DEF SshInv, SshTypeOK, Exec
    <3>4. client'[exec[g].client] = client[exec[g].client]
      BY <1>2, <1>6, <3>2, <3>3 DEF SshInv, SshTypeOK
    <3> QED
      BY <1>4, <2>2, <3>1, <3>4 DEF LoggedIn
  <2> QED
    BY <1>2, <1>4, <1>8, <2>1, <2>2 DEF CommandsAreLoggedIn
<1>13. Alive' = Alive
  BY <1>1, <1>6, <1>9 DEF Alive, Unused
<1>14. OrphanInv'
  BY <1>1, <1>2, <1>13 DEF SshInv, OrphanInv, Clients, NoClient
<1> QED
  BY <1>10, <1>11, <1>12, <1>14 DEF SshInv
LEMMA RefusedInv ==
  ASSUME SshInv, NEW f \in Callers, Refused(f)
  PROVE  SshInv'
<1>1. PICK c \in Clients :
        c = exec[f].client /\ client[c].state = "dialing" /\ exec[f].at = "dialing"
  BY DEF Refused, SshInv, DialingInv
<1>2. /\ client' = [client EXCEPT ![c] = NoConnection]
      /\ exec' = [exec EXCEPT ![f] = NoExec]
      /\ pool' = pool
  BY <1>1 DEF Refused
<1>3. exec'[f] = NoExec /\ client'[c] = NoConnection
  BY <1>2 DEF SshInv, SshTypeOK
<1>4. \A g \in Callers : g # f => exec'[g] = exec[g]
  BY <1>2 DEF SshInv, SshTypeOK
<1>5. \A d \in Clients : d # c => client'[d] = client[d]
  BY <1>2 DEF SshInv, SshTypeOK
<1>6. NoExec \in Exec /\ NoExec.at = "idle"
  BY DEF Exec, NoExec, MaxRetries
<1>7. /\ NoConnection \in [state : ClientStates, user : Users \union {NoUser}]
      /\ NoConnection.state = "unused"
  BY DEF NoConnection, ClientStates
<1>8. SshTypeOK'
  BY <1>2, <1>6, <1>7 DEF SshInv, SshTypeOK
<1>9. DialingInv'
  BY <1>1, <1>3, <1>4, <1>5, <1>6 DEF SshInv, DialingInv
<1>10. CommandsAreLoggedIn'
  BY <1>1, <1>2, <1>3, <1>4, <1>5, <1>6
     DEF SshInv, CommandsAreLoggedIn, LoggedIn, SshTypeOK, Exec
<1>11. Alive' = Alive \ {c}
  BY <1>3, <1>5, <1>7 DEF Alive, Unused
<1>12. Cardinality(Alive') <= Cardinality(Callers)
  <2>1. /\ Cardinality(Alive \ {c}) <= Cardinality(Alive)
        /\ Cardinality(Alive \ {c}) \in Nat
    BY AliveIsFinite, FS_Subset, FS_CardinalityType
  <2>2. Cardinality(Alive \ {c}) <= Cardinality(Callers)
    BY <2>1, AliveIsFinite DEF SshInv, OrphanInv
  <2> QED
    BY <1>11, <2>2
<1>13. pool' = NoClient => \A d \in Alive' : \E g \in Dialing' : exec'[g].client = d
  BY <1>1, <1>2, <1>4, <1>11 DEF SshInv, OrphanInv, Dialing
<1> QED
  BY <1>8, <1>9, <1>10, <1>12, <1>13 DEF SshInv, OrphanInv

LEMMA LostInv ==
  ASSUME SshInv, NEW c \in Clients, Lost(c)
  PROVE  SshInv'
<1>1. /\ client' = [client EXCEPT ![c].state = "lost"] /\ pool' = pool
      /\ client[c].state = "ready"
  BY DEF Lost
<1>2. \A g \in Callers :
        /\ exec'[g].client = exec[g].client
        /\ exec'[g] = exec[g] \/ (exec[g].at = "command" /\ exec'[g].at = "cut")
        /\ exec'[g] \in Exec
  <2>1. \A g \in Callers : exec[g] \in Exec
    BY DEF SshInv, SshTypeOK
  <2>2. ASSUME NEW g \in Callers
        PROVE  exec'[g] = IF exec[g].at = "command" /\ exec[g].client = c
                          THEN [exec[g] EXCEPT !.at = "cut"] ELSE exec[g]
    BY DEF Lost
  <2>3. \A g \in Callers :
          LET cut == [exec[g] EXCEPT !.at = "cut"]
          IN  cut \in Exec /\ cut.at = "cut" /\ cut.client = exec[g].client
    BY <2>1 DEF Exec
  <2>4. ASSUME NEW g \in Callers, exec[g].at = "command", exec[g].client = c
        PROVE  /\ exec'[g].client = exec[g].client
               /\ exec'[g].at = "cut" /\ exec'[g] \in Exec
    BY <2>2, <2>3, <2>4
  <2>5. ASSUME NEW g \in Callers, ~(exec[g].at = "command" /\ exec[g].client = c)
        PROVE  exec'[g] = exec[g] /\ exec'[g] \in Exec
    BY <2>1, <2>2, <2>5
  <2>6. \A g \in Callers : exec'[g].client = exec[g].client
    BY <2>4, <2>5
  <2>7. \A g \in Callers : exec'[g] \in Exec
    BY <2>4, <2>5
  <2>8. \A g \in Callers :
          exec'[g] = exec[g] \/ (exec[g].at = "command" /\ exec'[g].at = "cut")
    BY <2>4, <2>5
  <2> QED
    BY <2>6, <2>7, <2>8
<1>3. \A d \in Clients : d # c => client'[d] = client[d]
  BY <1>1 DEF SshInv, SshTypeOK
<1>4. client'[c] = [client[c] EXCEPT !.state = "lost"]
  BY <1>1 DEF SshInv, SshTypeOK
<1>5. client[c] \in [state : ClientStates, user : Users \union {NoUser}]
  BY DEF SshInv, SshTypeOK
<1>6. /\ client'[c] \in [state : ClientStates, user : Users \union {NoUser}]
      /\ client'[c].state = "lost" /\ client'[c].user = client[c].user
  BY <1>4, <1>5 DEF ClientStates
<1>7. SshTypeOK'
  <2>1. exec' \in [Callers -> Exec]
    <3>1. exec' = [g \in Callers |-> exec'[g]]
      BY DEF Lost
    <3> QED
      BY <1>2, <3>1
  <2> QED
    BY <1>1, <1>6, <2>1 DEF SshInv, SshTypeOK
<1>8. DialingInv'
  BY <1>1, <1>2, <1>3 DEF SshInv, DialingInv
<1>9. \A d \in Clients : LoggedIn(d) => LoggedIn(d)'
  BY <1>3, <1>6 DEF LoggedIn
<1>10. CommandsAreLoggedIn'
  <2>1. pool \in Clients \union {NoClient}
    BY DEF SshInv, SshTypeOK
  <2>2. pool' # NoClient => LoggedIn(pool)'
    BY <1>1, <1>9, <2>1 DEF SshInv, CommandsAreLoggedIn, LoggedIn
  <2>3. ASSUME NEW g \in Callers, exec'[g].at \in {"command", "cut", "backoff"}
        PROVE  LoggedIn(exec[g].client)
    BY <1>2, <2>3 DEF SshInv, CommandsAreLoggedIn
  <2>4. \A g \in Callers : exec[g].client \in Clients \union {NoClient}
    BY DEF SshInv, SshTypeOK, Exec
  <2>5. \A d \in Clients \union {NoClient} : LoggedIn(d) =>
          client'[d].state \in {"ready", "lost"} /\ client'[d].user \in Accepted
    BY <1>1, <1>3, <1>6 DEF LoggedIn, SshInv, SshTypeOK
  <2> QED
    BY <1>2, <2>2, <2>3, <2>4, <2>5 DEF CommandsAreLoggedIn, LoggedIn
<1>11. Alive' = Alive
  BY <1>1, <1>3, <1>6 DEF Alive, Unused
<1>12. OrphanInv'
  BY <1>1, <1>2, <1>11 DEF SshInv, OrphanInv, Dialing
<1> QED
  BY <1>7, <1>8, <1>10, <1>12 DEF SshInv

\* Sending a command again, and the end of one, leave the clients alone.
LEMMA CommandInv ==
  ASSUME SshInv, NEW f \in Callers,
         Fails(f) \/ Retry(f) \/ Succeeds(f) \/ GivesUp(f)
  PROVE  SshInv'
<1>1. /\ UNCHANGED <<pool, client>>
      /\ exec[f].at \in {"command", "cut", "backoff"}
  BY DEF Fails, Retry, Succeeds, GivesUp
<1>2. \A g \in Callers : g # f => exec'[g] = exec[g]
  BY DEF Fails, Retry, Succeeds, GivesUp, SshInv, SshTypeOK
<1>3. exec[f] \in Exec
  BY DEF SshInv, SshTypeOK
<1>4. /\ exec'[f] \in Exec /\ exec'[f].at # "dialing"
      /\ exec'[f].at # "idle" => exec'[f].client = exec[f].client
  <2>1. CASE Fails(f)
    <3>1. exec'[f] = [exec[f] EXCEPT !.at = "backoff", !.left = @ - 1]
      BY <2>1 DEF Fails, SshInv, SshTypeOK
    <3>2. exec[f].left - 1 \in 0..MaxRetries
      BY <1>3, <2>1 DEF Fails, Exec, MaxRetries
    <3> QED
      BY <1>3, <3>1, <3>2 DEF Exec
  <2>2. CASE Retry(f)
    <3>1. exec'[f] = [exec[f] EXCEPT !.at = "command"]
      BY <2>2 DEF Retry, SshInv, SshTypeOK
    <3> QED
      BY <1>3, <3>1 DEF Exec
  <2>3. CASE Succeeds(f) \/ GivesUp(f)
    <3>1. exec'[f] = NoExec
      BY <2>3 DEF Succeeds, GivesUp, SshInv, SshTypeOK
    <3>2. NoExec \in Exec /\ NoExec.at = "idle"
      BY DEF Exec, NoExec, MaxRetries
    <3> QED
      BY <3>1, <3>2
  <2> QED
    BY <2>1, <2>2, <2>3
<1>5. SshTypeOK'
  <2>1. exec' \in [Callers -> Exec]
    <3>1. exec' = [g \in Callers |-> exec'[g]]
      BY DEF Fails, Retry, Succeeds, GivesUp, SshInv, SshTypeOK
    <3>2. \A g \in Callers : exec'[g] \in Exec
      BY <1>2, <1>4 DEF SshInv, SshTypeOK
    <3> QED
      BY <3>1, <3>2
  <2> QED
    BY <1>1, <2>1 DEF SshInv, SshTypeOK
<1>6. DialingInv'
  BY <1>1, <1>2, <1>4 DEF SshInv, DialingInv
<1>7. CommandsAreLoggedIn'
  BY <1>1, <1>2, <1>4 DEF SshInv, CommandsAreLoggedIn, LoggedIn
<1>8. Dialing' = Dialing /\ Alive' = Alive
  BY <1>1, <1>2, <1>4 DEF Dialing, Alive, Unused
<1>9. OrphanInv'
  BY <1>1, <1>2, <1>8 DEF SshInv, OrphanInv, Dialing
<1> QED
  BY <1>5, <1>6, <1>7, <1>9 DEF SshInv
LEMMA SshInitInv == SchedulerInit => SshInv
<1> SUFFICES ASSUME SchedulerInit
             PROVE  SshInv
  OBVIOUS
<1>1. /\ pool = NoClient /\ client = [c \in Clients |-> NoConnection]
      /\ exec = [f \in Callers |-> NoExec]
  BY DEF SchedulerInit, SshInit
<1>2. NoExec \in Exec /\ NoExec.at = "idle"
  BY DEF Exec, NoExec, MaxRetries
<1>3. /\ NoConnection \in [state : ClientStates, user : Users \union {NoUser}]
      /\ NoConnection.state = "unused"
  BY DEF NoConnection, ClientStates
<1>4. SshTypeOK
  BY <1>1, <1>2, <1>3 DEF SshTypeOK
<1>5. DialingInv /\ CommandsAreLoggedIn
  BY <1>1, <1>2 DEF DialingInv, CommandsAreLoggedIn
<1>6. Alive = {}
  BY <1>1, <1>3 DEF Alive, Unused
<1>7. Cardinality(Alive) <= Cardinality(Callers)
  BY <1>6, FS_EmptySet, AliveIsFinite
<1> QED
  BY <1>4, <1>5, <1>6, <1>7 DEF SshInv, OrphanInv

LEMMA SshNextInv == SshInv /\ [SchedulerNext]_schedulerVars => SshInv'
<1> SUFFICES ASSUME SshInv, SshStep
             PROVE  SshInv'
  BY StepIsSshStep
<1>1. CASE UNCHANGED sshVars
  <2>1. UNCHANGED <<pool, client, exec>>
    BY <1>1 DEF sshVars
  <2>2. SshTypeOK' /\ DialingInv' /\ CommandsAreLoggedIn'
    BY <2>1 DEF SshInv, SshTypeOK, DialingInv, CommandsAreLoggedIn, LoggedIn
  <2>3. OrphanInv'
    BY <2>1 DEF SshInv, OrphanInv, Alive, Unused, Dialing
  <2> QED
    BY <2>2, <2>3 DEF SshInv
<1> QED
  BY <1>1, BeginInv, ReadyInv, RefusedInv, LostInv, CommandInv DEF SshStep

THEOREM SshInvCorrect == SchedulerSpec => []SshInv
BY SshInitInv, SshNextInv, PTL DEF SchedulerSpec

\* No caller executes a command on a client that has yet to log in
\* (SshPool.getClient caches a client only when it is ready), whoever else is
\* connecting to the same host.
THEOREM CommandsAreLoggedInAlways == SchedulerSpec => []CommandsAreLoggedIn
<1>1. SshInv => CommandsAreLoggedIn
  BY DEF SshInv
<1> QED
  BY <1>1, SshInvCorrect, PTL

\* Concurrent calls of getClient leave connections behind that nobody can
\* close; they stay fewer than the callers.
THEOREM FewOrphansAlways == SchedulerSpec => []FewOrphans
<1>1. SshInv => FewOrphans
  <2> SUFFICES ASSUME SshInv
               PROVE  FewOrphans
    OBVIOUS
  <2> DEFINE orphans == {c \in Clients : LoggedIn(c) /\ c # pool}
  <2>1. Cardinality(Callers) \in Nat /\ Cardinality(Callers) # 0
    BY AliveIsFinite, SshAssumption, FS_EmptySet
  <2>2. CASE pool = NoClient
    <3>1. orphans = {}
      BY <2>2 DEF SshInv, OrphanInv, Alive, Unused, Dialing, DialingInv, LoggedIn
    <3> QED
      BY <2>1, <3>1, FS_EmptySet DEF FewOrphans
  <2>3. CASE pool # NoClient
    <3>1. pool \in Alive
      BY <2>3 DEF SshInv, SshTypeOK, CommandsAreLoggedIn, LoggedIn, Alive, Unused
    <3>2. orphans \subseteq Alive \ {pool}
      BY DEF Alive, LoggedIn, Unused
    <3>3. /\ IsFiniteSet(Alive \ {pool})
          /\ Cardinality(Alive \ {pool}) = Cardinality(Alive) - 1
      BY <3>1, AliveIsFinite, FS_RemoveElement
    <3> HIDE DEF orphans
    <3>4. /\ Cardinality(orphans) \in Nat
          /\ Cardinality(orphans) <= Cardinality(Alive) - 1
      BY <3>2, <3>3, FS_Subset, FS_CardinalityType
    <3>5. Cardinality(orphans) < Cardinality(Callers)
      BY <3>4, <2>1, AliveIsFinite DEF SshInv, OrphanInv
    <3> QED
      BY <3>5 DEF FewOrphans, orphans
  <2> QED
    BY <2>2, <2>3
<1> QED
  BY <1>1, SshInvCorrect, PTL

-----------------------------------------------------------------------------
(* The crontab.                                                            *)

\* An operation that is still alone is the only one, and the lines it is
\* installing are those of the table.
AloneInv ==
  \A f \in Callers : sync[f].at = "install" /\ sync[f].alone =>
    /\ Syncing = {f}
    /\ sync[f].lines = Enabled(tasks)

\* While an operation is under way nothing is claimed of the crontab.
IdleInv == upToDate => Syncing = {}

CrontabInv ==
  /\ sync \in [Callers -> Sync]
  /\ AloneInv /\ IdleInv /\ CrontabFollowsTable

\* The steps that leave the table and the operations alone, and the crontab to
\* the operations.
LEMMA CrontabStays ==
  /\ CrontabInv /\ UNCHANGED <<tasks, sync, upToDate>>
  /\ Syncing = {} => UNCHANGED crontab
  => CrontabInv'
BY DEF CrontabInv, AloneInv, IdleInv, CrontabFollowsTable, Syncing, Enabled

LEMMA SyncCrontabInv ==
  ASSUME CrontabInv, NEW f \in Callers, SyncCrontab(f)
  PROVE  CrontabInv'
<1>1. /\ sync' = [g \in Callers |->
            IF g = f THEN [at |-> "install", alone |-> Syncing = {},
                           lines |-> Enabled(tasks')]
                     ELSE [sync[g] EXCEPT !.alone = @ /\ g \notin Syncing]]
      /\ upToDate' = FALSE
  BY DEF SyncCrontab
<1>2. \A g \in Callers : sync[g] \in Sync
  BY DEF CrontabInv
<1>3. sync'[f] = [at |-> "install", alone |-> Syncing = {}, lines |-> Enabled(tasks')]
  BY <1>1
<1>4. sync'[f] \in Sync
  BY <1>3 DEF Sync, Enabled
<1>5. ASSUME NEW g \in Callers, g # f
      PROVE  /\ sync'[g] \in Sync /\ sync'[g].at = sync[g].at
             /\ g \in Syncing => ~sync'[g].alone
  <2>1. sync'[g] = [sync[g] EXCEPT !.alone = @ /\ g \notin Syncing]
    BY <1>1, <1>5
  <2> QED
    BY <1>2, <2>1 DEF Sync
<1>6. sync' \in [Callers -> Sync]
  BY <1>1, <1>4, <1>5
<1>7. AloneInv'
  <2> SUFFICES ASSUME NEW g \in Callers, sync'[g].at = "install", sync'[g].alone
               PROVE  Syncing' = {g} /\ sync'[g].lines = Enabled(tasks')
    BY DEF AloneInv, Enabled
  <2>1. g = f
    BY <1>5 DEF Syncing
  <2>2. Syncing = {}
    <3> DEFINE before == Syncing = {}
    <3>1. sync'[f] = [at |-> "install", alone |-> before, lines |-> Enabled(tasks')]
      BY <1>3
    <3> HIDE DEF before
    <3>2. sync'[f].alone = before
      BY <3>1
    <3> QED
      BY <2>1, <3>2 DEF before
  <2>3. Syncing' = {f}
    BY <1>3, <1>5, <2>2 DEF Syncing
  <2> QED
    BY <1>3, <2>1, <2>3
<1>8. IdleInv' /\ CrontabFollowsTable'
  BY <1>1 DEF IdleInv, CrontabFollowsTable
<1> QED
  BY <1>6, <1>7, <1>8 DEF CrontabInv

LEMMA WatchInv ==
  ASSUME CrontabInv, NEW f \in Callers, Watch(f)
  PROVE  CrontabInv'
<1>1. /\ sync' = [sync EXCEPT ![f] = [NoSync EXCEPT !.at = "watch"]]
      /\ sync[f].at = "idle"
      /\ UNCHANGED <<tasks, crontab, upToDate>>
  BY DEF Watch
<1>2. /\ [NoSync EXCEPT !.at = "watch"] \in Sync
      /\ [NoSync EXCEPT !.at = "watch"].at = "watch"
  BY DEF NoSync, Sync
<1>3. sync' \in [Callers -> Sync] /\ sync'[f].at = "watch"
  BY <1>1, <1>2 DEF CrontabInv
<1>4. \A g \in Callers : g # f => sync'[g] = sync[g]
  BY <1>1 DEF CrontabInv
<1>5. Syncing' = Syncing
  BY <1>1, <1>3, <1>4 DEF Syncing
<1> QED
  BY <1>1, <1>3, <1>4, <1>5
     DEF CrontabInv, AloneInv, IdleInv, CrontabFollowsTable, Enabled

\* An operation ends; if it was alone and carried out, the crontab is its lines.
LEMMA OverInv ==
  ASSUME CrontabInv, NEW f \in Callers, NEW carriedOut \in BOOLEAN,
         Over(f, carriedOut),
         carriedOut => crontab' = sync[f].lines,
         sync[f].at # "install" => crontab' = crontab
  PROVE  CrontabInv'
<1>1. /\ sync' = [sync EXCEPT ![f] = NoSync] /\ tasks' = tasks
      /\ sync[f].at # "install" => upToDate' = upToDate
      /\ sync[f].at = "install" => (upToDate' => sync[f].alone /\ carriedOut)
  BY DEF Over
<1>2. NoSync \in Sync /\ NoSync.at = "idle"
  BY DEF NoSync, Sync
<1>3. sync' \in [Callers -> Sync] /\ sync'[f].at = "idle"
  BY <1>1, <1>2 DEF CrontabInv
<1>4. \A g \in Callers : g # f => sync'[g] = sync[g]
  BY <1>1 DEF CrontabInv
<1>5. Syncing' = Syncing \ {f}
  BY <1>3, <1>4 DEF Syncing
<1>6. AloneInv'
  BY <1>1, <1>3, <1>4, <1>5 DEF CrontabInv, AloneInv, Syncing, Enabled
<1>7. CASE sync[f].at = "install"
  <2>1. upToDate' => Syncing = {f} /\ sync[f].lines = Enabled(tasks) /\ carriedOut
    BY <1>1, <1>7 DEF CrontabInv, AloneInv
  <2>2. IdleInv' /\ CrontabFollowsTable'
    BY <1>1, <1>5, <2>1 DEF IdleInv, CrontabFollowsTable, Enabled
  <2> QED
    BY <1>3, <1>6, <2>2 DEF CrontabInv
<1>8. CASE sync[f].at # "install"
  <2>1. crontab' = crontab /\ upToDate' = upToDate
    BY <1>1, <1>8
  <2>2. IdleInv' /\ CrontabFollowsTable'
    BY <1>1, <1>5, <2>1 DEF CrontabInv, IdleInv, CrontabFollowsTable, Enabled
  <2> QED
    BY <1>3, <1>6, <2>2 DEF CrontabInv
<1> QED
  BY <1>7, <1>8

LEMMA CrontabInitInv == SchedulerInit => CrontabInv
<1> SUFFICES ASSUME SchedulerInit
             PROVE  CrontabInv
  OBVIOUS
<1>1. NoSync \in Sync /\ NoSync.at = "idle"
  BY DEF NoSync, Sync
<1>2. sync = [f \in Callers |-> NoSync] /\ crontab = {} /\ Enabled(tasks) = {}
  BY DEF SchedulerInit, Enabled
<1> QED
  BY <1>1, <1>2 DEF CrontabInv, AloneInv, IdleInv, CrontabFollowsTable, Syncing

LEMMA CrontabNextInv == CrontabInv /\ [SchedulerNext]_schedulerVars => CrontabInv'
<1> SUFFICES ASSUME CrontabInv, [SchedulerNext]_schedulerVars
             PROVE  CrontabInv'
  OBVIOUS
<1>1. ASSUME NEW f \in Callers, CallerSteps(f)
      PROVE  CrontabInv'
  <2>1. CASE GatewaySteps(f)
    BY <2>1, CrontabStays DEF GatewaySteps, MayInstall, Syncing
  <2>2. CASE CommandSucceeds(f)
    BY <2>2, OverInv DEF CommandSucceeds
  <2>3. CASE CommandThrows(f)
    BY <2>3, OverInv DEF CommandThrows, MayInstall
  <2> QED
    BY <1>1, <2>1, <2>2, <2>3 DEF CallerSteps
<1>2. ASSUME NEW c \in Clients, LineDrops(c)
      PROVE  CrontabInv'
  BY <1>2, CrontabStays DEF LineDrops
<1>3. CASE UNCHANGED schedulerVars
  BY <1>3, CrontabStays DEF schedulerVars
<1> QED
  BY <1>1, <1>2, <1>3, SyncCrontabInv, WatchInv
     DEF SchedulerNext, AddTask, RemoveTask, ToggleTask,
         CreateTask, DeleteTask, UpdateTask

\* A sync that ran alone and was carried out leaves the crontab as the table
\* has it (syncCrontab rebuilds all of it), whatever went wrong earlier and
\* however many panels there are.
THEOREM CrontabFollowsTableAlways == SchedulerSpec => []CrontabFollowsTable
<1>1. SchedulerSpec => []CrontabInv
  BY CrontabInitInv, CrontabNextInv, PTL DEF SchedulerSpec
<1>2. CrontabInv => CrontabFollowsTable
  BY DEF CrontabInv
<1> QED
  BY <1>1, <1>2, PTL

-----------------------------------------------------------------------------
(* The types.                                                              *)

TableTypeOK ==
  /\ tasks \in [Tasks -> TaskStates]
  /\ crontab \subseteq Tasks
  /\ upToDate \in BOOLEAN

\* What each edit makes of the table.
LEMMA EditType ==
  ASSUME TableTypeOK, NEW t \in Tasks,
         CreateTask(t) \/ DeleteTask(t) \/ \E enabled \in BOOLEAN : UpdateTask(t, enabled)
  PROVE  tasks' \in [Tasks -> TaskStates]
BY DEF TableTypeOK, TaskStates, CreateTask, DeleteTask, UpdateTask

LEMMA TableStep ==
  ASSUME TableTypeOK, sync \in [Callers -> Sync], [SchedulerNext]_schedulerVars
  PROVE  TableTypeOK'
<1>1. ASSUME NEW f \in Callers, NEW t \in Tasks,
             \/ AddTask(f, t) \/ RemoveTask(f, t)
             \/ \E enabled \in BOOLEAN : ToggleTask(f, t, enabled)
      PROVE  TableTypeOK'
  <2>1. tasks' \in [Tasks -> TaskStates]
    BY <1>1, EditType DEF AddTask, RemoveTask, ToggleTask
  <2>2. crontab' = crontab /\ upToDate' = FALSE
    BY <1>1 DEF AddTask, RemoveTask, ToggleTask, SyncCrontab
  <2> QED
    BY <2>1, <2>2 DEF TableTypeOK
<1>2. ASSUME NEW f \in Callers, NEW carriedOut \in BOOLEAN, Over(f, carriedOut)
      PROVE  tasks' = tasks /\ upToDate' \in BOOLEAN
  <2>1. sync[f].alone \in BOOLEAN
    BY DEF Sync
  <2>2. CASE upToDate' = upToDate
    BY <1>2, <2>2 DEF Over, TableTypeOK
  <2>3. CASE upToDate' = (sync[f].alone /\ carriedOut)
    BY <1>2, <2>1, <2>3 DEF Over
  <2> QED
    BY <1>2, <2>2, <2>3 DEF Over
<1>3. ASSUME NEW f \in Callers, CommandSucceeds(f)
      PROVE  TableTypeOK'
  <2>1. tasks' = tasks /\ upToDate' \in BOOLEAN
    BY <1>2, <1>3 DEF CommandSucceeds
  <2>2. crontab' \subseteq Tasks
    BY <1>3 DEF CommandSucceeds, TableTypeOK, Sync
  <2> QED
    BY <2>1, <2>2 DEF TableTypeOK
<1>4. ASSUME NEW f \in Callers, CommandThrows(f)
      PROVE  TableTypeOK'
  BY <1>2, <1>4 DEF CommandThrows, MayInstall, TableTypeOK, Sync
<1>5. ASSUME NEW f \in Callers, Watch(f) \/ GatewaySteps(f)
      PROVE  TableTypeOK'
  BY <1>5 DEF Watch, GatewaySteps, MayInstall, TableTypeOK, Sync
<1>6. ASSUME NEW c \in Clients, LineDrops(c)
      PROVE  TableTypeOK'
  BY <1>6 DEF LineDrops, TableTypeOK
<1>7. CASE UNCHANGED schedulerVars
  BY <1>7 DEF schedulerVars, TableTypeOK
<1> QED
  BY <1>1, <1>3, <1>4, <1>5, <1>6, <1>7 DEF SchedulerNext, CallerSteps

\* Type correctness: the pool, the clients and the commands of the gateway, the
\* table of tasks, the crontab and the operations under way have their types,
\* for any number of callers, clients and tasks (scheduler-service.ts,
\* ssh-pool.ts, ssh2-gateway.ts).
THEOREM SchedulerTypeCorrect == SchedulerSpec => []SchedulerTypeOK
<1>1. SchedulerInit => TableTypeOK /\ CrontabInv
  BY CrontabInitInv DEF SchedulerInit, TableTypeOK, TaskStates
<1>2. (TableTypeOK /\ CrontabInv) /\ [SchedulerNext]_schedulerVars
        => (TableTypeOK /\ CrontabInv)'
  BY TableStep, CrontabNextInv DEF CrontabInv
<1>3. SchedulerSpec => [](TableTypeOK /\ CrontabInv)
  BY <1>1, <1>2, PTL DEF SchedulerSpec
<1>4. SshInv /\ TableTypeOK /\ CrontabInv => SchedulerTypeOK
  BY DEF SshInv, TableTypeOK, CrontabInv, SchedulerTypeOK
<1> QED
  BY <1>3, <1>4, SshInvCorrect, PTL
=============================================================================
