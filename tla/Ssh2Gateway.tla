---------------------------- MODULE Ssh2Gateway ----------------------------
(***************************************************************************)
(* Ssh2Gateway.exec over the pool of ssh clients (ssh2-gateway.ts,         *)
(* ssh-pool.ts), for one host: hosts do not interact, the pool has an      *)
(* entry for each.                                                         *)
(*                                                                         *)
(*   pool    the client cached for the host, NoClient when there is none;  *)
(*           nothing in the program ever releases it                       *)
(*   client  the ssh2 clients the process has made; the number of one that *)
(*           never got to be ready is used again                           *)
(*   exec    the command each caller is executing: where it stands, the    *)
(*           client it uses, the attempts it has left                      *)
(*                                                                         *)
(* exec settles, and its caller goes on, in one step: nothing runs between *)
(* a promise and the code that awaits it.                                  *)
(* Whether a command takes effect on the host is for the module that       *)
(* composes the gateway to say; it conjoins these actions with its own.    *)
(***************************************************************************)
EXTENDS Integers, FiniteSets

CONSTANTS
  Callers,     \* async functions that execute commands, one at a time each
  Users,       \* user names the services connect as
  Accepted,    \* those the host lets in: zomboid alone, as the stack sets it up
  MaxClients   \* bound on the number of connections

ASSUME SshAssumption ==
  /\ IsFiniteSet(Callers) /\ Callers # {}
  /\ Accepted \subseteq Users
  /\ MaxClients \in Nat

Clients    == 1..MaxClients
NoClient   == 0
MaxRetries == 3

VARIABLES pool, client, exec

sshVars == <<pool, client, exec>>

ClientStates == {"unused", "dialing", "ready", "lost"}

NoUser == "nobody"

NoConnection == [state |-> "unused", user |-> NoUser]

\* A command cut off loses its channel without an exit code.
Exec ==
  [ at     : {"idle", "dialing", "command", "cut", "backoff"},
    client : Clients \union {NoClient},
    left   : 0..MaxRetries ]

NoExec == [at |-> "idle", client |-> NoClient, left |-> 0]

-----------------------------------------------------------------------------
(* withRetry and getClient, up to the first await.                         *)

Unused(c) == client[c].state = "unused"

Fresh(c) == Unused(c) /\ \A d \in Clients : d < c => ~Unused(d)

\* Faulty variant: the client is cached before it is ready.
BeginCached(f, user) ==
  /\ exec[f].at = "idle"
  /\ IF pool # NoClient
     THEN /\ exec' = [exec EXCEPT ![f] =
               [NoExec EXCEPT !.at = "command", !.client = pool,
                              !.left = MaxRetries]]
          /\ UNCHANGED <<pool, client>>
     ELSE \E c \in Clients :
            /\ Fresh(c)
            /\ client' = [client EXCEPT ![c] = [state |-> "dialing", user |-> user]]
            /\ exec' = [exec EXCEPT ![f] =
                 [NoExec EXCEPT !.at = "dialing", !.client = c, !.left = 1]]
            /\ pool' = c

\* A cached client is taken whether or not its connection still exists, and
\* whoever it is logged in as; with one the command has three attempts,
\* without one it has one, on the client being made.
Begin(f, user) ==
  /\ exec[f].at = "idle"
  /\ IF pool # NoClient
     THEN /\ exec' = [exec EXCEPT ![f] =
               [NoExec EXCEPT !.at = "command", !.client = pool,
                              !.left = MaxRetries]]
          /\ UNCHANGED <<pool, client>>
     ELSE \E c \in Clients :
            /\ Fresh(c)
            /\ client' = [client EXCEPT ![c] = [state |-> "dialing", user |-> user]]
            /\ exec' = [exec EXCEPT ![f] =
                 [NoExec EXCEPT !.at = "dialing", !.client = c, !.left = 1]]
            /\ UNCHANGED pool

\* Faulty variant: the new client is not cached.
ReadyUncached(f) ==
  LET c == exec[f].client IN
  /\ exec[f].at = "dialing"
  /\ client[c].user \in Accepted
  /\ client' = [client EXCEPT ![c].state = "ready"]
  /\ exec' = [exec EXCEPT ![f].at = "command"]
  /\ UNCHANGED pool

\* The client is ready: it goes into the pool, in place of any that another
\* caller put there meanwhile, and the command is sent.
Ready(f) ==
  LET c == exec[f].client IN
  /\ exec[f].at = "dialing"
  /\ client[c].user \in Accepted
  /\ client' = [client EXCEPT ![c].state = "ready"]
  /\ pool' = c
  /\ exec' = [exec EXCEPT ![f].at = "command"]

\* The host is out of reach, or does not let the user in.
Refused(f) ==
  /\ exec[f].at = "dialing"
  /\ client' = [client EXCEPT ![exec[f].client] = NoConnection]
  /\ exec' = [exec EXCEPT ![f] = NoExec]
  /\ UNCHANGED pool

-----------------------------------------------------------------------------
(* The command and its retries.                                            *)

\* The connection goes down; the pool is not told, and the channels of the
\* commands under way close.
Lost(c) ==
  /\ client[c].state = "ready"
  /\ client' = [client EXCEPT ![c].state = "lost"]
  /\ exec' = [f \in Callers |->
       IF exec[f].at = "command" /\ exec[f].client = c
       THEN [exec[f] EXCEPT !.at = "cut"] ELSE exec[f]]
  /\ UNCHANGED pool

\* Exit code 0, or no exit code.
Succeeds(f) ==
  /\ \/ exec[f].at = "command" /\ client[exec[f].client].state = "ready"
     \/ exec[f].at = "cut"
  /\ exec' = [exec EXCEPT ![f] = NoExec]
  /\ UNCHANGED <<pool, client>>

\* Faulty variants: a retry does not use up an attempt; the attempts are not
\* checked.
FailsUncounted(f) ==
  /\ exec[f].at = "command"
  /\ exec' = [exec EXCEPT ![f].at = "backoff"]
  /\ UNCHANGED <<pool, client>>

FailsUnchecked(f) ==
  /\ exec[f].at = "command"
  /\ exec' = [exec EXCEPT ![f].at = "backoff", ![f].left = @ - 1]
  /\ UNCHANGED <<pool, client>>

\* Another exit code, with whatever the command has done by then, or the client
\* has no connection: there is an attempt left.
Fails(f) ==
  /\ exec[f].at = "command"
  /\ exec[f].left > 1
  /\ exec' = [exec EXCEPT ![f].at = "backoff", ![f].left = @ - 1]
  /\ UNCHANGED <<pool, client>>

\* There is none, or the error mentions "auth" (as the command itself may).
GivesUp(f) ==
  /\ exec[f].at = "command"
  /\ exec' = [exec EXCEPT ![f] = NoExec]
  /\ UNCHANGED <<pool, client>>

\* The same client again.
Retry(f) ==
  /\ exec[f].at = "backoff"
  /\ exec' = [exec EXCEPT ![f].at = "command"]
  /\ UNCHANGED <<pool, client>>

SshInit ==
  /\ pool = NoClient
  /\ client = [c \in Clients |-> NoConnection]
  /\ exec = [f \in Callers |-> NoExec]

-----------------------------------------------------------------------------
(* Properties.                                                             *)

\* Every variable has its type.
SshTypeOK ==
  /\ pool \in Clients \union {NoClient}
  /\ client \in [Clients -> [state : ClientStates, user : Users \union {NoUser}]]
  /\ exec \in [Callers -> Exec]

LoggedIn(c) == client[c].state \in {"ready", "lost"} /\ client[c].user \in Accepted

\* No caller is handed a client that has yet to log in, also when several of
\* them find the pool empty at the same time.
CommandsAreLoggedIn ==
  /\ pool # NoClient => LoggedIn(pool)
  /\ \A f \in Callers : exec[f].at \in {"command", "cut", "backoff"} =>
       LoggedIn(exec[f].client)

\* Callers that find the pool empty together each make a connection, and all
\* but the last are lost sight of.  That happens once in the life of the
\* process: there are always fewer orphans than callers.
FewOrphans ==
  Cardinality({c \in Clients : LoggedIn(c) /\ c # pool}) < Cardinality(Callers)
=============================================================================
