--------------------------- MODULE ServerContract ---------------------------
(***************************************************************************)
(* What the CLI promises about a server, whatever services it is made of:  *)
(* a status that follows the declared graph, cloud infrastructure that is  *)
(* never unaccounted for, and a world that is never thrown away unsaved.   *)
(* ServerLifecycle implements it when one operation runs at a time.        *)
(***************************************************************************)
EXTENDS ServerRecord

CONSTANT Servers

VARIABLES
  status,  \* the status column, "absent" without a row
  infra,   \* TRUE while cloud resources exist
  saved    \* TRUE once a backup has been downloaded to its end

cvars == <<status, infra, saved>>

Init ==
  /\ status = [s \in Servers |-> "absent"]
  /\ infra = [s \in Servers |-> FALSE]
  /\ saved = [s \in Servers |-> FALSE]

\* A server is registered before anything is created for it.
Register(s) ==
  /\ status[s] = "absent"
  /\ status' = [status EXCEPT ![s] = "provisioning"]
  /\ UNCHANGED <<infra, saved>>

Build(s) ==
  /\ status[s] = "provisioning"
  /\ infra' = [infra EXCEPT ![s] = TRUE]
  /\ UNCHANGED <<status, saved>>

Save(s) ==
  /\ infra[s]
  /\ saved' = [saved EXCEPT ![s] = TRUE]
  /\ UNCHANGED <<status, infra>>

\* Only a failed server is destroyed without a backup.
Destroy(s) ==
  /\ saved[s] \/ status[s] = "failed"
  /\ infra' = [infra EXCEPT ![s] = FALSE]
  /\ UNCHANGED <<status, saved>>

\* "running" is written of an existing VM only, "archived" of a server whose
\* VM is gone and whose world is saved.
Move(s, to) ==
  /\ IsValidStatusTransition(status[s], to)
  /\ to = "running" => infra[s]
  /\ to = "archived" => saved[s] /\ ~infra[s]
  /\ status' = [status EXCEPT ![s] = to]
  /\ UNCHANGED <<infra, saved>>

Next ==
  \E s \in Servers :
    \/ Register(s) \/ Build(s) \/ Save(s) \/ Destroy(s)
    \/ \E to \in ServerStatus : Move(s, to)

Spec == Init /\ [][Next]_cvars
=============================================================================
