---------------------------- MODULE ServerRecord ----------------------------
(***************************************************************************)
(* The persisted server entity and its status graph, as declared in        *)
(* src/shared/infra/entities/server-record.ts.  Only the columns that some *)
(* operation branches on are kept; an address, a backup path or an error   *)
(* text is abstracted to what the code distinguishes about it.             *)
(***************************************************************************)

CONSTANTS
  Names,        \* display names; the servers table declares them UNIQUE
  MachineTypes, \* machine type ids
  Catalog       \* the ids findMachineType knows (GCP_MACHINE_CATALOG)

ASSUME CatalogAssumption == Catalog \subseteq MachineTypes

ServerStatus == {"provisioning", "running", "stopped", "failed", "archived"}

\* VALID_TRANSITIONS as a relation: "archived" has no successor, and no
\* status is its own successor.
ValidTransitions ==
  { <<"provisioning", "running">>, <<"provisioning", "failed">>,
    <<"running", "stopped">>,      <<"running", "failed">>,
    <<"stopped", "running">>,      <<"stopped", "failed">>,
    <<"stopped", "archived">>,
    <<"failed", "provisioning">>,  <<"failed", "archived">> }

IsValidStatusTransition(from, to) == <<from, to>> \in ValidTransitions

(***************************************************************************)
(* errorMessage is kept up to what resolveRecoveryPhase can tell apart:    *)
(* "provision" is the text of CdktfProvisionError, "vmBoot" and            *)
(* "cloudInit" those of the two timeout errors, "panel" the fixed texts    *)
(* the recovery panel writes, "other" any text that embeds the output of a *)
(* remote command.                                                         *)
(***************************************************************************)
ErrorKinds == {"provision", "vmBoot", "cloudInit", "panel", "other"}

\* A row of the servers table; status "absent" stands for no row.  staticIp
\* "zero" is the 0.0.0.0 that provision answers with when terraform output
\* fails: truthy, and no VM behind it.
Row ==
  [ name         : Names,
    status       : ServerStatus \union {"absent"},
    errorMessage : ErrorKinds \union {"none"},
    staticIp     : {"none", "ip", "zero"},
    instanceType : MachineTypes,
    backupPath   : {"none", "path"} ]
=============================================================================
