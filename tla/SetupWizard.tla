------------------------------ MODULE SetupWizard ------------------------------
(***************************************************************************)
(* SetupWizard: five steps that collect the answers for a deployment       *)
(* (SetupWizard.tsx, wizard-steps/, wizard-store.ts).  The store outlives  *)
(* the component, and so do the calls the steps have made: what a call     *)
(* writes to the store when it returns, it writes whatever step is shown   *)
(* by then, and whether the wizard is open or not.                         *)
(*                                                                         *)
(*   open       modalState is "wizard": the component is mounted           *)
(*   answers    the store                                                  *)
(*   shown      the local state of the step that is mounted                *)
(*   enable     the calls of enableApis under way; own: made by the        *)
(*              AuthProject that is mounted; late: the store has been      *)
(*              reset since it was made                                    *)
(*   deploy     the deployments: running with the answers they took, or    *)
(*              succeeded, with the timer still to reset and close the     *)
(*              wizard                                                     *)
(*   enabled    history: the projects whose APIs a call has enabled        *)
(*                                                                         *)
(* regionFor and machineFor are history: what the answer was offered for.  *)
(* late is history: a call made before the last reset has set the project. *)
(* The server name, the branch, the latencies and the wording of errors    *)
(* are left out, and so are the cursors of the lists: any item they offer  *)
(* may be under them.                                                      *)
(***************************************************************************)
EXTENDS Navigation

CONSTANTS
  Projects,    \* the projects of the user
  Regions,
  EnableCalls, \* identities of calls of enableApis; bounds those under way
  Deploys      \* identities of deployments; bounds those under way

ASSUME WizardAssumption == "none" \notin Projects /\ "none" \notin Regions

VARIABLES open, answers, shown, enable, deploy, enabled

wizardVars == <<open, answers, shown, enable, deploy, enabled>>

Project == Projects \union {"none"}
Region  == Regions \union {"none"}

Answers ==
  [ step : 1..5, provider : BOOLEAN, project : Project, region : Region,
    machine : BOOLEAN, regionFor : Project, machineFor : Project \X Region,
    late : BOOLEAN ]

NoAnswers ==
  [ step |-> 1, provider |-> FALSE, project |-> "none", region |-> "none",
    machine |-> FALSE, regionFor |-> "none", machineFor |-> <<"none", "none">>,
    late |-> FALSE ]

\* checking: verifyAuth and listProjects are under way for this component.
\* selected: the project AuthProject would retry.  catalog: InstanceSelect has
\* loaded the machine types of the region.
Step ==
  [ status : {"none", "provider", "checking", "error", "loaded", "enabling",
              "apiError", "measuring", "regions", "select", "loading",
              "dynamic", "confirm"},
    checking : BOOLEAN, selected : Project, catalog : BOOLEAN ]

StepIn(status) ==
  [status |-> status, checking |-> status = "checking", selected |-> "none",
   catalog |-> FALSE]

\* The local state of a step when it is mounted.  RegionSelect has latencies
\* at once if they were measured before.
Mounted(step) ==
  CASE step = 1 -> {StepIn("provider")}
    [] step = 2 -> {StepIn("checking")}
    [] step = 3 -> {StepIn("measuring"), StepIn("regions")}
    [] step = 4 -> {StepIn("select")}
    [] step = 5 -> {StepIn("confirm")}

\* When the shell renders again the callbacks of the steps are new functions,
\* and the effects that depend on them run again: AuthProject checks again,
\* InstanceSelect loads again.
Rerendered(l) ==
  IF l.status \in {"checking", "error", "loaded", "enabling", "apiError"}
  THEN [l EXCEPT !.checking = TRUE]
  ELSE IF l.status = "dynamic" THEN [l EXCEPT !.status = "loading"]
  ELSE l

After(l) == IF stack' # stack THEN Rerendered(l) ELSE l

NoDeploy == [at |-> "idle", answers |-> NoAnswers]

Call == [project : Project, own : BOOLEAN, late : BOOLEAN]

NoCall == [project |-> "none", own |-> FALSE, late |-> FALSE]

Disowned(calls) == [c \in EnableCalls |-> [calls[c] EXCEPT !.own = FALSE]]

Outdated(calls) ==
  [c \in EnableCalls |->
    IF calls[c] = NoCall THEN NoCall ELSE [calls[c] EXCEPT !.late = TRUE]]

\* What is mounted after the store has gone to a step.
GoesTo(step, calls) ==
  IF open /\ step = answers.step
  THEN shown' = After(shown) /\ enable' = calls
  ELSE /\ IF open THEN \E l \in Mounted(step) : shown' = After(l)
                  ELSE UNCHANGED shown
       /\ enable' = Disowned(calls)

-----------------------------------------------------------------------------
(* Opening, closing, and Escape, which resets the store.                   *)

OpenWizard ==
  /\ open' = TRUE
  /\ shown' \in Mounted(answers.step)
  /\ UNCHANGED <<answers, enable, deploy, enabled>>

ResetWizard ==
  /\ answers' = NoAnswers
  /\ GoesTo(1, Outdated(enable))
  /\ UNCHANGED <<open, deploy, enabled>>

-----------------------------------------------------------------------------
(* Enter, step by step.                                                    *)

SelectProvider ==
  /\ shown.status = "provider"
  /\ answers' = [answers EXCEPT !.provider = TRUE, !.step = 2]
  /\ GoesTo(2, enable)
  /\ UNCHANGED <<open, deploy, enabled>>

EnableProjectApis(project) ==
  \E c \in EnableCalls :
    /\ enable[c] = NoCall
    /\ enable' = [enable EXCEPT ![c] =
                    [project |-> project, own |-> TRUE, late |-> FALSE]]
    /\ shown' = After([shown EXCEPT !.status = "enabling", !.selected = project])
    /\ UNCHANGED <<open, answers, deploy, enabled>>

SelectProject ==
  \/ /\ shown.status = "loaded"
     /\ \E project \in Projects : EnableProjectApis(project)
  \/ /\ shown.status = "apiError"
     /\ EnableProjectApis(shown.selected)
  \/ /\ shown.status = "apiError"
     /\ answers' = [answers EXCEPT !.step = 1]
     /\ GoesTo(1, enable)
     /\ UNCHANGED <<open, deploy, enabled>>

SelectRegion(region) ==
  /\ shown.status = "regions"
  /\ answers' = [answers EXCEPT !.region = region, !.step = 4,
                                !.regionFor = answers.project]
  /\ GoesTo(4, enable)
  /\ UNCHANGED <<open, deploy, enabled>>

SelectInstance ==
  \/ /\ shown.status = "select" \/ (shown.status = "dynamic" /\ shown.catalog)
     /\ answers' = [answers EXCEPT !.machine = TRUE, !.step = 5,
                        !.machineFor = <<answers.project, answers.region>>]
     /\ GoesTo(5, enable)
     /\ UNCHANGED <<open, deploy, enabled>>
  \/ /\ shown.status = "select"
     /\ shown' = After([shown EXCEPT !.status = "loading"])
     /\ UNCHANGED <<open, answers, enable, deploy, enabled>>

\* handleSubmit takes the answers of the store as they are; nothing keeps it
\* from being pressed again while a deployment is under way.
SubmitDeploy ==
  /\ shown.status = "confirm"
  /\ \E d \in Deploys :
       /\ deploy[d].at = "idle"
       /\ deploy' = [deploy EXCEPT ![d] = [at |-> "running", answers |-> answers]]
  /\ shown' = After(shown)
  /\ UNCHANGED <<open, answers, enable, enabled>>

\* There is nothing to select, the name is missing, or the type is not found.
NothingToSelect ==
  /\ shown.status \notin {"provider", "regions", "select"}
  /\ shown' = After(shown)
  /\ UNCHANGED <<open, answers, enable, deploy, enabled>>

WizardEnter ==
  \/ SelectProvider
  \/ SelectProject
  \/ \E region \in Regions : SelectRegion(region)
  \/ SelectInstance
  \/ SubmitDeploy
  \/ NothingToSelect

-----------------------------------------------------------------------------
(* What returns later.                                                     *)

\* Only the check of the component that is mounted, and only its last, is
\* heard, but it overwrites whatever the status is by then.
AuthChecked ==
  /\ shown.checking
  /\ \E status \in {"loaded", "error"} :
       shown' = [shown EXCEPT !.status = status, !.checking = FALSE]
  /\ UNCHANGED <<stack, open, answers, enable, deploy, enabled>>

\* Faulty variant: a call that returns late sets the project and leaves the step.
EnableSucceedsInPlace(c) ==
  /\ enable[c] # NoCall
  /\ LET step == IF answers.step = 2 THEN 3 ELSE answers.step IN
     /\ answers' = [answers EXCEPT !.project = enable[c].project, !.step = step,
                                   !.late = @ \/ enable[c].late]
     /\ UNCHANGED stack
     /\ GoesTo(step, [enable EXCEPT ![c] = NoCall])
  /\ enabled' = enabled \union {enable[c].project}
  /\ UNCHANGED <<open, deploy>>

EnableSucceeds(c) ==
  /\ enable[c] # NoCall
  /\ answers' = [answers EXCEPT !.project = enable[c].project, !.step = 3,
                                !.late = @ \/ enable[c].late]
  /\ UNCHANGED stack
  /\ GoesTo(3, [enable EXCEPT ![c] = NoCall])
  /\ enabled' = enabled \union {enable[c].project}
  /\ UNCHANGED <<open, deploy>>

EnableFails(c) ==
  /\ enable[c] # NoCall
  /\ shown' = IF enable[c].own THEN [shown EXCEPT !.status = "apiError"] ELSE shown
  /\ enable' = [enable EXCEPT ![c] = NoCall]
  /\ UNCHANGED <<stack, open, answers, deploy, enabled>>

LatencyMeasured ==
  /\ shown.status = "measuring"
  /\ shown' = [shown EXCEPT !.status = "regions"]
  /\ UNCHANGED <<stack, open, answers, enable, deploy, enabled>>

CatalogLoaded ==
  /\ shown.status = "loading"
  /\ \E catalog \in BOOLEAN :
       shown' = [shown EXCEPT !.status = "dynamic", !.catalog = @ \/ catalog]
  /\ UNCHANGED <<stack, open, answers, enable, deploy, enabled>>

DeployFails(d) ==
  /\ deploy[d].at = "running"
  /\ deploy' = [deploy EXCEPT ![d] = NoDeploy]
  /\ UNCHANGED <<stack, open, answers, shown, enable, enabled>>

\* popContext was written for a wizard that was a context of its own.
DeploySucceeds(d) ==
  /\ deploy[d].at = "running"
  /\ deploy' = [deploy EXCEPT ![d].at = "closing"]
  /\ PopContext
  /\ shown' = After(shown)
  /\ UNCHANGED <<open, answers, enable, enabled>>

\* The timer of 10 ms: reset, closeWizard.
WizardCloses(d) ==
  /\ deploy[d].at = "closing"
  /\ deploy' = [deploy EXCEPT ![d] = NoDeploy]
  /\ answers' = NoAnswers
  /\ open' = FALSE
  /\ shown' = StepIn("none")
  /\ enable' = Disowned(Outdated(enable))
  /\ UNCHANGED <<stack, enabled>>

WizardInit ==
  /\ open = FALSE
  /\ answers = NoAnswers
  /\ shown = StepIn("none")
  /\ enable = [c \in EnableCalls |-> NoCall]
  /\ deploy = [d \in Deploys |-> NoDeploy]
  /\ enabled = {}

WizardTypeOK ==
  /\ open \in BOOLEAN
  /\ answers \in Answers
  /\ shown \in Step
  /\ enable \in [EnableCalls -> Call]
  /\ deploy \in [Deploys -> [at : {"idle", "running", "closing"}, answers : Answers]]
  /\ enabled \subseteq Projects
=============================================================================
