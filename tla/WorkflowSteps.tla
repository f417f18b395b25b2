--------------------------- MODULE WorkflowSteps ---------------------------
(***************************************************************************)
(* The sequence of steps a service follows to be deployed or undeployed    *)
(* (src/core/workflow.go).  The configuration lists NSteps extensions; the  *)
(* code numbers them 1..NSteps and adds "undeployed" as step 0 and          *)
(* "deployed" as step NSteps + 1.  Extension names are unique in a          *)
(* configuration, so a step's name and its id name the same step, and this  *)
(* module works with ids.  WorkflowList holds the list and the loops of     *)
(* the code, and computes what is defined here (WorkflowListProofs).        *)
(***************************************************************************)
EXTENDS Integers, FiniteSetsExt

CONSTANTS
  NSteps,         \* the number of extensions in the configured workflow
  ProviderSteps   \* the ids of those whose name starts with "provider."

ASSUME StepsAssumption ==
  /\ NSteps \in Nat \ {0}
  /\ ProviderSteps \subseteq 1..NSteps

Undeployed == 0
Deployed == NSteps + 1

StepIds == 0..(NSteps + 1)
Extensions == 1..NSteps
Provisioners == Extensions \ ProviderSteps
EndStates == {Undeployed, Deployed}

\* With a mistake the properties must notice: the provider steps are not passed over.
StepsAhead_StopsAtProviders(step, reverse) ==
  {i \in StepIds : IF reverse THEN i < step ELSE i > step}

(***************************************************************************)
(* The steps a service at `step` can still go to, walking towards           *)
(* "undeployed" when reverse holds: the code never stops at a provider.     *)
(***************************************************************************)
StepsAhead(step, reverse) ==
  {i \in StepIds \ ProviderSteps : IF reverse THEN i < step ELSE i > step}

\* getNextStep answers an error past either end of the workflow.
HasNextStep(step, reverse) == StepsAhead(step, reverse) # {}

getNextStep(step, reverse) ==
  IF reverse THEN Max(StepsAhead(step, reverse))
             ELSE Min(StepsAhead(step, reverse))

isLastStep(step, reverse) ==
  step = IF reverse THEN Undeployed ELSE Deployed
============================================================================
