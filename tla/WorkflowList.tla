---------------------------- MODULE WorkflowList ----------------------------
(***************************************************************************)
(* The workflow as the code keeps it (src/core/workflow.go): a list of       *)
(* steps, in the order of the configuration with the two end steps appended, *)
(* searched by loops that keep the last match, and a getNextStep that calls  *)
(* itself to pass over providers.  A service walks along it, and may be      *)
(* turned round anywhere.  The engine works with WorkflowSteps instead, with  *)
(* which this module agrees for every configuration of up to MaxSteps         *)
(* extensions, whatever that bound is.                                        *)
(***************************************************************************)
EXTENDS Integers, Sequences, SequencesExt

CONSTANT MaxSteps   \* bound on the length of the configured workflow

ASSUME MaxStepsAssumption == MaxSteps \in Nat

VARIABLES
  config,   \* the extensions listed in core.workflowSteps
  at,       \* the step the service is at
  reverse,  \* it is being undeployed
  visited   \* the steps it stopped at since it was turned, from the one it was at

vars == <<config, at, reverse, visited>>

\* An extension's name: the part before the dot, and what tells it apart.
Name(prefix, k) == [prefix |-> prefix, id |-> k]
UndeployedName == Name("undeployed", 0)
DeployedName == Name("deployed", 0)

Configs ==
  UNION {{[k \in 1..n |-> Name(prefix[k], k)] : prefix \in [1..n -> {"provider", "ipam"}]} :
           n \in 1..MaxSteps}

initWorkflow(names) ==
  [k \in 1..Len(names) |->
     [ID |-> k, Name |-> names[k],
      Transition |-> IF names[k].prefix = "provider" THEN "provider" ELSE "provisioner"]]
  \o <<[ID |-> 0, Name |-> UndeployedName, Transition |-> "close"],
       [ID |-> Len(names) + 1, Name |-> DeployedName, Transition |-> "close"]>>

\* The loops over the list: the index of the last step that matches, or 0.
ByName(w, name) == SelectLastInSeq(w, LAMBDA step : step.Name = name)
ByID(w, id) == SelectLastInSeq(w, LAMBDA step : step.ID = id)

\* With a mistake: the direction is ignored.
isLastStepOf_OneWay(w, name, rev) == name = w[ByID(w, Len(w) - 1)].Name

isLastStepOf(w, name, rev) ==
  name = w[ByID(w, IF rev THEN 0 ELSE Len(w) - 1)].Name

getTransition(w, name) == w[SelectInSeq(w, LAMBDA step : step.Name = name)].Transition

\* With a mistake: no step is taken for a provider's.
IsProvider_Never(name) == FALSE

IsProvider(name) == name.prefix = "provider"

\* What getNextStep answers: the name of a step, or an error and no name.
Found(name) == [name |-> name, err |-> FALSE]
NotFound == [name |-> Name("", 0), err |-> TRUE]

\* One call for a name in the list, `again` being what a call gives for each name:
\* a call drops the error of the one it makes.
NextCall(w, rev, again, name) ==
  LET cur == ByName(w, name)
      next == ByID(w, IF rev THEN w[cur].ID - 1 ELSE w[cur].ID + 1)
  IN  IF next = 0 THEN NotFound
      ELSE IF IsProvider(w[next].Name) THEN Found(again[w[next].Name].name)
      ELSE Found(w[next].Name)

Names(w) == {w[k].Name : k \in DOMAIN w}

getNextStepOf(w, name, rev) ==
  LET call[n \in Names(w)] == NextCall(w, rev, call, n)
  IN  IF ByName(w, name) = 0 THEN NotFound ELSE call[name]

-----------------------------------------------------------------------------
w == initWorkflow(config)

Init ==
  /\ config \in Configs
  /\ at = UndeployedName
  /\ reverse = FALSE
  /\ visited = <<at>>

Step ==
  LET next == getNextStepOf(w, at, reverse)
  IN  /\ ~next.err
      /\ at' = next.name
      /\ visited' = Append(visited, at')
      /\ UNCHANGED <<config, reverse>>

Turn ==
  /\ reverse' = ~reverse
  /\ visited' = <<at>>
  /\ UNCHANGED <<config, at>>

Next == Step \/ Turn

Spec == Init /\ [][Next]_vars

-----------------------------------------------------------------------------
(* Properties. *)

ProviderIds == {k \in DOMAIN config : config[k].prefix = "provider"}

Ids(name) == w[ByName(w, name)].ID

S == INSTANCE WorkflowSteps WITH NSteps <- Len(config), ProviderSteps <- ProviderIds

\* The list and its loops compute what WorkflowSteps defines, from every step
\* and in both directions: the same next step, an error for the same steps, the
\* same last step (getNextStep and isLastStep of src/core/workflow.go).
AgreesWithSteps ==
  \A k \in DOMAIN w : \A rev \in BOOLEAN :
    LET next == getNextStepOf(w, w[k].Name, rev)
    IN  /\ ~next.err = S!HasNextStep(w[k].ID, rev)
        /\ ~next.err => Ids(next.name) = S!getNextStep(w[k].ID, rev)
        /\ isLastStepOf(w, w[k].Name, rev) = S!isLastStep(w[k].ID, rev)

\* A walk stops, since it was last turned, at everything between the step it was
\* turned at and the one it is at but providers, at each once, in the order of the
\* configuration or against it (setNextStep repeated).
WholeWalk ==
  LET id == [i \in DOMAIN visited |-> Ids(visited[i])]
      here == Ids(at)
      passed == IF reverse THEN here..id[1] ELSE id[1]..here
  IN  /\ {id[i] : i \in DOMAIN visited} = passed \ ProviderIds
      /\ \A i, j \in DOMAIN visited :
           i < j => IF reverse THEN id[j] < id[i] ELSE id[i] < id[j]
=============================================================================
