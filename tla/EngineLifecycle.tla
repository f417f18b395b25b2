-------------------------- MODULE EngineLifecycle --------------------------
(***************************************************************************)
(* The workflow engine implements ServiceLifecycle: the phase of a service  *)
(* is read off the State and ExpectedState of the entry the table holds.    *)
(***************************************************************************)
EXTENDS WorkflowEngine

\* A provider at the end of the workflow would have nothing to deploy: the
\* service would be "deployed" by the announcement itself.
EndsWithProvisioner == \A p \in ProviderSteps : \E q \in Provisioners : p < q

phaseOf(e) ==
  CASE e.state = Deployed -> "deployed"
    [] e.state = Undeployed -> "undeployed"
    [] e.state \notin EndStates /\ ~isReverse(e) -> "deploying"
    [] e.state \notin EndStates /\ isReverse(e) -> "undeploying"

phase == [s \in Services |->
            IF table[s] = Nil THEN "absent" ELSE phaseOf(heap[table[s]])]

Lifecycle == INSTANCE ServiceLifecycle

\* Whatever messages cross, the entry a reader of the table sees goes through
\* the phases of the lifecycle, and only those.
ImplementsLifecycle == Lifecycle!Spec
=============================================================================
