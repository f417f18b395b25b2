-------------------------- MODULE ServiceLifecycle --------------------------
(***************************************************************************)
(* What the workflow engine promises about one service, seen from outside   *)
(* (the State and ExpectedState the API shows): a service is announced,     *)
(* deployed, torn down and forgotten, and there are no other ways between   *)
(* these phases.  In particular a service that is being torn down, or was,  *)
(* only becomes "deployed" again through a new deployment, and an entry is  *)
(* only forgotten once it is undeployed.                                    *)
(***************************************************************************)
CONSTANT Services

VARIABLE phase

Phases == {"absent", "deploying", "deployed", "undeploying", "undeployed"}

Init == phase = [s \in Services |-> "absent"]

Move(s, from, to) ==
  /\ phase[s] \in from
  /\ phase' = [phase EXCEPT ![s] = to]

\* A deployment starts, whatever the service was doing.
Deploy(s) == Move(s, Phases, "deploying")

CompleteDeploy(s) == Move(s, {"deploying"}, "deployed")

Undeploy(s) == Move(s, {"deploying", "deployed"}, "undeploying")

\* The last step was rolled back, or there was none to roll back.
CompleteUndeploy(s) == Move(s, {"deploying", "undeploying"}, "undeployed")

Forget(s) == Move(s, {"undeployed"}, "absent")

Next ==
  \E s \in Services :
    \/ Deploy(s) \/ CompleteDeploy(s)
    \/ Undeploy(s) \/ CompleteUndeploy(s)
    \/ Forget(s)

Spec == Init /\ [][Next]_phase
=============================================================================
