----------------------------- MODULE Provisioner -----------------------------
(***************************************************************************)
(* What the core supposes of a provisioner (src/docs/docs/extension.md): it  *)
(* works on one request at a time, touches nothing but what belongs to the   *)
(* request's service, and an answer without error means that the request was *)
(* carried out.  A failure, or a restart, may leave anything behind of the   *)
(* service that was being worked on.                                         *)
(*                                                                           *)
(* The workflow engine abstracts each provisioner to this; F5ltm, Kemplm and *)
(* Consul are checked to implement it, each with its own notion of what      *)
(* carries out a request.                                                    *)
(***************************************************************************)
CONSTANTS
  Services,          \* names of the services
  Requests,          \* what the core may ask, each for its `svc`
  Nil,               \* no request
  CarriesOut(_, _)   \* whether a content of a service is what a request asked

VARIABLES
  request,   \* the request being worked on
  content,   \* what the provisioner holds of each service
  told       \* the last request for each service, once it was answered
             \* without error

vars == <<request, content, told>>

Init ==
  /\ request = Nil
  /\ told = [s \in Services |-> Nil]

Take(r) ==
  /\ request = Nil
  /\ request' = r
  /\ told' = [told EXCEPT ![r.svc] = Nil]
  /\ UNCHANGED content

Work ==
  /\ request # Nil
  /\ \A s \in Services \ {request.svc} : content'[s] = content[s]
  /\ UNCHANGED <<request, told>>

Succeed ==
  /\ request # Nil
  /\ CarriesOut(content[request.svc], request)
  /\ request' = Nil
  /\ told' = [told EXCEPT ![request.svc] = request]
  /\ UNCHANGED content

\* The answer carries an error, or the process was restarted and gives none.
Fail ==
  /\ request # Nil
  /\ request' = Nil
  /\ UNCHANGED <<content, told>>

Next == (\E r \in Requests : Take(r)) \/ Work \/ Succeed \/ Fail

Spec == Init /\ [][Next]_vars
=============================================================================
