-------------------------------- MODULE Consul --------------------------------
(***************************************************************************)
(* The Consul DNS provisioner (src/provisioner/dns/consul): a goroutine that *)
(* registers the aliases of a service in the catalog, or deregisters them,   *)
(* one after the other.  A failed registration is answered at once, and the  *)
(* request is answered again when its last alias was gone through.           *)
(*                                                                          *)
(* A call of the catalog is a step: it succeeds, or it fails, and then it    *)
(* may have been carried out.                                                *)
(***************************************************************************)
CONSTANTS
  Services,  \* names of the services
  Requests,  \* what the core may ask: [svc, action, def], with the aliases, tls
             \* and ip of the service in def
  Nil        \* no request, no registration

\* The code registers by alias alone and does not know whose it is.
ASSUME RequestAssumption ==
  /\ \A r \in Requests : r.svc \in Services /\ r.action \in {"add", "delete"}
  /\ \A r1, r2 \in Requests :
       r1.def.aliases \cap r2.def.aliases # {} => r1.svc = r2.svc

Aliases == UNION {r.def.aliases : r \in Requests}

Jobs == [req : Requests, err : BOOLEAN, todo : SUBSET Aliases,
         alias : Aliases \cup {Nil}]

ASSUME NilAssumption == Nil \notin Requests \cup Aliases \cup Jobs

VARIABLES
  at,      \* the call the goroutine is about to make
  job,     \* the request, whether something failed, the aliases still to be gone
           \* through, and the one being worked on; or Nil
  told,    \* history: the last request for each service, once it was gone
           \* through and answered without error
  catalog  \* address and port each alias is registered with, or Nil

vars == <<at, job, told, catalog>>

-----------------------------------------------------------------------------
svc == job.req.svc
adding == job.req.action = "add"

\* The port is that of the kind, whatever the load balancer is configured with.
Registration(r) == <<r.def.ip, r.def.tls>>

Goes(next) == at' = next /\ UNCHANGED job

Notes(next) == at' = next /\ job' = [job EXCEPT !.err = TRUE]

SetAlias(new) == catalog' = [catalog EXCEPT ![job.alias] = new]

Init ==
  /\ at = "select"
  /\ job = Nil
  /\ told = [s \in Services |-> Nil]
  /\ catalog = [a \in Aliases |-> Nil]

Take(r) ==
  /\ at = "select"
  /\ job' = [req |-> r, err |-> FALSE, todo |-> r.def.aliases, alias |-> Nil]
  /\ at' = "next"
  /\ told' = [told EXCEPT ![r.svc] = Nil]
  /\ UNCHANGED catalog

\* With a mistake: the goroutine goes on without an answer.
NextAlias_NoAnswer ==
  /\ at = "next"
  /\ \/ job.todo = {} /\ Goes("select")
     \/ \E a \in job.todo :
          /\ job' = [job EXCEPT !.todo = @ \ {a}, !.alias = a]
          /\ at' = IF adding THEN "lookup" ELSE "deregister"
  /\ UNCHANGED <<told, catalog>>

NextAlias ==
  /\ at = "next"
  /\ \/ job.todo = {} /\ Goes("answer")
     \/ \E a \in job.todo :
          /\ job' = [job EXCEPT !.todo = @ \ {a}, !.alias = a]
          /\ at' = IF adding THEN "lookup" ELSE "deregister"
  /\ UNCHANGED <<told, catalog>>

\* An alias that could not be looked up is taken to be new.
isServiceExist ==
  /\ at = "lookup"
  /\ \/ catalog[job.alias] # Nil /\ Goes("deregister")
     \/ Goes("register")
  /\ UNCHANGED <<told, catalog>>

\* An error is noted for a deletion, and only logged for an addition.
deregister ==
  /\ at = "deregister"
  /\ \/ SetAlias(Nil) /\ Goes(IF adding THEN "register" ELSE "next")
     \/ /\ SetAlias(Nil) \/ UNCHANGED catalog
        /\ IF adding THEN Goes("register") ELSE Notes("next")
  /\ UNCHANGED told

\* With a mistake: the error is answered at once and then forgotten.
register_ErrorTold ==
  /\ at = "register"
  /\ \/ SetAlias(Registration(job.req)) /\ Goes("next")
     \/ (SetAlias(Registration(job.req)) \/ UNCHANGED catalog) /\ Goes("tell")
  /\ UNCHANGED told

\* The registration replaces whatever the alias was registered with.
register ==
  /\ at = "register"
  /\ \/ SetAlias(Registration(job.req)) /\ Goes("next")
     \/ (SetAlias(Registration(job.req)) \/ UNCHANGED catalog) /\ Notes("tell")
  /\ UNCHANGED told

\* The answer that an alias failed, with the rest still to do.
TellError ==
  /\ at = "tell"
  /\ Goes("next")
  /\ UNCHANGED <<told, catalog>>

\* The last answer, with the error of any alias that failed.
Answer ==
  /\ at = "answer"
  /\ at' = "select"
  /\ job' = Nil
  /\ told' = IF job.err THEN told ELSE [told EXCEPT ![svc] = job.req]
  /\ UNCHANGED catalog

\* The process ends, at whatever point, and is started again.
Restart ==
  /\ at' = "select"
  /\ job' = Nil
  /\ UNCHANGED <<told, catalog>>

-----------------------------------------------------------------------------
Next ==
  \/ \E r \in Requests : Take(r)
  \/ NextAlias \/ isServiceExist \/ deregister \/ register
  \/ TellError \/ Answer \/ Restart

Spec == Init /\ [][Next]_vars

-----------------------------------------------------------------------------
(* Properties. *)

\* The goroutine, its request and the catalog hold what the code puts there; it has
\* a request exactly while it works on one, and an alias while it calls for it.
TypeOK ==
  /\ at \in {"select", "next", "lookup", "deregister", "register", "tell", "answer"}
  /\ job \in Jobs \cup {Nil}
  /\ (job = Nil) <=> (at = "select")
  /\ at \in {"lookup", "deregister", "register"} => job.alias # Nil
  /\ told \in [Services -> Requests \cup {Nil}]
  /\ catalog \in [Aliases -> {Registration(r) : r \in Requests} \cup {Nil}]

\* What the catalog holds of service s: the registrations of its aliases.
AliasesOf(s) == UNION {r.def.aliases : r \in {q \in Requests : q.svc = s}}

content == [s \in Services |-> [a \in AliasesOf(s) |-> catalog[a]]]

\* An addition: each alias leads to the address of the service.  A deletion: no
\* alias of the definition is registered (one dropped from it earlier may be).
CarriesOut(c, r) ==
  \A a \in r.def.aliases :
    c[a] = IF r.action = "add" THEN Registration(r) ELSE Nil

working == IF job = Nil THEN Nil ELSE job.req

P == INSTANCE Provisioner WITH request <- working

\* The provisioner does what the engine supposes of it, whichever calls fail and
\* wherever it is restarted: its last answer is without error only if every alias
\* was dealt with (the error of one alias is answered at once, and the loop goes
\* on).
ImplementsProvisioner == P!Spec
=============================================================================
