-------------------------------- MODULE Kemplm --------------------------------
(***************************************************************************)
(* The Kemp LoadMaster provisioner (src/provisioner/loadbalancer/kemplm): a  *)
(* goroutine that turns each request into HTTP calls, one after the other.  *)
(* A virtual service is known by its address and port, not by its service;   *)
(* its real services are the targets.  The allocator gives an address to one *)
(* service at a time, and again to another once it is released, with         *)
(* whatever is left on the device.                                           *)
(*                                                                          *)
(* A call is a step: it is carried out, refused with a status the code may  *)
(* look at or not, or broken off, and then it may have been carried out.    *)
(***************************************************************************)
CONSTANTS
  Services,  \* names of the services
  Requests,  \* what the core may ask: [svc, action, def], with the targets,
             \* tls and ip of the service in def
  Nil        \* no request, no virtual service

Address(r) == <<r.def.ip, r.def.tls>>

ASSUME RequestAssumption ==
  \A r \in Requests : r.svc \in Services /\ r.action \in {"add", "delete"}

IPs == {r.def.ip : r \in Requests}
Addresses == {Address(r) : r \in Requests}
Targets == UNION {r.def.targets : r \in Requests}

Jobs == [req : Requests, err : BOOLEAN, todo : SUBSET Targets,
         target : Targets \cup {Nil}]

ASSUME NilAssumption ==
  /\ Nil \notin Services \cup Requests \cup Targets \cup Jobs
  /\ \A T \in SUBSET Targets : T # Nil

VARIABLES
  holder,   \* the service each IP is allocated to, or Nil
  at,       \* the call the goroutine is about to make
  job,      \* the request, whether something failed, the targets still to be
            \* looked up, and the one being added; or Nil
  told,     \* history: the last request for each service, once answered
            \* without error
  virtual,  \* real services of the virtual service at each address, or Nil
  refused   \* history: services for which the device refused a call since the
            \* last one of a request was taken up

vars == <<holder, at, job, told, virtual, refused>>

-----------------------------------------------------------------------------
svc == job.req.svc
address == Address(job.req)
adding == job.req.action = "add"

Goes(next) == at' = next /\ UNCHANGED job

\* With a mistake: the goroutine goes on without an answer.
Fails_NoAnswer == at' = "select" /\ job' = [job EXCEPT !.err = TRUE]

Fails == at' = "answer" /\ job' = [job EXCEPT !.err = TRUE]

Init ==
  /\ holder = [ip \in IPs |-> Nil]
  /\ at = "select"
  /\ job = Nil
  /\ told = [s \in Services |-> Nil]
  /\ virtual = [a \in Addresses |-> Nil]
  /\ refused = {}

\* The allocator gives a free IP to a service.
Allocate(ip, s) ==
  /\ holder[ip] = Nil
  /\ holder' = [holder EXCEPT ![ip] = s]
  /\ UNCHANGED <<at, job, told, virtual, refused>>

\* It takes it back, whatever is left on the device, but not while a request of the
\* service is worked on: the service goes on to the allocator when that is answered,
\* as long as its messages do not cross.
Release(ip) ==
  /\ holder[ip] # Nil
  /\ job # Nil => svc # holder[ip]
  /\ holder' = [holder EXCEPT ![ip] = Nil]
  /\ UNCHANGED <<at, job, told, virtual, refused>>

\* The request of a service, with the IP it has.
Take(r) ==
  /\ at = "select"
  /\ holder[r.def.ip] = r.svc
  /\ job' = [req |-> r, err |-> FALSE, todo |-> r.def.targets, target |-> Nil]
  /\ at' = "showvs"
  /\ told' = [told EXCEPT ![r.svc] = Nil]
  /\ UNCHANGED <<holder, virtual, refused>>

Answer ==
  /\ at = "answer"
  /\ at' = "select"
  /\ job' = Nil
  /\ told' = IF job.err THEN told ELSE [told EXCEPT ![svc] = job.req]
  /\ UNCHANGED <<holder, virtual, refused>>

\* The process ends, at whatever point, and is started again.
Restart ==
  /\ at' = "select"
  /\ job' = Nil
  /\ UNCHANGED <<holder, told, virtual, refused>>

\* isVSDefined: status 200 or 422 tells; any other, and no answer, is an error.
isVSDefined ==
  /\ at = "showvs"
  /\ \/ virtual[address] = Nil /\ Goes(IF adding THEN "addvs" ELSE "answer")
     \/ virtual[address] # Nil /\ Goes(IF adding THEN "showrs" ELSE "delvs")
     \/ Fails
  /\ refused' = refused \ {svc}
  /\ UNCHANGED <<holder, told, virtual>>

SetVS(new) == virtual' = [virtual EXCEPT ![address] = new]

\* The status of addvs is not looked at.
addVS ==
  /\ at = "addvs"
  /\ \/ SetVS({}) /\ Goes("showrs") /\ UNCHANGED refused
     \/ UNCHANGED virtual /\ Goes("showrs") /\ refused' = refused \cup {svc}
     \/ (SetVS({}) \/ UNCHANGED virtual) /\ Fails /\ UNCHANGED refused
  /\ UNCHANGED <<holder, told>>

HasTarget(t) == virtual[address] # Nil /\ t \in virtual[address]

Looked(t) == [job EXCEPT !.todo = @ \ {t}]

\* A target that is there is passed over; one that is not, or that could not be
\* looked up, is added.
isRSDefined ==
  /\ at = "showrs"
  /\ \/ job.todo = {} /\ Goes("answer")
     \/ \E t \in job.todo :
          \/ HasTarget(t) /\ job' = Looked(t) /\ at' = "showrs"
          \/ job' = [Looked(t) EXCEPT !.target = t] /\ at' = "addrs"
  /\ UNCHANGED <<holder, told, virtual, refused>>

\* Done with a target: the next one.
NextTarget == at' = "showrs" /\ job' = [job EXCEPT !.target = Nil]

\* addRS: a status other than 200 is only logged.
addRS ==
  LET added == SetVS(virtual[address] \cup {job.target})
  IN  /\ at = "addrs"
      /\ \/ virtual[address] # Nil /\ added /\ NextTarget /\ UNCHANGED refused
         \/ UNCHANGED virtual /\ NextTarget /\ refused' = refused \cup {svc}
         \/ virtual[address] # Nil /\ added /\ Fails /\ UNCHANGED refused
         \/ UNCHANGED virtual /\ Fails /\ UNCHANGED refused
      /\ UNCHANGED <<holder, told>>

\* With a mistake: the status of delvs is not looked at either.
deleteVS_AnyStatus ==
  /\ at = "delvs"
  /\ SetVS(Nil) \/ UNCHANGED virtual
  /\ Goes("answer")
  /\ UNCHANGED <<holder, told, refused>>

deleteVS ==
  /\ at = "delvs"
  /\ \/ SetVS(Nil) /\ Goes("answer")
     \/ (SetVS(Nil) \/ UNCHANGED virtual) /\ Fails
  /\ UNCHANGED <<holder, told, refused>>

-----------------------------------------------------------------------------
AddressMoves == \E ip \in IPs : Release(ip) \/ \E s \in Services : Allocate(ip, s)

Next ==
  \/ AddressMoves
  \/ \E r \in Requests : Take(r)
  \/ Answer \/ Restart
  \/ isVSDefined \/ addVS \/ isRSDefined \/ addRS \/ deleteVS

Spec == Init /\ [][Next]_vars

-----------------------------------------------------------------------------
(* Properties. *)

\* The goroutine, its request and the device hold what the code puts there; it has
\* a request exactly while it works on one, of a service that has its IP, and a
\* target while it adds it.
TypeOK ==
  /\ holder \in [IPs -> Services \cup {Nil}]
  /\ at \in {"select", "showvs", "addvs", "showrs", "addrs", "delvs", "answer"}
  /\ job \in Jobs \cup {Nil}
  /\ (job = Nil) <=> (at = "select")
  /\ job # Nil => holder[job.req.def.ip] = svc
  /\ at = "addrs" => job.target # Nil
  /\ told \in [Services -> Requests \cup {Nil}]
  /\ virtual \in [Addresses -> {Nil} \cup SUBSET Targets]
  /\ refused \subseteq Services

\* What the device holds of service s: the virtual services at the IPs it has.
content == [s \in Services |->
  [virtual |-> [a \in Addresses |-> IF holder[a[1]] = s THEN virtual[a] ELSE Nil],
   refused |-> s \in refused]]

\* An addition: each target is a real service of the virtual service, unless the
\* device refused to make it one (others may be left there, from earlier requests or
\* another service's).  A deletion: there is no virtual service left at the address
\* (there may be one at the other port).
CarriesOut(c, r) ==
  IF r.action = "add"
  THEN \/ c.refused
       \/ c.virtual[Address(r)] # Nil /\ r.def.targets \subseteq c.virtual[Address(r)]
  ELSE c.virtual[Address(r)] = Nil

working == IF job = Nil THEN Nil ELSE job.req

P == INSTANCE Provisioner WITH request <- working

\* The provisioner does what the engine supposes of it, wherever calls are broken off
\* and it is restarted, as IPs go from one service to another: it works at the
\* address of its request's service alone, and does not answer without error
\* what is not so (src/docs/docs/extension.md has it raise errors in the Error
\* field).  CarriesOut has what it does not notice: additions the device refused
\* (addVS and addRS look at no status), and what is left of earlier requests.
ImplementsProvisioner == P!Init /\ [][P!Next \/ AddressMoves]_(P!vars)
=============================================================================
