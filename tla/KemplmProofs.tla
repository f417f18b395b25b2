----------------------------- MODULE KemplmProofs -----------------------------
(***************************************************************************)
(* Kemplm does what the engine supposes of a provisioner, but for what the   *)
(* device refuses and what earlier requests left, for all services, IPs,      *)
(* targets and requests, and whichever way the IPs go.                        *)
(*                                                                          *)
(* The invariant says what the targets that were gone through have come to:  *)
(* as long as no call failed, each of them but the one being added is a real *)
(* service, or the device has refused something.                             *)
(***************************************************************************)
EXTENDS Kemplm, TLAPS

\* Where the goroutine is in the list of targets, and in the branch of the action.
InPlace ==
  /\ job # Nil => job.todo \subseteq job.req.def.targets
  /\ at \in {"showvs", "addvs"} => job.todo = job.req.def.targets
  /\ at \in {"addvs", "showrs", "addrs"} => job.req.action = "add"
  /\ at = "delvs" => job.req.action = "delete"
  /\ at = "answer" /\ ~job.err /\ job.req.action = "add" => job.todo = {}

Pending == IF at = "addrs" THEN job.todo \cup {job.target} ELSE job.todo

HasTargets ==
  \/ job.req.svc \in refused
  \/ /\ virtual[Address(job.req)] # Nil
     /\ job.req.def.targets \ Pending \subseteq virtual[Address(job.req)]

\* What was gone through without error is as the request wants it.
Done ==
  job # Nil /\ ~job.err =>
    /\ at \in {"showrs", "addrs"} => HasTargets
    /\ at = "answer" => IF job.req.action = "add" THEN HasTargets
                        ELSE virtual[Address(job.req)] = Nil

Inv == TypeOK /\ InPlace /\ Done

\* What the code reads of a request is there.
LEMMA RequestFacts ==
  ASSUME NEW r \in Requests
  PROVE  /\ r.def.targets \subseteq Targets
         /\ r.svc \in Services
         /\ r.action \in {"add", "delete"}
         /\ r # Nil
         /\ Address(r) \in Addresses
         /\ r.def.ip \in IPs /\ Address(r)[1] = r.def.ip
BY RequestAssumption, NilAssumption DEF Targets, Addresses, IPs, Address

\* The goroutine has a job wherever it makes a call.
LEMMA JobFacts ==
  ASSUME Inv, at # "select"
  PROVE  job # Nil /\ job \in Jobs /\ job.req \in Requests
BY DEF Inv, TypeOK, Jobs

\* The ways a call leaves the job: it is the same but for its error, or one more
\* target is gone through.
Kept ==
  /\ job' \in Jobs /\ job' # Nil
  /\ job'.req = job.req

LEMMA GoesKept == ASSUME Inv, at # "select", NEW next, Goes(next)
                  PROVE  Kept /\ job' = job /\ at' = next
BY JobFacts DEF Goes, Kept

LEMMA FailsKept == ASSUME Inv, at # "select", Fails
                   PROVE  Kept /\ job'.err /\ job'.todo = job.todo /\ at' = "answer"
<1>1. /\ job' \in Jobs /\ job'.req = job.req /\ job'.err /\ job'.todo = job.todo
      /\ at' = "answer"
  BY JobFacts DEF Fails, Jobs
<1> QED
  BY <1>1, NilAssumption DEF Kept

LEMMA LookedKept ==
  ASSUME Inv, at = "showrs", NEW t \in job.todo,
         \/ job' = Looked(t)
         \/ job' = [Looked(t) EXCEPT !.target = t]
  PROVE  /\ Kept /\ job'.todo = job.todo \ {t} /\ job'.err = job.err
         /\ job' = [Looked(t) EXCEPT !.target = t] => job'.target = t
<1>1. job \in Jobs /\ job.todo \subseteq Targets
  BY JobFacts DEF Jobs
<1>2. /\ job' \in Jobs /\ job'.req = job.req
      /\ job'.todo = job.todo \ {t} /\ job'.err = job.err
      /\ job' = [Looked(t) EXCEPT !.target = t] => job'.target = t
  BY <1>1 DEF Looked, Jobs
<1> QED
  BY <1>2, NilAssumption DEF Kept

LEMMA NextKept == ASSUME Inv, at = "addrs", NextTarget
                  PROVE  /\ Kept /\ job'.todo = job.todo /\ job'.err = job.err
                         /\ at' = "showrs"
<1>1. job \in Jobs
  BY JobFacts
<1>2. /\ job' \in Jobs /\ job'.req = job.req
      /\ job'.todo = job.todo /\ job'.err = job.err /\ at' = "showrs"
  BY <1>1 DEF NextTarget, Jobs
<1> QED
  BY <1>2, NilAssumption DEF Kept

\* IPs are given and taken back behind the goroutine, whose own stays.
LEMMA MovesKept ==
  ASSUME Inv, AddressMoves
  PROVE  /\ UNCHANGED <<at, job, told, virtual, refused>>
         /\ holder' \in [IPs -> Services \cup {Nil}]
         /\ job # Nil => holder'[job.req.def.ip] = svc
<1>1. /\ holder \in [IPs -> Services \cup {Nil}]
      /\ job # Nil => holder[job.req.def.ip] = svc /\ svc # Nil /\ job.req.def.ip \in IPs
  BY JobFacts, RequestFacts, NilAssumption DEF Inv, TypeOK, svc
<1>2. ASSUME NEW ip \in IPs, Release(ip)
      PROVE  /\ UNCHANGED <<at, job, told, virtual, refused>>
             /\ holder' \in [IPs -> Services \cup {Nil}]
             /\ job # Nil => holder'[job.req.def.ip] = svc
  BY <1>1, <1>2 DEF Release
<1>3. ASSUME NEW ip \in IPs, NEW s \in Services, Allocate(ip, s)
      PROVE  /\ UNCHANGED <<at, job, told, virtual, refused>>
             /\ holder' \in [IPs -> Services \cup {Nil}]
             /\ job # Nil => holder'[job.req.def.ip] = svc
  BY <1>1, <1>3 DEF Allocate
<1> QED
  BY <1>2, <1>3 DEF AddressMoves

\* Every other step leaves them where they are.
LEMMA HolderKept ==
  ASSUME Inv, [Next]_vars, ~AddressMoves
  PROVE  holder' = holder
BY DEF Next, vars, Take, Answer, Restart, isVSDefined, addVS, isRSDefined, addRS, deleteVS

LEMMA InitInv == Init => Inv
<1>1. Init => TypeOK
  BY DEF Init, TypeOK
<1>2. Init => InPlace /\ Done
  BY DEF Init, InPlace, Done
<1> QED
  BY <1>1, <1>2 DEF Inv

LEMMA TypeStep == Inv /\ [Next]_vars => TypeOK'
<1> SUFFICES ASSUME Inv, [Next]_vars PROVE TypeOK'
  OBVIOUS
<1> USE DEF Inv, TypeOK, svc
<1>0. CASE AddressMoves
  BY <1>0, MovesKept DEF svc
<1>1. ASSUME NEW r \in Requests, Take(r) PROVE TypeOK'
  <2>1. job' \in Jobs
    BY <1>1, RequestFacts DEF Take, Jobs
  <2>2. job' # Nil
    BY <2>1, NilAssumption
  <2> QED
    BY <1>1, <2>1, <2>2, RequestFacts DEF Take
<1>2. CASE Answer
  <2>1. job.req \in Requests
    BY <1>2, JobFacts DEF Answer
  <2> QED
    BY <1>2, <2>1 DEF Answer, svc
<1>3. CASE Restart
  BY <1>3 DEF Restart
<1>4. CASE isVSDefined
  <2>1. Kept /\ at' \in {"addvs", "showrs", "delvs", "answer"}
    BY <1>4, GoesKept, FailsKept DEF isVSDefined
  <2> QED
    BY <1>4, <2>1 DEF isVSDefined, Kept
<1>5. CASE addVS
  <2>1. Kept /\ at' \in {"showrs", "answer"}
    BY <1>5, GoesKept, FailsKept DEF addVS
  <2>2. job.req.svc \in Services
    BY <1>5, JobFacts, RequestFacts DEF addVS
  <2> QED
    BY <1>5, <2>1, <2>2 DEF addVS, Kept, SetVS, svc
<1>6. CASE isRSDefined
  <2>1. Kept /\ \/ at' \in {"showrs", "answer"}
                \/ at' = "addrs" /\ job'.target \in job.todo
    BY <1>6, GoesKept, LookedKept DEF isRSDefined
  <2>2. job.todo \subseteq Targets
    BY <1>6, JobFacts DEF isRSDefined, Jobs
  <2> QED
    BY <1>6, <2>1, <2>2, NilAssumption DEF isRSDefined, Kept
<1>7. CASE addRS
  <2>1. Kept /\ at' \in {"showrs", "answer"}
    BY <1>7, NextKept, FailsKept DEF addRS
  <2>2. job.req.svc \in Services /\ job.target \in Targets /\ address \in Addresses
    BY <1>7, JobFacts, RequestFacts DEF addRS, Jobs, address
  <2>3. virtual' \in [Addresses -> {Nil} \cup SUBSET Targets]
    BY <1>7, <2>2 DEF addRS, SetVS
  <2>4. refused' \subseteq Services
    BY <1>7, <2>2 DEF addRS, svc
  <2> QED
    BY <1>7, <2>1, <2>3, <2>4 DEF addRS, Kept
<1>8. CASE deleteVS
  <2>1. Kept /\ at' = "answer"
    BY <1>8, GoesKept, FailsKept DEF deleteVS
  <2> QED
    BY <1>8, <2>1 DEF deleteVS, Kept, SetVS
<1>9. CASE UNCHANGED vars
  BY <1>9 DEF vars
<1> QED
  BY <1>0, <1>1, <1>2, <1>3, <1>4, <1>5, <1>6, <1>7, <1>8, <1>9 DEF Next

LEMMA PlaceStep == Inv /\ [Next]_vars => InPlace'
<1> SUFFICES ASSUME Inv, [Next]_vars PROVE InPlace'
  OBVIOUS
<1> USE DEF Inv, TypeOK, InPlace
<1>0. CASE AddressMoves
  BY <1>0, MovesKept
<1>1. ASSUME NEW r \in Requests, Take(r) PROVE InPlace'
  BY <1>1 DEF Take
<1>2. CASE Answer
  BY <1>2 DEF Answer
<1>3. CASE Restart
  BY <1>3 DEF Restart
<1>4. CASE isVSDefined
  <2>1. job.req.action \in {"add", "delete"}
    BY <1>4, JobFacts, RequestFacts DEF isVSDefined
  <2> QED
    BY <1>4, <2>1, JobFacts, GoesKept, FailsKept DEF isVSDefined, Kept, adding
<1>5. CASE addVS
  BY <1>5, JobFacts, GoesKept, FailsKept DEF addVS, Kept
<1>6. CASE isRSDefined
  BY <1>6, JobFacts, GoesKept, LookedKept DEF isRSDefined, Kept
<1>7. CASE addRS
  BY <1>7, JobFacts, NextKept, FailsKept DEF addRS, Kept
<1>8. CASE deleteVS
  BY <1>8, JobFacts, GoesKept, FailsKept DEF deleteVS, Kept
<1>9. CASE UNCHANGED vars
  BY <1>9 DEF vars
<1> QED
  BY <1>0, <1>1, <1>2, <1>3, <1>4, <1>5, <1>6, <1>7, <1>8, <1>9 DEF Next

LEMMA DoneStep == Inv /\ [Next]_vars => Done'
<1> SUFFICES ASSUME Inv, [Next]_vars PROVE Done'
  OBVIOUS
<1> USE DEF Inv, TypeOK, InPlace, Done, HasTargets, Pending, Kept
<1>0. CASE AddressMoves
  BY <1>0, MovesKept
<1>1. ASSUME NEW r \in Requests, Take(r) PROVE Done'
  BY <1>1 DEF Take
<1>2. CASE Answer
  BY <1>2 DEF Answer
<1>3. CASE Restart
  BY <1>3 DEF Restart
<1>4. CASE isVSDefined
  <2>1. job # Nil /\ job.todo \subseteq job.req.def.targets
    BY <1>4, JobFacts DEF isVSDefined
  <2> QED
    BY <1>4, <2>1, GoesKept, FailsKept DEF isVSDefined, address, adding
<1>5. CASE addVS
  <2>1. job # Nil /\ Address(job.req) \in Addresses
    BY <1>5, JobFacts, RequestFacts DEF addVS
  <2>2. CASE SetVS({}) /\ Goes("showrs") /\ UNCHANGED refused
    BY <1>5, <2>1, <2>2, GoesKept, NilAssumption DEF addVS, SetVS, address
  <2>3. CASE UNCHANGED virtual /\ Goes("showrs") /\ refused' = refused \cup {svc}
    BY <1>5, <2>1, <2>3, GoesKept DEF addVS, svc
  <2>4. CASE Fails
    BY <1>5, <2>4, FailsKept DEF addVS
  <2> QED
    BY <1>5, <2>2, <2>3, <2>4 DEF addVS
<1>6. CASE isRSDefined
  <2>1. job # Nil
    BY <1>6, JobFacts DEF isRSDefined
  <2>2. CASE job.todo = {} /\ Goes("answer")
    BY <1>6, <2>1, <2>2, GoesKept DEF isRSDefined
  <2>3. ASSUME NEW t \in job.todo, HasTarget(t), job' = Looked(t), at' = "showrs"
        PROVE  Done'
    BY <1>6, <2>1, <2>3, LookedKept DEF isRSDefined, HasTarget, address
  <2>4. ASSUME NEW t \in job.todo, job' = [Looked(t) EXCEPT !.target = t], at' = "addrs"
        PROVE  Done'
    BY <1>6, <2>1, <2>4, LookedKept DEF isRSDefined
  <2> QED
    BY <1>6, <2>2, <2>3, <2>4 DEF isRSDefined
<1>7. CASE addRS
  <2>1. job # Nil /\ Address(job.req) \in Addresses
    BY <1>7, JobFacts, RequestFacts DEF addRS
  <2>2. CASE /\ virtual[address] # Nil /\ SetVS(virtual[address] \cup {job.target})
             /\ NextTarget /\ UNCHANGED refused
    <3>1. virtual[address] \subseteq Targets /\ job.target \in Targets
      BY <1>7, <2>1, <2>2, JobFacts DEF address, addRS, Jobs
    <3>2. /\ virtual'[Address(job.req)] = virtual[Address(job.req)] \cup {job.target}
          /\ virtual'[Address(job.req)] # Nil
      BY <2>1, <2>2, <3>1, NilAssumption DEF SetVS, address
    <3> QED
      BY <1>7, <2>1, <2>2, <3>2, NextKept DEF addRS, address
  <2>3. CASE UNCHANGED virtual /\ NextTarget /\ refused' = refused \cup {svc}
    BY <1>7, <2>1, <2>3, NextKept DEF addRS, svc
  <2>4. CASE Fails
    BY <1>7, <2>4, FailsKept DEF addRS
  <2> QED
    BY <1>7, <2>2, <2>3, <2>4 DEF addRS
<1>8. CASE deleteVS
  <2>1. job # Nil /\ Address(job.req) \in Addresses
    BY <1>8, JobFacts, RequestFacts DEF deleteVS
  <2>2. CASE SetVS(Nil) /\ Goes("answer")
    BY <1>8, <2>1, <2>2, GoesKept DEF deleteVS, SetVS, address
  <2>3. CASE Fails
    BY <1>8, <2>3, FailsKept DEF deleteVS
  <2> QED
    BY <1>8, <2>2, <2>3 DEF deleteVS
<1>9. CASE UNCHANGED vars
  BY <1>9 DEF vars
<1> QED
  BY <1>0, <1>1, <1>2, <1>3, <1>4, <1>5, <1>6, <1>7, <1>8, <1>9 DEF Next

LEMMA Inductive == Spec => []Inv
<1>1. Inv /\ [Next]_vars => Inv'
  BY TypeStep, PlaceStep, DoneStep DEF Inv
<1> QED
  BY InitInv, <1>1, PTL DEF Spec

\* The goroutine, its request and the device hold what the code puts there.
THEOREM KemplmType == Spec => []TypeOK
BY Inductive, PTL DEF Inv

-----------------------------------------------------------------------------
(* Every step is a step of the promise, or does not show. *)

LEMMA MapsInit == Init => P!Init
BY DEF Init, P!Init, working

\* A call at the request's address touches nothing of another service.
LEMMA CallIsWork ==
  ASSUME Inv, at # "select", Kept, UNCHANGED <<holder, told>>,
         \A a \in Addresses \ {address} : virtual'[a] = virtual[a],
         \A s \in Services \ {svc} : s \in refused' <=> s \in refused
  PROVE  P!Work
<1>1. job # Nil /\ job.req \in Requests
  BY JobFacts
<1>2. ASSUME NEW s \in Services \ {job.req.svc} PROVE content'[s] = content[s]
  <2>1. \A a \in Addresses : holder[a[1]] = s => a # address
    BY <1>1, <1>2, RequestFacts DEF Inv, TypeOK, address, svc
  <2>2. [a \in Addresses |-> IF holder'[a[1]] = s THEN virtual'[a] ELSE Nil]
          = [a \in Addresses |-> IF holder[a[1]] = s THEN virtual[a] ELSE Nil]
    BY <2>1
  <2>3. (s \in refused') = (s \in refused)
    BY <1>2 DEF svc
  <2> QED
    BY <2>2, <2>3 DEF content
<1>3. working = job.req /\ working' = job.req /\ working # Nil
  BY <1>1, NilAssumption DEF working, Kept
<1> QED
  BY <1>2, <1>3 DEF P!Work

LEMMA MapsNext == Inv /\ [Next]_vars => [P!Next \/ AddressMoves]_(P!vars)
<1> SUFFICES ASSUME Inv, [Next]_vars PROVE [P!Next \/ AddressMoves]_(P!vars)
  OBVIOUS
<1> USE DEF Inv, TypeOK
<1>1. ASSUME NEW r \in Requests, Take(r) PROVE P!Take(r)
  <2>1. job' \in Jobs /\ job'.req = r
    BY <1>1, RequestFacts DEF Take, Jobs
  <2>2. working = Nil /\ working' = r
    BY <1>1, <2>1, NilAssumption DEF Take, working
  <2> QED
    BY <1>1, <2>2 DEF Take, P!Take, content
<1>2. CASE Answer
  <2>1. job # Nil /\ job \in Jobs /\ job.req \in Requests
    BY <1>2, JobFacts DEF Answer
  <2>2. working = job.req /\ working' = Nil /\ working # Nil /\ UNCHANGED content
    BY <1>2, <2>1, NilAssumption DEF Answer, working, content
  <2>3. CASE job.err
    BY <1>2, <2>2, <2>3 DEF Answer, P!Fail, P!Next
  <2>4. CASE ~job.err
    <3>1. IF job.req.action = "add" THEN HasTargets /\ Pending = {}
          ELSE virtual[Address(job.req)] = Nil
      BY <1>2, <2>1, <2>4 DEF Answer, Done, InPlace, Pending
    <3>2. /\ content[job.req.svc].virtual[Address(job.req)] = virtual[Address(job.req)]
          /\ content[job.req.svc].refused = (job.req.svc \in refused)
      BY <2>1, RequestFacts DEF content, svc
    <3>3. CarriesOut(content[job.req.svc], job.req)
      BY <3>1, <3>2 DEF CarriesOut, HasTargets
    <3> QED
      BY <1>2, <2>2, <2>4, <3>3 DEF Answer, svc, P!Succeed, P!Next
  <2> QED
    BY <2>3, <2>4, <2>1 DEF Jobs
<1>3. CASE Restart
  <2>1. UNCHANGED content /\ working' = Nil
    BY <1>3 DEF Restart, content, working
  <2> QED
    BY <1>3, <2>1 DEF Restart, P!Fail, P!Next, P!vars
<1>4. CASE isVSDefined
  <2>1. Kept
    BY <1>4, GoesKept, FailsKept DEF isVSDefined
  <2>2. P!Work
    BY <1>4, <2>1, CallIsWork DEF isVSDefined
  <2> QED
    BY <2>2 DEF P!Next
<1>5. CASE addVS
  <2>1. Kept
    BY <1>5, GoesKept, FailsKept DEF addVS
  <2>2. P!Work
    BY <1>5, <2>1, CallIsWork DEF addVS, SetVS
  <2> QED
    BY <2>2 DEF P!Next
<1>6. CASE isRSDefined
  <2>1. Kept
    BY <1>6, GoesKept, LookedKept DEF isRSDefined
  <2>2. P!Work
    BY <1>6, <2>1, CallIsWork DEF isRSDefined
  <2> QED
    BY <2>2 DEF P!Next
<1>7. CASE addRS
  <2>1. Kept
    BY <1>7, NextKept, FailsKept DEF addRS
  <2>2. P!Work
    BY <1>7, <2>1, CallIsWork DEF addRS, SetVS
  <2> QED
    BY <2>2 DEF P!Next
<1>8. CASE deleteVS
  <2>1. Kept
    BY <1>8, GoesKept, FailsKept DEF deleteVS
  <2>2. P!Work
    BY <1>8, <2>1, CallIsWork DEF deleteVS, SetVS
  <2> QED
    BY <2>2 DEF P!Next
<1>9. CASE UNCHANGED vars
  BY <1>9 DEF vars, P!vars, working, content
<1> QED
  BY <1>1, <1>2, <1>3, <1>4, <1>5, <1>6, <1>7, <1>8, <1>9 DEF Next, P!Next

\* As long as the allocator gives an IP to one service at a time, and takes it back
\* while nothing is done for that service, whoever had it before and whatever was
\* left there: the virtual services at the IPs of other services are not touched, and
\* an answer without error means, of an addition, that each target is a real service
\* unless the device refused a call of it (others may be there too), and of a
\* deletion, that there is no virtual service at the address (there may be one at
\* the other port).
THEOREM KemplmProvisions == Spec => ImplementsProvisioner
BY Inductive, MapsInit, MapsNext, PTL DEF Spec, ImplementsProvisioner
=============================================================================
