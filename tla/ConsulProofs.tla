----------------------------- MODULE ConsulProofs -----------------------------
(***************************************************************************)
(* Consul does what the engine supposes of a provisioner, for all services,  *)
(* aliases and requests.                                                    *)
(*                                                                          *)
(* The invariant says what the aliases that were gone through have come to:  *)
(* as long as nothing failed, each of them but the one being worked on is    *)
(* as the request wants it.                                                 *)
(***************************************************************************)
EXTENDS Consul, TLAPS

Calls == {"lookup", "deregister", "register"}

Wanted(r) == IF r.action = "add" THEN Registration(r) ELSE Nil

\* Where the goroutine is in the list of aliases, and in the branch of the action.
InPlace ==
  /\ job # Nil =>
       /\ job.todo \subseteq job.req.def.aliases
       /\ at \in Calls => job.alias \in job.req.def.aliases \ job.todo
  /\ at \in {"lookup", "register", "tell"} => job.req.action = "add"
  /\ at = "answer" => job.todo = {}

\* What was gone through without error is as the request wants it.
Done ==
  job # Nil /\ ~job.err =>
    \A a \in job.req.def.aliases \ job.todo :
      \/ at \in Calls /\ a = job.alias
      \/ catalog[a] = Wanted(job.req)

Inv == TypeOK /\ InPlace /\ Done

\* The aliases of a request are aliases, and requests have the fields the code reads.
LEMMA RequestFacts ==
  ASSUME NEW r \in Requests
  PROVE  /\ r.def.aliases \subseteq Aliases
         /\ r.svc \in Services
         /\ r.action \in {"add", "delete"}
         /\ r # Nil
         /\ Registration(r) \in {Registration(q) : q \in Requests} \cup {Nil}
BY RequestAssumption, NilAssumption DEF Aliases

LEMMA InitInv == Init => Inv
BY DEF Init, Inv, TypeOK, InPlace, Done, Calls

\* The list of aliases is at its end, or one of them is taken.
LEMMA NextFacts ==
  ASSUME Inv, NextAlias
  PROVE  /\ job # Nil /\ job \in Jobs /\ at = "next" /\ catalog' = catalog
         /\ \/ job.todo = {} /\ job' = job /\ at' = "answer"
            \/ \E a \in job.todo :
                 /\ job' \in Jobs /\ job'.req = job.req /\ job'.err = job.err
                 /\ job'.todo = job.todo \ {a} /\ job'.alias = a
                 /\ at' = IF adding THEN "lookup" ELSE "deregister"
<1>1. job # Nil /\ job \in Jobs
  BY DEF NextAlias, Inv, TypeOK
<1>2. CASE job.todo = {} /\ Goes("answer")
  BY <1>1, <1>2 DEF NextAlias, Goes
<1>3. ASSUME NEW a \in job.todo,
             job' = [job EXCEPT !.todo = @ \ {a}, !.alias = a]
      PROVE  /\ job' \in Jobs /\ job'.req = job.req /\ job'.err = job.err
             /\ job'.todo = job.todo \ {a} /\ job'.alias = a
  BY <1>1, <1>3 DEF Jobs
<1> QED
  BY <1>1, <1>2, <1>3 DEF NextAlias

LEMMA TypeStep == Inv /\ [Next]_vars => TypeOK'
<1> SUFFICES ASSUME Inv, [Next]_vars PROVE TypeOK'
  OBVIOUS
<1> USE DEF Inv, TypeOK, Goes, Notes, SetAlias, svc
<1>1. ASSUME NEW r \in Requests, Take(r) PROVE TypeOK'
  <2>1. job' \in Jobs
    BY <1>1, RequestFacts DEF Take, Jobs
  <2>2. job' # Nil
    BY <2>1, NilAssumption
  <2> QED
    BY <1>1, <2>1, <2>2 DEF Take
<1>2. CASE NextAlias
  <2>1. job # Nil /\ job' \in Jobs /\ job' # Nil
    BY <1>2, NextFacts, NilAssumption
  <2>2. at' = "answer" \/ (at' \in {"lookup", "deregister"} /\ job'.alias \in job.todo)
    BY <1>2, NextFacts
  <2>3. job.todo \subseteq Aliases
    BY <1>2, NextFacts DEF Jobs
  <2> QED
    BY <1>2, <2>1, <2>2, <2>3, NilAssumption DEF NextAlias
<1>3. CASE isServiceExist
  BY <1>3 DEF isServiceExist
<1>4. ASSUME job # Nil, job \in Jobs, job' = job \/ job' = [job EXCEPT !.err = TRUE]
      PROVE  job' \in Jobs /\ job' # Nil /\ job'.alias = job.alias
  <2>1. job' \in Jobs /\ job'.alias = job.alias
    BY <1>4 DEF Jobs
  <2> QED
    BY <2>1, NilAssumption
<1>5. CASE deregister
  BY <1>4, <1>5 DEF deregister
<1>6. CASE register
  <2>1. Registration(job.req) \in {Registration(q) : q \in Requests} \cup {Nil}
    BY <1>6 DEF register, Jobs
  <2> QED
    BY <1>4, <1>6, <2>1 DEF register
<1>7. CASE TellError
  BY <1>7 DEF TellError
<1>8. CASE Answer
  BY <1>8 DEF Answer, Jobs
<1>9. CASE Restart
  BY <1>9 DEF Restart
<1>10. CASE UNCHANGED vars
  BY <1>10 DEF vars
<1> QED
  BY <1>1, <1>2, <1>3, <1>5, <1>6, <1>7, <1>8, <1>9, <1>10 DEF Next

LEMMA PlaceStep == Inv /\ [Next]_vars => InPlace'
<1> SUFFICES ASSUME Inv, [Next]_vars PROVE InPlace'
  OBVIOUS
<1> USE DEF Inv, TypeOK, Jobs, Goes, Notes, adding, InPlace, Calls
<1>1. ASSUME NEW r \in Requests, Take(r) PROVE InPlace'
  BY <1>1 DEF Take
<1>2. CASE NextAlias
  BY <1>2, NextFacts
<1>3. CASE isServiceExist
  BY <1>3 DEF isServiceExist
<1>4. CASE deregister
  BY <1>4 DEF deregister
<1>5. CASE register
  BY <1>5 DEF register
<1>6. CASE TellError
  BY <1>6 DEF TellError
<1>7. CASE Answer
  BY <1>7 DEF Answer
<1>8. CASE Restart
  BY <1>8 DEF Restart
<1>9. CASE UNCHANGED vars
  BY <1>9 DEF vars
<1> QED
  BY <1>1, <1>2, <1>3, <1>4, <1>5, <1>6, <1>7, <1>8, <1>9 DEF Next

LEMMA DoneStep == Inv /\ [Next]_vars => Done'
<1> SUFFICES ASSUME Inv, [Next]_vars PROVE Done'
  OBVIOUS
<1> USE DEF Inv, TypeOK, Jobs, Goes, Notes, SetAlias, adding, InPlace, Done, Calls, Wanted
<1>1. ASSUME NEW r \in Requests, Take(r) PROVE Done'
  BY <1>1 DEF Take
<1>2. CASE NextAlias
  BY <1>2, NextFacts
<1>3. CASE isServiceExist
  BY <1>3 DEF isServiceExist
<1>4. CASE deregister
  <2>1. job.req.def.aliases \subseteq Aliases
    BY <1>4, RequestFacts DEF deregister
  <2> QED
    BY <1>4, <2>1 DEF deregister
<1>5. CASE register
  <2>1. job.req.def.aliases \subseteq Aliases
    BY <1>5, RequestFacts DEF register
  <2> QED
    BY <1>5, <2>1 DEF register
<1>6. CASE TellError
  BY <1>6 DEF TellError
<1>7. CASE Answer
  BY <1>7 DEF Answer
<1>8. CASE Restart
  BY <1>8 DEF Restart
<1>9. CASE UNCHANGED vars
  BY <1>9 DEF vars
<1> QED
  BY <1>1, <1>2, <1>3, <1>4, <1>5, <1>6, <1>7, <1>8, <1>9 DEF Next

LEMMA Inductive == Spec => []Inv
<1>1. Inv /\ [Next]_vars => Inv'
  BY TypeStep, PlaceStep, DoneStep DEF Inv
<1> QED
  BY InitInv, <1>1, PTL DEF Spec

\* The goroutine, its request and the catalog hold what the code puts there.
THEOREM ConsulType == Spec => []TypeOK
BY Inductive, PTL DEF Inv

-----------------------------------------------------------------------------
(* Every step is a step of the promise, or does not show. *)

LEMMA MapsInit == Init => P!Init
BY DEF Init, P!Init, working

\* A call for an alias of the request touches nothing of another service.
LEMMA CallIsWork ==
  ASSUME Inv, at \in Calls, job' # Nil, job'.req = job.req, UNCHANGED told,
         \A a \in Aliases \ {job.alias} : catalog'[a] = catalog[a]
  PROVE  P!Work
<1>1. job # Nil /\ job \in Jobs /\ job.req \in Requests
  BY DEF Inv, TypeOK, Jobs, Calls
<1>2. job.alias \in job.req.def.aliases
  BY <1>1 DEF Inv, InPlace
<1>3. ASSUME NEW s \in Services \ {job.req.svc} PROVE content'[s] = content[s]
  <2>1. job.alias \notin AliasesOf(s)
    BY <1>1, <1>2, <1>3, RequestAssumption, NilAssumption DEF AliasesOf
  <2>2. AliasesOf(s) \subseteq Aliases
    BY DEF AliasesOf, Aliases
  <2> QED
    BY <2>1, <2>2 DEF content
<1>4. working = job.req /\ working' = job.req /\ working # Nil
  BY <1>1, NilAssumption DEF working
<1> QED
  BY <1>3, <1>4 DEF P!Work

LEMMA MapsNext == Inv /\ [Next]_vars => [P!Next]_(P!vars)
<1> SUFFICES ASSUME Inv, [Next]_vars PROVE [P!Next]_(P!vars)
  OBVIOUS
<1> USE DEF Inv, TypeOK, Jobs, Goes, Notes, SetAlias
<1>1. ASSUME NEW r \in Requests, Take(r) PROVE P!Take(r)
  <2>1. job' \in Jobs /\ job'.req = r
    BY <1>1, RequestFacts DEF Take
  <2>2. working = Nil /\ working' = r
    BY <1>1, <2>1, NilAssumption DEF Take, working
  <2> QED
    BY <1>1, <2>2 DEF Take, P!Take, content
<1>2. CASE NextAlias
  <2>1. job # Nil /\ job' # Nil /\ job'.req = job.req
    BY <1>2, NextFacts, NilAssumption
  <2> QED
    BY <1>2, <2>1 DEF NextAlias, P!vars, working, content
<1>3. CASE isServiceExist
  BY <1>3 DEF isServiceExist, P!vars, working, content
<1>4. CASE deregister
  <2>1. job' \in Jobs /\ job'.req = job.req
    BY <1>4 DEF deregister
  <2>2. \A a \in Aliases \ {job.alias} : catalog'[a] = catalog[a]
    BY <1>4 DEF deregister
  <2>3. P!Work
    BY <1>4, <2>1, <2>2, CallIsWork, NilAssumption DEF deregister, Calls
  <2> QED
    BY <2>3 DEF P!Next
<1>5. CASE register
  <2>1. job' \in Jobs /\ job'.req = job.req
    BY <1>5 DEF register
  <2>2. \A a \in Aliases \ {job.alias} : catalog'[a] = catalog[a]
    BY <1>5 DEF register
  <2>3. P!Work
    BY <1>5, <2>1, <2>2, CallIsWork, NilAssumption DEF register, Calls
  <2> QED
    BY <2>3 DEF P!Next
<1>6. CASE TellError
  BY <1>6 DEF TellError, P!vars, working, content
<1>7. CASE Answer
  <2>1. job # Nil /\ job \in Jobs /\ job.req \in Requests
    BY <1>7 DEF Answer
  <2>2. working = job.req /\ working' = Nil /\ working # Nil /\ UNCHANGED content
    BY <1>7, <2>1, NilAssumption DEF Answer, working, content
  <2>3. CASE job.err
    BY <1>7, <2>2, <2>3 DEF Answer, P!Fail, P!Next
  <2>4. CASE ~job.err
    <3>1. \A a \in job.req.def.aliases : catalog[a] = Wanted(job.req)
      BY <1>7, <2>1, <2>4 DEF Answer, Done, InPlace, Calls
    <3>2. \A a \in job.req.def.aliases : content[job.req.svc][a] = catalog[a]
      BY <2>1, RequestFacts DEF content, AliasesOf
    <3>3. CarriesOut(content[job.req.svc], job.req)
      BY <3>1, <3>2 DEF CarriesOut, Wanted
    <3> QED
      BY <1>7, <2>2, <2>4, <3>3 DEF Answer, svc, P!Succeed, P!Next
  <2> QED
    BY <2>3, <2>4, <2>1 DEF Jobs
<1>8. CASE Restart
  <2>1. UNCHANGED content /\ working' = Nil
    BY <1>8 DEF Restart, content, working
  <2> QED
    BY <1>8, <2>1 DEF Restart, P!Fail, P!Next, P!vars
<1>9. CASE UNCHANGED vars
  BY <1>9 DEF vars, P!vars, working, content
<1> QED
  BY <1>1, <1>2, <1>3, <1>4, <1>5, <1>6, <1>7, <1>8, <1>9 DEF Next, P!Next

\* Consul implements the promise: its last answer is without error only if every
\* alias was dealt with, and it touches nothing of another service.
THEOREM ConsulProvisions == Spec => ImplementsProvisioner
BY Inductive, MapsInit, MapsNext, PTL DEF Spec, P!Spec, ImplementsProvisioner
=============================================================================
