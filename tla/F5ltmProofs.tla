----------------------------- MODULE F5ltmProofs -----------------------------
(***************************************************************************)
(* F5ltm does what the engine supposes of a provisioner, in both of its      *)
(* modes and for all services and requests; its drafts are removed and its   *)
(* pools keep their definition, but for the failures the code cannot undo.   *)
(*                                                                          *)
(* The invariant says, for each call the goroutine may be about to make,     *)
(* what the calls before it have brought about: of the request, as long as   *)
(* none failed (Done), and of the other services, whose rules the draft must *)
(* not disturb (Held).                                                       *)
(***************************************************************************)
EXTENDS F5ltm, TLAPS

OnlyAdding == {"getVS", "getPool", "addPool", "readMembers", "members", "definePool",
               "destination", "addVS", "getPolicy", "rule"}
OnlyDeleting == {"deleteVS", "deletePool", "removeRule"}
OnlyVS == {"getVS", "destination", "addVS", "deleteVS"}
OnlyPolicy == {"getPolicy", "createDraft", "rule", "removeRule", "publish", "dropDraft"}
OnDraft == {"rule", "removeRule", "publish"}

\* The calls of each mode and of each action.
Place ==
  /\ at \in OnlyVS => mode = "vs"
  /\ at \in OnlyPolicy => mode = "policy"
  /\ at \notin {"select", "answer"} => mode # "unsupported"
  /\ at \in OnlyAdding => job.req.action = "add"
  /\ at \in OnlyDeleting => job.req.action = "delete"
  /\ job # Nil /\ mode = "unsupported" => job.err

\* What a call needs is there, and a draft differs from its policy in the rule of
\* the request's service only.
Held ==
  /\ at \in {"readMembers", "members", "definePool"} => pool[job.req.svc] # Nil
  /\ at = "destination" => vs[job.req.svc] # Nil
  /\ at \in OnDraft =>
       /\ draft[job.req.def.tls] # Nil
       /\ \A s \in Services \ {job.req.svc} :
            draft[job.req.def.tls][s] = rules[job.req.def.tls][s]

PoolDone ==
  /\ pool[job.req.svc] # Nil
  /\ pool[job.req.svc].members = job.req.def.targets

Rule == IF job.req.action = "add" THEN job.req.def.aliases ELSE Nil

AfterPoolCalls == {"definePool", "destination", "addVS", "getPolicy", "createDraft",
                   "rule", "publish", "dropDraft", "answer"}

\* What was done without error.
Done ==
  job # Nil /\ ~job.err =>
    /\ job.req.action = "add" /\ at \in AfterPoolCalls => PoolDone
    /\ job.req.action = "delete" /\ at \in {"dropDraft", "answer"} => pool[job.req.svc] = Nil
    /\ at = "publish" => draft[job.req.def.tls][job.req.svc] = Rule
    /\ at \in {"deletePool", "dropDraft", "answer"} =>
         IF mode = "policy" THEN rules[job.req.def.tls][job.req.svc] = Rule
         ELSE IF job.req.action = "delete" THEN vs[job.req.svc] = Nil
         ELSE /\ vs[job.req.svc] # Nil
              /\ LooksLike(vs[job.req.svc], Destination(job.req.def))

\* A draft is being worked on, or was abandoned.
Drafts ==
  \A t \in BOOLEAN : draft[t] # Nil =>
    \/ t \in abandoned
    \/ at \in OnDraft \cup {"dropDraft"} /\ t = job.req.def.tls

\* A pool has its definition, but between the two calls of an update; and so has the
\* one that was read.
Defined ==
  /\ \A s \in Services \ spoiled : pool[s] # Nil =>
       \/ pool[s].defined
       \/ at = "definePool" /\ s = job.req.svc
  /\ job # Nil /\ job.req.svc \notin spoiled => job.fetched
  /\ at \in {"getVS", "getPool", "addPool"} => job.fetched

\* What was answered is there until the next request for the service is taken up.
Told ==
  \A s \in Services : told[s] # Nil =>
    /\ job # Nil => s # job.req.svc
    /\ told[s].action = "add" => pool[s] # Nil

Inv == TypeOK /\ Place /\ Held /\ Done /\ Drafts /\ Defined /\ Told

-----------------------------------------------------------------------------
(* The ways a call leaves the job, and an object of the request's service. *)

LEMMA RequestFacts ==
  ASSUME NEW r \in Requests
  PROVE  /\ r.svc \in Services
         /\ r.action \in {"add", "delete"}
         /\ r.def.tls \in BOOLEAN
         /\ r.def.aliases # Nil
         /\ r.def.aliases \in {q.def.aliases : q \in Requests}
         /\ r.def.targets \in Targets
         /\ Destination(r.def) \in Destinations
         /\ Destination(r.def) # Nil
         /\ r # Nil
<1>1. Destination(r.def) \in Destinations
  BY DEF Destinations
<1> QED
  BY <1>1, RequestAssumption, NilAssumption DEF Targets

LEMMA JobFacts ==
  ASSUME Inv, at # "select"
  PROVE  /\ job # Nil /\ job \in Jobs
         /\ job.req \in Requests /\ job.err \in BOOLEAN /\ job.fetched \in BOOLEAN
         /\ svc = job.req.svc /\ svc \in Services
         /\ def = job.req.def /\ def.tls \in BOOLEAN
         /\ adding <=> job.req.action = "add"
         /\ job.req.action \in {"add", "delete"}
<1>1. job # Nil /\ job \in Jobs
  BY DEF Inv, TypeOK
<1>2. job.req \in Requests /\ job.err \in BOOLEAN /\ job.fetched \in BOOLEAN
  BY <1>1 DEF Jobs
<1> QED
  BY <1>1, <1>2, RequestFacts DEF svc, def, adding

\* The goroutine still works on the request.
Kept ==
  /\ job' \in Jobs /\ job' # Nil
  /\ job'.req = job.req

\* And leaves what the other services have alone.
OthersKept ==
  /\ Kept
  /\ UNCHANGED <<mode, told>>
  /\ \A s \in Services \ {job.req.svc} :
       /\ pool'[s] = pool[s] /\ vs'[s] = vs[s]
       /\ \A t \in BOOLEAN : rules'[t][s] = rules[t][s]

LEMMA GoesKept ==
  ASSUME Inv, at # "select", NEW next, Goes(next)
  PROVE  Kept /\ at' = next /\ job' = job
BY JobFacts DEF Goes, Kept

LEMMA FailsKept ==
  ASSUME Inv, at # "select", NEW next, Fails(next)
  PROVE  Kept /\ at' = next /\ job'.err /\ job'.fetched = job.fetched
<1>1. /\ job' \in Jobs /\ job'.req = job.req /\ job'.err
      /\ job'.fetched = job.fetched /\ at' = next
  BY JobFacts DEF Fails, Jobs
<1> QED
  BY <1>1, NilAssumption DEF Kept

LEMMA PoolValue ==
  /\ \A m \in Targets \cup {{}} : \A d \in BOOLEAN :
       [members |-> m, defined |-> d] \in Pools /\ [members |-> m, defined |-> d] # Nil
  /\ \A v \in Pools : v # Nil /\ v.members \in Targets \cup {{}} /\ v.defined \in BOOLEAN
<1>1. \A m \in Targets \cup {{}} : \A d \in BOOLEAN : [members |-> m, defined |-> d] \in Pools
  BY DEF Pools
<1>2. \A v \in Pools : v.members \in Targets \cup {{}} /\ v.defined \in BOOLEAN
  BY DEF Pools
<1> QED
  BY <1>1, <1>2, NilAssumption

\* A pool is set, or the call fails and it may be.
LEMMA SetPoolKept ==
  ASSUME Inv, at # "select", NEW new \in Pools \cup {Nil}, NEW next, NEW failed,
         SetPool(new, next, failed)
  PROVE  /\ Kept /\ job'.fetched = job.fetched
         /\ pool' \in [Services -> Pools \cup {Nil}]
         /\ \A s \in Services \ {svc} : pool'[s] = pool[s]
         /\ \/ at' = next /\ job' = job /\ pool'[svc] = new
            \/ at' = failed /\ job'.err /\ pool'[svc] \in {pool[svc], new}
<1>1. pool \in [Services -> Pools \cup {Nil}] /\ svc \in Services
  BY JobFacts DEF Inv, TypeOK
<1>2. CASE pool' = [pool EXCEPT ![svc] = new] /\ Goes(next)
  BY <1>1, <1>2, GoesKept
<1>3. CASE pool' \in {pool, [pool EXCEPT ![svc] = new]} /\ Fails(failed)
  BY <1>1, <1>3, FailsKept
<1> QED
  BY <1>2, <1>3 DEF SetPool

LEMMA SetVSKept ==
  ASSUME Inv, at # "select", NEW new \in Destinations \cup {Nil}, NEW next, SetVS(new, next)
  PROVE  /\ Kept /\ job'.fetched = job.fetched /\ at' = next
         /\ vs' \in [Services -> Destinations \cup {Nil}]
         /\ \A s \in Services \ {svc} : vs'[s] = vs[s]
         /\ \/ job' = job /\ vs'[svc] = new
            \/ job'.err
<1>1. vs \in [Services -> Destinations \cup {Nil}] /\ svc \in Services
  BY JobFacts DEF Inv, TypeOK
<1>2. CASE vs' = [vs EXCEPT ![svc] = new] /\ Goes(next)
  BY <1>1, <1>2, GoesKept
<1>3. CASE vs' \in {vs, [vs EXCEPT ![svc] = new]} /\ Fails(next)
  BY <1>1, <1>3, FailsKept
<1> QED
  BY <1>2, <1>3 DEF SetVS

\* The rule of the service is changed in the draft, or the call fails and it may be.
LEMMA SetRuleKept ==
  ASSUME Inv, at \in OnDraft, NEW new \in {r.def.aliases : r \in Requests} \cup {Nil},
         NEW failed, SetRule(new, failed)
  PROVE  /\ Kept /\ job'.fetched = job.fetched
         /\ draft' \in [BOOLEAN -> Policies \cup {Nil}]
         /\ draft'[def.tls] # Nil
         /\ \A s \in Services \ {svc} : draft'[def.tls][s] = draft[def.tls][s]
         /\ \A t \in BOOLEAN \ {def.tls} : draft'[t] = draft[t]
         /\ \/ at' = "publish" /\ job' = job /\ draft'[def.tls][svc] = new
            \/ at' = failed /\ job'.err
<1> USE DEF OnDraft
<1>1. draft \in [BOOLEAN -> Policies \cup {Nil}] /\ svc \in Services /\ def.tls \in BOOLEAN
  BY JobFacts DEF Inv, TypeOK
<1>2. draft[def.tls] \in Policies
  BY <1>1, JobFacts DEF Inv, Held
<1> DEFINE changed == [draft[def.tls] EXCEPT ![svc] = new]
<1>3. changed \in Policies /\ changed # Nil
  <2>1. changed \in Policies
    BY <1>1, <1>2 DEF Policies
  <2> QED
    BY <2>1, NilAssumption
<1>4. changed[svc] = new /\ \A s \in Services \ {svc} : changed[s] = draft[def.tls][s]
  BY <1>1, <1>2 DEF Policies
<1>5. [draft EXCEPT ![def.tls][svc] = new] = [draft EXCEPT ![def.tls] = changed]
  BY <1>1
<1> HIDE DEF changed
<1>6. draft[def.tls] # Nil
  BY <1>2, NilAssumption
<1>7. CASE draft' = [draft EXCEPT ![def.tls] = changed] /\ Goes("publish")
  BY <1>1, <1>3, <1>4, <1>7, GoesKept
<1>8. CASE draft' \in {draft, [draft EXCEPT ![def.tls] = changed]} /\ Fails(failed)
  BY <1>1, <1>3, <1>4, <1>6, <1>8, FailsKept
<1> QED
  BY <1>5, <1>7, <1>8 DEF SetRule

LEMMA InitInv == Init => Inv
<1>1. Init => TypeOK
  BY DEF Init, TypeOK, Calls, Policies
<1>2. Init => Place /\ Held /\ Done
  BY DEF Init, Place, Held, Done, OnlyVS, OnlyPolicy, OnlyAdding, OnlyDeleting, OnDraft
<1>3. Init => Drafts /\ Defined /\ Told
  BY DEF Init, Drafts, Defined, Told
<1> QED
  BY <1>1, <1>2, <1>3 DEF Inv

LEMMA TakeInv ==
  ASSUME Inv, NEW r \in Requests, Take(r)
  PROVE  Inv'
<1>1. job' \in Jobs /\ job'.req = r /\ job'.fetched
      /\ job'.err = (mode = "unsupported")
  BY DEF Take, Jobs
<1>2. job' # Nil /\ r.svc \in Services /\ r.action \in {"add", "delete"}
  BY <1>1, RequestFacts, NilAssumption
<1>3. at = "select" /\ job = Nil
      /\ UNCHANGED <<mode, pool, vs, rules, draft, abandoned, spoiled>>
  BY DEF Take, device, Inv, TypeOK
<1>4. \A s \in Services : told'[s] # Nil => s # r.svc /\ told'[s] = told[s]
  BY <1>2 DEF Take, Inv, TypeOK
<1>5. TypeOK'
  BY <1>1, <1>2 DEF Take, device, history, handleUpdate, handleDelete, Inv, TypeOK,
     Calls
<1>6. Place'
  BY <1>1, <1>2 DEF Take, device, history, handleUpdate, handleDelete, Inv, Place,
     OnlyVS, OnlyPolicy, OnlyAdding, OnlyDeleting
<1>7. Held'
  BY <1>1, <1>2 DEF Take, device, history, handleUpdate, handleDelete, Inv, TypeOK,
     Held, Place, OnDraft, OnlyVS, OnlyPolicy
<1>8. Done'
  BY <1>1, <1>2 DEF Take, device, history, handleUpdate, handleDelete, Inv, TypeOK,
     Place, Held, Done, PoolDone, Rule, AfterPoolCalls, OnlyAdding, OnlyDeleting,
     OnlyVS, OnlyPolicy, OnDraft
<1>9. Drafts'
  BY <1>1, <1>2 DEF Take, device, history, handleUpdate, handleDelete, Inv, TypeOK,
     Place, Drafts, OnDraft, OnlyVS, OnlyPolicy
<1>10. Defined'
  BY <1>1, <1>3 DEF Inv, Defined
<1>11. Told'
  BY <1>1, <1>3, <1>4 DEF Inv, Told
<1> QED
  BY <1>5, <1>6, <1>7, <1>8, <1>9, <1>10, <1>11 DEF Inv

LEMMA AnswerInv ==
  ASSUME Inv, Answer
  PROVE  Inv'
<1>1. /\ job # Nil /\ job \in Jobs /\ job.req \in Requests /\ job.err \in BOOLEAN
      /\ svc = job.req.svc /\ svc \in Services /\ def = job.req.def /\ def.tls \in BOOLEAN
      /\ adding <=> job.req.action = "add"
      /\ job.req.action \in {"add", "delete"}
  BY JobFacts DEF Answer
<1>2. at = "answer" /\ at' = "select" /\ job' = Nil
      /\ UNCHANGED <<mode, pool, vs, rules, draft, abandoned, spoiled>>
  BY DEF Answer, device
<1>3. \A s \in Services : told'[s] # Nil =>
         \/ told'[s] = told[s]
         \/ ~job.err /\ s = svc /\ told'[s] = job.req
  BY <1>1 DEF Answer, Inv, TypeOK
<1>4. TypeOK'
  BY <1>1, <1>2, <1>3 DEF Answer, device, history, Inv, TypeOK, Calls
<1>5. Place'
  BY <1>1, <1>2, <1>3 DEF Answer, device, history, Inv, Place, OnlyVS, OnlyPolicy,
     OnlyAdding, OnlyDeleting
<1>6. Held'
  BY <1>1, <1>2, <1>3 DEF Answer, device, history, Inv, TypeOK, Held, Place, OnDraft,
     OnlyVS, OnlyPolicy
<1>7. Done'
  BY <1>1, <1>2, <1>3 DEF Answer, device, history, Inv, TypeOK, Place, Held, Done,
     PoolDone, Rule, AfterPoolCalls, OnlyAdding, OnlyDeleting, OnlyVS, OnlyPolicy,
     OnDraft
<1>8. Drafts'
  BY <1>2 DEF Inv, Drafts, OnDraft
<1>9. Defined'
  BY <1>2 DEF Inv, Defined
<1>10. Told'
  BY <1>1, <1>2, <1>3 DEF Inv, Told, Done, PoolDone, AfterPoolCalls
<1> QED
  BY <1>4, <1>5, <1>6, <1>7, <1>8, <1>9, <1>10 DEF Inv

LEMMA RestartInv ==
  ASSUME Inv, Restart
  PROVE  Inv'
<1>1. at \in {"members", "definePool"} => svc \in Services /\ svc = job.req.svc
  BY JobFacts
<1>2. at' = "select" /\ job' = Nil /\ UNCHANGED <<mode, pool, vs, rules, draft, told>>
  BY DEF Restart, device
<1>3. spoiled \subseteq spoiled' /\ (at = "definePool" => job.req.svc \in spoiled')
  BY <1>1 DEF Restart
<1>4. TypeOK'
  BY <1>1, <1>2, <1>3 DEF Restart, device, history, Inv, TypeOK, Calls
<1>5. Place'
  BY <1>1, <1>2, <1>3 DEF Restart, device, history, Inv, Place, OnlyVS, OnlyPolicy,
     OnlyAdding, OnlyDeleting
<1>6. Held'
  BY <1>1, <1>2, <1>3 DEF Restart, device, history, Inv, TypeOK, Held, Place, OnDraft,
     OnlyVS, OnlyPolicy
<1>7. Done'
  BY <1>1, <1>2, <1>3 DEF Restart, device, history, Inv, TypeOK, Place, Held, Done,
     PoolDone, Rule, AfterPoolCalls, OnlyAdding, OnlyDeleting, OnlyVS, OnlyPolicy,
     OnDraft
<1>8. Drafts'
  BY <1>2 DEF Restart, Inv, Drafts
<1>9. Defined'
  BY <1>2, <1>3 DEF Inv, Defined
<1>10. Told'
  BY <1>1, <1>2, <1>3 DEF Restart, device, history, Inv, TypeOK, Told
<1> QED
  BY <1>4, <1>5, <1>6, <1>7, <1>8, <1>9, <1>10 DEF Inv

LEMMA GetPoolInv ==
  ASSUME Inv, GetPool
  PROVE  Inv' /\ OthersKept
<1>1. /\ job # Nil /\ job \in Jobs /\ job.req \in Requests /\ job.err \in BOOLEAN
      /\ svc = job.req.svc /\ svc \in Services /\ def = job.req.def /\ def.tls \in BOOLEAN
      /\ adding <=> job.req.action = "add"
      /\ job.req.action \in {"add", "delete"}
  BY JobFacts DEF GetPool
<1>2. /\ Kept
      /\ \/ at' = "addPool" /\ job' = job /\ pool[svc] = Nil
         \/ /\ at' = "readMembers" /\ pool[svc] # Nil
            /\ job'.err = job.err /\ job'.fetched = pool[svc].defined
         \/ at' = "answer" /\ job'.err /\ job'.fetched = job.fetched
  <2>1. CASE pool[svc] # Nil /\ at' = "readMembers" /\ job' = [job EXCEPT !.fetched = pool[svc].defined]
    <3>1. pool[svc] \in Pools
      BY <1>1, <2>1 DEF Inv, TypeOK
    <3>2. pool[svc].defined \in BOOLEAN
      BY <3>1, PoolValue
    <3>3. /\ job' \in Jobs /\ job'.req = job.req /\ job'.err = job.err
          /\ job'.fetched = pool[svc].defined
      BY <1>1, <2>1, <3>2 DEF Jobs
    <3> QED
      BY <2>1, <3>3, NilAssumption DEF Kept
  <2> QED
    BY <2>1, GoesKept, FailsKept DEF GetPool
<1>3. TypeOK'
  BY <1>1, <1>2 DEF GetPool, device, history, Kept, Inv, TypeOK, Calls
<1>4. Place'
  BY <1>1, <1>2 DEF GetPool, device, history, Kept, Inv, Place, OnlyVS, OnlyPolicy,
     OnlyAdding, OnlyDeleting
<1>5. Held'
  BY <1>1, <1>2 DEF GetPool, device, history, Kept, Inv, TypeOK, Held, Place, OnDraft,
     OnlyVS, OnlyPolicy
<1>6. Done'
  BY <1>1, <1>2 DEF GetPool, device, history, Kept, Inv, TypeOK, Place, Held, Done,
     PoolDone, Rule, AfterPoolCalls, OnlyAdding, OnlyDeleting, OnlyVS, OnlyPolicy,
     OnDraft
<1>7. Drafts'
  BY <1>1, <1>2 DEF GetPool, device, history, Kept, Inv, TypeOK, Place, Drafts,
     OnDraft, OnlyVS, OnlyPolicy
<1>8. Defined'
  BY <1>1, <1>2 DEF GetPool, device, history, Kept, Inv, TypeOK, Defined, Place
<1>9. Told'
  BY <1>1, <1>2 DEF GetPool, device, history, Kept, Inv, TypeOK, Told
<1>10. OthersKept
  BY <1>1, <1>2 DEF GetPool, device, history, OthersKept
<1> QED
  BY <1>3, <1>4, <1>5, <1>6, <1>7, <1>8, <1>9, <1>10 DEF Inv

LEMMA AddPoolInv ==
  ASSUME Inv, AddPool
  PROVE  Inv' /\ OthersKept
<1>1. /\ job # Nil /\ job \in Jobs /\ job.req \in Requests /\ job.err \in BOOLEAN
      /\ svc = job.req.svc /\ svc \in Services /\ def = job.req.def /\ def.tls \in BOOLEAN
      /\ adding <=> job.req.action = "add"
      /\ job.req.action \in {"add", "delete"}
  BY JobFacts DEF AddPool
<1>2. [members |-> {}, defined |-> TRUE] \in Pools /\ [members |-> {}, defined |-> TRUE] # Nil
  BY PoolValue
<1>3. /\ Kept /\ job'.fetched = job.fetched
      /\ pool' \in [Services -> Pools \cup {Nil}]
      /\ \A s \in Services \ {svc} : pool'[s] = pool[s]
      /\ \/ at' = "members" /\ job' = job /\ pool'[svc] # Nil
         \/ at' = "answer" /\ job'.err
      /\ \/ pool'[svc] # Nil => pool'[svc].defined
         \/ pool'[svc] = pool[svc] /\ spoiled' = spoiled
  BY <1>1, <1>2, SetPoolKept, FailsKept DEF AddPool, Inv, TypeOK
<1>4. TypeOK'
  BY <1>1, <1>2, <1>3 DEF AddPool, device, history, Kept, Inv, TypeOK, Calls
<1>5. Place'
  BY <1>1, <1>2, <1>3 DEF AddPool, device, history, Kept, Inv, Place, OnlyVS,
     OnlyPolicy, OnlyAdding, OnlyDeleting
<1>6. Held'
  BY <1>1, <1>2, <1>3 DEF AddPool, device, history, Kept, Inv, TypeOK, Held, Place,
     OnDraft, OnlyVS, OnlyPolicy
<1>7. Done'
  BY <1>1, <1>2, <1>3 DEF AddPool, device, history, Kept, Inv, TypeOK, Place, Held,
     Done, PoolDone, Rule, AfterPoolCalls, OnlyAdding, OnlyDeleting, OnlyVS,
     OnlyPolicy, OnDraft
<1>8. Drafts'
  BY <1>1, <1>2, <1>3 DEF AddPool, device, history, Kept, Inv, TypeOK, Place, Drafts,
     OnDraft, OnlyVS, OnlyPolicy
<1>9. Defined'
  BY <1>1, <1>2, <1>3 DEF AddPool, device, history, Kept, Inv, TypeOK, Defined, Place
<1>10. Told'
  BY <1>1, <1>2, <1>3 DEF AddPool, device, history, Kept, Inv, TypeOK, Told
<1>11. OthersKept
  BY <1>1, <1>2, <1>3 DEF AddPool, device, history, OthersKept
<1> QED
  BY <1>4, <1>5, <1>6, <1>7, <1>8, <1>9, <1>10, <1>11 DEF Inv

LEMMA ReadMembersInv ==
  ASSUME Inv, ReadMembers
  PROVE  Inv' /\ OthersKept
<1>1. /\ job # Nil /\ job \in Jobs /\ job.req \in Requests /\ job.err \in BOOLEAN
      /\ svc = job.req.svc /\ svc \in Services /\ def = job.req.def /\ def.tls \in BOOLEAN
      /\ adding <=> job.req.action = "add"
      /\ job.req.action \in {"add", "delete"}
  BY JobFacts DEF ReadMembers
<1>2. /\ AfterPool \in {"getPolicy", "destination", "addVS"}
      /\ AfterPool = "getPolicy" => mode = "policy"
      /\ AfterPool \in {"destination", "addVS"} => mode = "vs"
      /\ AfterPool = "destination" => vs[svc] # Nil
  BY DEF AfterPool, Inv, TypeOK, Place, ReadMembers, OnlyVS
<1>3. /\ Kept /\ job'.fetched = job.fetched
      /\ \/ at' = AfterPool /\ job' = job /\ pool[svc].members = def.targets
         \/ at' = "members" /\ job' = job
         \/ at' = "answer" /\ job'.err
  BY GoesKept, FailsKept DEF ReadMembers
<1>4. TypeOK'
  BY <1>1, <1>2, <1>3 DEF ReadMembers, device, history, Kept, Inv, TypeOK, Calls
<1>5. Place'
  BY <1>1, <1>2, <1>3 DEF ReadMembers, device, history, Kept, Inv, Place, OnlyVS,
     OnlyPolicy, OnlyAdding, OnlyDeleting
<1>6. Held'
  BY <1>1, <1>2, <1>3 DEF ReadMembers, device, history, Kept, Inv, TypeOK, Held,
     Place, OnDraft, OnlyVS, OnlyPolicy
<1>7. Done'
  BY <1>1, <1>2, <1>3 DEF ReadMembers, device, history, Kept, Inv, TypeOK, Place,
     Held, Done, PoolDone, Rule, AfterPoolCalls, OnlyAdding, OnlyDeleting, OnlyVS,
     OnlyPolicy, OnDraft
<1>8. Drafts'
  BY <1>1, <1>2, <1>3 DEF ReadMembers, device, history, Kept, Inv, TypeOK, Place,
     Drafts, OnDraft, OnlyVS, OnlyPolicy
<1>9. Defined'
  BY <1>1, <1>2, <1>3 DEF ReadMembers, device, history, Kept, Inv, TypeOK, Defined,
     Place
<1>10. Told'
  BY <1>1, <1>2, <1>3 DEF ReadMembers, device, history, Kept, Inv, TypeOK, Told
<1>11. OthersKept
  BY <1>1, <1>2, <1>3 DEF ReadMembers, device, history, OthersKept
<1> QED
  BY <1>4, <1>5, <1>6, <1>7, <1>8, <1>9, <1>10, <1>11 DEF Inv

LEMMA UpdatePoolMembersInv ==
  ASSUME Inv, UpdatePoolMembers
  PROVE  Inv' /\ OthersKept
<1>1. /\ job # Nil /\ job \in Jobs /\ job.req \in Requests /\ job.err \in BOOLEAN
      /\ svc = job.req.svc /\ svc \in Services /\ def = job.req.def /\ def.tls \in BOOLEAN
      /\ adding <=> job.req.action = "add"
      /\ job.req.action \in {"add", "delete"}
  BY JobFacts DEF UpdatePoolMembers
<1>2. [members |-> def.targets, defined |-> FALSE] \in Pools
      /\ [members |-> def.targets, defined |-> FALSE] # Nil
  BY <1>1, PoolValue, RequestFacts
<1>3. /\ Kept /\ job'.fetched = job.fetched
      /\ pool' \in [Services -> Pools \cup {Nil}] /\ pool'[svc] # Nil
      /\ \A s \in Services \ {svc} : pool'[s] = pool[s]
      /\ \/ at' = "definePool" /\ job' = job /\ pool'[svc].members = def.targets
         \/ at' = "answer" /\ job'.err
  BY <1>1, <1>2, SetPoolKept DEF UpdatePoolMembers, Inv, Held
<1>4. TypeOK'
  BY <1>1, <1>2, <1>3 DEF UpdatePoolMembers, device, history, Kept, Inv, TypeOK, Calls
<1>5. Place'
  BY <1>1, <1>2, <1>3 DEF UpdatePoolMembers, device, history, Kept, Inv, Place,
     OnlyVS, OnlyPolicy, OnlyAdding, OnlyDeleting
<1>6. Held'
  BY <1>1, <1>2, <1>3 DEF UpdatePoolMembers, device, history, Kept, Inv, TypeOK, Held,
     Place, OnDraft, OnlyVS, OnlyPolicy
<1>7. Done'
  BY <1>1, <1>2, <1>3 DEF UpdatePoolMembers, device, history, Kept, Inv, TypeOK,
     Place, Held, Done, PoolDone, Rule, AfterPoolCalls, OnlyAdding, OnlyDeleting,
     OnlyVS, OnlyPolicy, OnDraft
<1>8. Drafts'
  BY <1>1, <1>2, <1>3 DEF UpdatePoolMembers, device, history, Kept, Inv, TypeOK,
     Place, Drafts, OnDraft, OnlyVS, OnlyPolicy
<1>9. Defined'
  BY <1>1, <1>2, <1>3 DEF UpdatePoolMembers, device, history, Kept, Inv, TypeOK,
     Defined, Place
<1>10. Told'
  BY <1>1, <1>2, <1>3 DEF UpdatePoolMembers, device, history, Kept, Inv, TypeOK, Told
<1>11. OthersKept
  BY <1>1, <1>2, <1>3 DEF UpdatePoolMembers, device, history, OthersKept
<1> QED
  BY <1>4, <1>5, <1>6, <1>7, <1>8, <1>9, <1>10, <1>11 DEF Inv

LEMMA ModifyPoolInv ==
  ASSUME Inv, ModifyPool
  PROVE  Inv' /\ OthersKept
<1>1. /\ job # Nil /\ job \in Jobs /\ job.req \in Requests /\ job.err \in BOOLEAN
      /\ svc = job.req.svc /\ svc \in Services /\ def = job.req.def /\ def.tls \in BOOLEAN
      /\ adding <=> job.req.action = "add"
      /\ job.req.action \in {"add", "delete"}
  BY JobFacts DEF ModifyPool
<1>2. /\ AfterPool \in {"getPolicy", "destination", "addVS"}
      /\ AfterPool = "getPolicy" => mode = "policy"
      /\ AfterPool \in {"destination", "addVS"} => mode = "vs"
      /\ AfterPool = "destination" => vs[svc] # Nil
  BY DEF AfterPool, Inv, TypeOK, Place, ModifyPool
<1>3. pool[svc] \in Pools /\ pool[svc] # Nil
  BY <1>1 DEF ModifyPool, Inv, TypeOK, Held
<1>4. [pool[svc] EXCEPT !.defined = job.fetched] = [members |-> pool[svc].members, defined |-> job.fetched]
  BY <1>3 DEF Pools
<1>5. [pool[svc] EXCEPT !.defined = job.fetched] \in Pools
      /\ [pool[svc] EXCEPT !.defined = job.fetched] # Nil
  BY <1>1, <1>3, <1>4, JobFacts, PoolValue DEF ModifyPool
<1>6. /\ Kept /\ job'.fetched = job.fetched
      /\ pool' \in [Services -> Pools \cup {Nil}] /\ pool'[svc] # Nil
      /\ \A s \in Services \ {svc} : pool'[s] = pool[s]
      /\ \/ /\ at' = AfterPool /\ job' = job /\ pool'[svc].members = pool[svc].members
            /\ pool'[svc].defined = job.fetched
         \/ at' = "answer" /\ job'.err
  BY <1>1, <1>3, <1>4, <1>5, SetPoolKept DEF ModifyPool
<1>7. TypeOK'
  BY <1>1, <1>2, <1>3, <1>4, <1>5, <1>6 DEF ModifyPool, device, history, Kept, Inv,
     TypeOK, Calls
<1>8. Place'
  BY <1>1, <1>2, <1>3, <1>4, <1>5, <1>6 DEF ModifyPool, device, history, Kept, Inv,
     Place, OnlyVS, OnlyPolicy, OnlyAdding, OnlyDeleting
<1>9. Held'
  BY <1>1, <1>2, <1>3, <1>4, <1>5, <1>6 DEF ModifyPool, device, history, Kept, Inv,
     TypeOK, Held, Place, OnDraft, OnlyVS, OnlyPolicy
<1>10. Done'
  BY <1>1, <1>2, <1>3, <1>4, <1>5, <1>6 DEF ModifyPool, device, history, Kept, Inv,
     TypeOK, Place, Held, Done, PoolDone, Rule, AfterPoolCalls, OnlyAdding,
     OnlyDeleting, OnlyVS, OnlyPolicy, OnDraft
<1>11. Drafts'
  BY <1>1, <1>2, <1>3, <1>4, <1>5, <1>6 DEF ModifyPool, device, history, Kept, Inv,
     TypeOK, Place, Drafts, OnDraft, OnlyVS, OnlyPolicy
<1>12. Defined'
  BY <1>1, <1>2, <1>3, <1>4, <1>5, <1>6 DEF ModifyPool, device, history, Kept, Inv,
     TypeOK, Defined, Place
<1>13. Told'
  BY <1>1, <1>2, <1>3, <1>4, <1>5, <1>6 DEF ModifyPool, device, history, Kept, Inv,
     TypeOK, Told
<1>14. OthersKept
  BY <1>1, <1>2, <1>3, <1>4, <1>5, <1>6 DEF ModifyPool, device, history, OthersKept
<1> QED
  BY <1>7, <1>8, <1>9, <1>10, <1>11, <1>12, <1>13, <1>14 DEF Inv

LEMMA DeletePoolInv ==
  ASSUME Inv, DeletePool
  PROVE  Inv' /\ OthersKept
<1>1. /\ job # Nil /\ job \in Jobs /\ job.req \in Requests /\ job.err \in BOOLEAN
      /\ svc = job.req.svc /\ svc \in Services /\ def = job.req.def /\ def.tls \in BOOLEAN
      /\ adding <=> job.req.action = "add"
      /\ job.req.action \in {"add", "delete"}
  BY JobFacts DEF DeletePool
<1>2. /\ Kept /\ job'.fetched = job.fetched
      /\ pool' \in [Services -> Pools \cup {Nil}]
      /\ \A s \in Services \ {svc} : pool'[s] = pool[s]
      /\ at' = IF mode = "policy" THEN "dropDraft" ELSE "answer"
      /\ pool'[svc] \in {pool[svc], Nil}
      /\ \/ job' = job /\ pool'[svc] = Nil
         \/ job'.err
  BY <1>1, SetPoolKept, FailsKept DEF DeletePool, Inv, TypeOK
<1>3. TypeOK'
  BY <1>1, <1>2 DEF DeletePool, device, history, Kept, Inv, TypeOK, Calls
<1>4. Place'
  BY <1>1, <1>2 DEF DeletePool, device, history, Kept, Inv, Place, OnlyVS, OnlyPolicy,
     OnlyAdding, OnlyDeleting
<1>5. Held'
  BY <1>1, <1>2 DEF DeletePool, device, history, Kept, Inv, TypeOK, Held, Place,
     OnDraft, OnlyVS, OnlyPolicy
<1>6. Done'
  BY <1>1, <1>2 DEF DeletePool, device, history, Kept, Inv, TypeOK, Place, Held, Done,
     PoolDone, Rule, AfterPoolCalls, OnlyAdding, OnlyDeleting, OnlyVS, OnlyPolicy,
     OnDraft
<1>7. Drafts'
  BY <1>1, <1>2 DEF DeletePool, device, history, Kept, Inv, TypeOK, Place, Drafts,
     OnDraft, OnlyVS, OnlyPolicy
<1>8. Defined'
  BY <1>1, <1>2 DEF DeletePool, device, history, Kept, Inv, TypeOK, Defined, Place
<1>9. Told'
  BY <1>1, <1>2 DEF DeletePool, device, history, Kept, Inv, TypeOK, Told
<1>10. OthersKept
  BY <1>1, <1>2 DEF DeletePool, device, history, OthersKept
<1> QED
  BY <1>3, <1>4, <1>5, <1>6, <1>7, <1>8, <1>9, <1>10 DEF Inv

LEMMA GetVSInv ==
  ASSUME Inv, GetVS
  PROVE  Inv' /\ OthersKept
<1>1. /\ job # Nil /\ job \in Jobs /\ job.req \in Requests /\ job.err \in BOOLEAN
      /\ svc = job.req.svc /\ svc \in Services /\ def = job.req.def /\ def.tls \in BOOLEAN
      /\ adding <=> job.req.action = "add"
      /\ job.req.action \in {"add", "delete"}
  BY JobFacts DEF GetVS
<1>2. /\ Kept /\ job'.fetched = job.fetched
      /\ \/ at' \in {"getPool", "addPool"} /\ job' = job
         \/ at' = "answer" /\ job'.err
  BY GoesKept, FailsKept DEF GetVS
<1>3. TypeOK'
  BY <1>1, <1>2 DEF GetVS, device, history, Kept, Inv, TypeOK, Calls
<1>4. Place'
  BY <1>1, <1>2 DEF GetVS, device, history, Kept, Inv, Place, OnlyVS, OnlyPolicy,
     OnlyAdding, OnlyDeleting
<1>5. Held'
  BY <1>1, <1>2 DEF GetVS, device, history, Kept, Inv, TypeOK, Held, Place, OnDraft,
     OnlyVS, OnlyPolicy
<1>6. Done'
  BY <1>1, <1>2 DEF GetVS, device, history, Kept, Inv, TypeOK, Place, Held, Done,
     PoolDone, Rule, AfterPoolCalls, OnlyAdding, OnlyDeleting, OnlyVS, OnlyPolicy,
     OnDraft
<1>7. Drafts'
  BY <1>1, <1>2 DEF GetVS, device, history, Kept, Inv, TypeOK, Place, Drafts, OnDraft,
     OnlyVS, OnlyPolicy
<1>8. Defined'
  BY <1>1, <1>2 DEF GetVS, device, history, Kept, Inv, TypeOK, Defined, Place
<1>9. Told'
  BY <1>1, <1>2 DEF GetVS, device, history, Kept, Inv, TypeOK, Told
<1>10. OthersKept
  BY <1>1, <1>2 DEF GetVS, device, history, OthersKept
<1> QED
  BY <1>3, <1>4, <1>5, <1>6, <1>7, <1>8, <1>9, <1>10 DEF Inv

LEMMA ModifyVSInv ==
  ASSUME Inv, ModifyVS
  PROVE  Inv' /\ OthersKept
<1>1. /\ job # Nil /\ job \in Jobs /\ job.req \in Requests /\ job.err \in BOOLEAN
      /\ svc = job.req.svc /\ svc \in Services /\ def = job.req.def /\ def.tls \in BOOLEAN
      /\ adding <=> job.req.action = "add"
      /\ job.req.action \in {"add", "delete"}
  BY JobFacts DEF ModifyVS
<1>2. /\ Kept /\ job'.fetched = job.fetched /\ at' = "answer"
      /\ vs' \in [Services -> Destinations \cup {Nil}]
      /\ \A s \in Services \ {svc} : vs'[s] = vs[s]
      /\ \/ job' = job /\ vs'[svc] # Nil /\ LooksLike(vs'[svc], Destination(def))
         \/ job'.err
  <2>1. CASE LooksLike(vs[svc], Destination(def)) /\ Goes("answer") /\ UNCHANGED vs
    BY <1>1, <2>1, GoesKept DEF ModifyVS, Inv, TypeOK, Held
  <2>2. CASE SetVS(Destination(def), "answer")
    BY <1>1, <2>2, RequestFacts, SetVSKept DEF ModifyVS, LooksLike
  <2> QED
    BY <2>1, <2>2 DEF ModifyVS
<1>3. TypeOK'
  BY <1>1, <1>2 DEF ModifyVS, device, history, Kept, Inv, TypeOK, Calls
<1>4. Place'
  BY <1>1, <1>2 DEF ModifyVS, device, history, Kept, Inv, Place, OnlyVS, OnlyPolicy,
     OnlyAdding, OnlyDeleting
<1>5. Held'
  BY <1>1, <1>2 DEF ModifyVS, device, history, Kept, Inv, TypeOK, Held, Place,
     OnDraft, OnlyVS, OnlyPolicy
<1>6. Done'
  BY <1>1, <1>2 DEF ModifyVS, device, history, Kept, Inv, TypeOK, Place, Held, Done,
     PoolDone, Rule, AfterPoolCalls, OnlyAdding, OnlyDeleting, OnlyVS, OnlyPolicy,
     OnDraft
<1>7. Drafts'
  BY <1>1, <1>2 DEF ModifyVS, device, history, Kept, Inv, TypeOK, Place, Drafts,
     OnDraft, OnlyVS, OnlyPolicy
<1>8. Defined'
  BY <1>1, <1>2 DEF ModifyVS, device, history, Kept, Inv, TypeOK, Defined, Place
<1>9. Told'
  BY <1>1, <1>2 DEF ModifyVS, device, history, Kept, Inv, TypeOK, Told
<1>10. OthersKept
  BY <1>1, <1>2 DEF ModifyVS, device, history, OthersKept
<1> QED
  BY <1>3, <1>4, <1>5, <1>6, <1>7, <1>8, <1>9, <1>10 DEF Inv

LEMMA AddVSInv ==
  ASSUME Inv, AddVS
  PROVE  Inv' /\ OthersKept
<1>1. /\ job # Nil /\ job \in Jobs /\ job.req \in Requests /\ job.err \in BOOLEAN
      /\ svc = job.req.svc /\ svc \in Services /\ def = job.req.def /\ def.tls \in BOOLEAN
      /\ adding <=> job.req.action = "add"
      /\ job.req.action \in {"add", "delete"}
  BY JobFacts DEF AddVS
<1>2. /\ Kept /\ job'.fetched = job.fetched /\ at' = "answer"
      /\ vs' \in [Services -> Destinations \cup {Nil}]
      /\ \A s \in Services \ {svc} : vs'[s] = vs[s]
      /\ \/ job' = job /\ vs'[svc] # Nil /\ LooksLike(vs'[svc], Destination(def))
         \/ job'.err
  BY <1>1, RequestFacts, SetVSKept DEF AddVS, LooksLike
<1>3. TypeOK'
  BY <1>1, <1>2 DEF AddVS, device, history, Kept, Inv, TypeOK, Calls
<1>4. Place'
  BY <1>1, <1>2 DEF AddVS, device, history, Kept, Inv, Place, OnlyVS, OnlyPolicy,
     OnlyAdding, OnlyDeleting
<1>5. Held'
  BY <1>1, <1>2 DEF AddVS, device, history, Kept, Inv, TypeOK, Held, Place, OnDraft,
     OnlyVS, OnlyPolicy
<1>6. Done'
  BY <1>1, <1>2 DEF AddVS, device, history, Kept, Inv, TypeOK, Place, Held, Done,
     PoolDone, Rule, AfterPoolCalls, OnlyAdding, OnlyDeleting, OnlyVS, OnlyPolicy,
     OnDraft
<1>7. Drafts'
  BY <1>1, <1>2 DEF AddVS, device, history, Kept, Inv, TypeOK, Place, Drafts, OnDraft,
     OnlyVS, OnlyPolicy
<1>8. Defined'
  BY <1>1, <1>2 DEF AddVS, device, history, Kept, Inv, TypeOK, Defined, Place
<1>9. Told'
  BY <1>1, <1>2 DEF AddVS, device, history, Kept, Inv, TypeOK, Told
<1>10. OthersKept
  BY <1>1, <1>2 DEF AddVS, device, history, OthersKept
<1> QED
  BY <1>3, <1>4, <1>5, <1>6, <1>7, <1>8, <1>9, <1>10 DEF Inv

LEMMA DeleteVSInv ==
  ASSUME Inv, DeleteVS
  PROVE  Inv' /\ OthersKept
<1>1. /\ job # Nil /\ job \in Jobs /\ job.req \in Requests /\ job.err \in BOOLEAN
      /\ svc = job.req.svc /\ svc \in Services /\ def = job.req.def /\ def.tls \in BOOLEAN
      /\ adding <=> job.req.action = "add"
      /\ job.req.action \in {"add", "delete"}
  BY JobFacts DEF DeleteVS
<1>2. /\ Kept /\ job'.fetched = job.fetched /\ at' = "deletePool"
      /\ vs' \in [Services -> Destinations \cup {Nil}]
      /\ \A s \in Services \ {svc} : vs'[s] = vs[s]
      /\ \/ job' = job /\ vs'[svc] = Nil
         \/ job'.err
  BY <1>1, SetVSKept, FailsKept DEF DeleteVS, Inv, TypeOK
<1>3. TypeOK'
  BY <1>1, <1>2 DEF DeleteVS, device, history, Kept, Inv, TypeOK, Calls
<1>4. Place'
  BY <1>1, <1>2 DEF DeleteVS, device, history, Kept, Inv, Place, OnlyVS, OnlyPolicy,
     OnlyAdding, OnlyDeleting
<1>5. Held'
  BY <1>1, <1>2 DEF DeleteVS, device, history, Kept, Inv, TypeOK, Held, Place,
     OnDraft, OnlyVS, OnlyPolicy
<1>6. Done'
  BY <1>1, <1>2 DEF DeleteVS, device, history, Kept, Inv, TypeOK, Place, Held, Done,
     PoolDone, Rule, AfterPoolCalls, OnlyAdding, OnlyDeleting, OnlyVS, OnlyPolicy,
     OnDraft
<1>7. Drafts'
  BY <1>1, <1>2 DEF DeleteVS, device, history, Kept, Inv, TypeOK, Place, Drafts,
     OnDraft, OnlyVS, OnlyPolicy
<1>8. Defined'
  BY <1>1, <1>2 DEF DeleteVS, device, history, Kept, Inv, TypeOK, Defined, Place
<1>9. Told'
  BY <1>1, <1>2 DEF DeleteVS, device, history, Kept, Inv, TypeOK, Told
<1>10. OthersKept
  BY <1>1, <1>2 DEF DeleteVS, device, history, OthersKept
<1> QED
  BY <1>3, <1>4, <1>5, <1>6, <1>7, <1>8, <1>9, <1>10 DEF Inv

LEMMA policyNeedsUpdateInv ==
  ASSUME Inv, policyNeedsUpdate
  PROVE  Inv' /\ OthersKept
<1>1. /\ job # Nil /\ job \in Jobs /\ job.req \in Requests /\ job.err \in BOOLEAN
      /\ svc = job.req.svc /\ svc \in Services /\ def = job.req.def /\ def.tls \in BOOLEAN
      /\ adding <=> job.req.action = "add"
      /\ job.req.action \in {"add", "delete"}
  BY JobFacts DEF policyNeedsUpdate
<1>2. /\ Kept /\ job'.fetched = job.fetched
      /\ \/ at' = "answer" /\ job' = job /\ rules[def.tls][svc] = def.aliases
         \/ at' = "createDraft" /\ job' = job
         \/ at' = "answer" /\ job'.err
  BY GoesKept, FailsKept DEF policyNeedsUpdate
<1>3. TypeOK'
  BY <1>1, <1>2 DEF policyNeedsUpdate, device, history, Kept, Inv, TypeOK, Calls
<1>4. Place'
  BY <1>1, <1>2 DEF policyNeedsUpdate, device, history, Kept, Inv, Place, OnlyVS,
     OnlyPolicy, OnlyAdding, OnlyDeleting
<1>5. Held'
  BY <1>1, <1>2 DEF policyNeedsUpdate, device, history, Kept, Inv, TypeOK, Held,
     Place, OnDraft, OnlyVS, OnlyPolicy
<1>6. Done'
  BY <1>1, <1>2 DEF policyNeedsUpdate, device, history, Kept, Inv, TypeOK, Place,
     Held, Done, PoolDone, Rule, AfterPoolCalls, OnlyAdding, OnlyDeleting, OnlyVS,
     OnlyPolicy, OnDraft
<1>7. Drafts'
  BY <1>1, <1>2 DEF policyNeedsUpdate, device, history, Kept, Inv, TypeOK, Place,
     Drafts, OnDraft, OnlyVS, OnlyPolicy
<1>8. Defined'
  BY <1>1, <1>2 DEF policyNeedsUpdate, device, history, Kept, Inv, TypeOK, Defined,
     Place
<1>9. Told'
  BY <1>1, <1>2 DEF policyNeedsUpdate, device, history, Kept, Inv, TypeOK, Told
<1>10. OthersKept
  BY <1>1, <1>2 DEF policyNeedsUpdate, device, history, OthersKept
<1> QED
  BY <1>3, <1>4, <1>5, <1>6, <1>7, <1>8, <1>9, <1>10 DEF Inv

LEMMA CreateDraftInv ==
  ASSUME Inv, CreateDraft
  PROVE  Inv' /\ OthersKept
<1>1. /\ job # Nil /\ job \in Jobs /\ job.req \in Requests /\ job.err \in BOOLEAN
      /\ svc = job.req.svc /\ svc \in Services /\ def = job.req.def /\ def.tls \in BOOLEAN
      /\ adding <=> job.req.action = "add"
      /\ job.req.action \in {"add", "delete"}
  BY JobFacts DEF CreateDraft
<1>2. rules[def.tls] \in Policies /\ rules[def.tls] # Nil
  BY <1>1, NilAssumption DEF Inv, TypeOK
<1>3. draft' \in [BOOLEAN -> Policies \cup {Nil}]
  BY <1>1, <1>2 DEF CreateDraft, Inv, TypeOK
<1>4. /\ Kept /\ job'.fetched = job.fetched
      /\ \/ /\ at' = (IF adding THEN "rule" ELSE "removeRule") /\ job' = job
            /\ draft'[def.tls] = rules[def.tls] /\ UNCHANGED abandoned
            /\ \A t \in BOOLEAN \ {def.tls} : draft'[t] = draft[t]
         \/ /\ at' = "answer" /\ job'.err
            /\ abandoned' = {t \in BOOLEAN : draft'[t] # Nil}
  BY <1>1, <1>2, GoesKept, FailsKept DEF CreateDraft, Inv, TypeOK
<1>5. TypeOK'
  BY <1>1, <1>2, <1>3, <1>4 DEF CreateDraft, device, history, Kept, Inv, TypeOK, Calls
<1>6. Place'
  BY <1>1, <1>2, <1>3, <1>4 DEF CreateDraft, device, history, Kept, Inv, Place,
     OnlyVS, OnlyPolicy, OnlyAdding, OnlyDeleting
<1>7. Held'
  BY <1>1, <1>2, <1>3, <1>4 DEF CreateDraft, device, history, Kept, Inv, TypeOK, Held,
     Place, OnDraft, OnlyVS, OnlyPolicy
<1>8. Done'
  BY <1>1, <1>2, <1>3, <1>4 DEF CreateDraft, device, history, Kept, Inv, TypeOK,
     Place, Held, Done, PoolDone, Rule, AfterPoolCalls, OnlyAdding, OnlyDeleting,
     OnlyVS, OnlyPolicy, OnDraft
<1>9. Drafts'
  BY <1>1, <1>2, <1>3, <1>4 DEF CreateDraft, device, history, Kept, Inv, TypeOK,
     Place, Drafts, OnDraft, OnlyVS, OnlyPolicy
<1>10. Defined'
  BY <1>1, <1>2, <1>3, <1>4 DEF CreateDraft, device, history, Kept, Inv, TypeOK,
     Defined, Place
<1>11. Told'
  BY <1>1, <1>2, <1>3, <1>4 DEF CreateDraft, device, history, Kept, Inv, TypeOK, Told
<1>12. OthersKept
  BY <1>1, <1>2, <1>3, <1>4 DEF CreateDraft, device, history, OthersKept
<1> QED
  BY <1>5, <1>6, <1>7, <1>8, <1>9, <1>10, <1>11, <1>12 DEF Inv

LEMMA PutRuleInv ==
  ASSUME Inv, PutRule
  PROVE  Inv' /\ OthersKept
<1>1. /\ job # Nil /\ job \in Jobs /\ job.req \in Requests /\ job.err \in BOOLEAN
      /\ svc = job.req.svc /\ svc \in Services /\ def = job.req.def /\ def.tls \in BOOLEAN
      /\ adding <=> job.req.action = "add"
      /\ job.req.action \in {"add", "delete"}
  BY JobFacts DEF PutRule
<1>2. def.aliases \in {r.def.aliases : r \in Requests} \cup {Nil}
  BY <1>1, RequestFacts
<1>3. /\ Kept /\ job'.fetched = job.fetched
      /\ draft' \in [BOOLEAN -> Policies \cup {Nil}]
      /\ draft'[def.tls] # Nil
      /\ \A s \in Services \ {svc} : draft'[def.tls][s] = draft[def.tls][s]
      /\ \A t \in BOOLEAN \ {def.tls} : draft'[t] = draft[t]
      /\ \/ at' = "publish" /\ job' = job /\ draft'[def.tls][svc] = def.aliases
         \/ at' = "dropDraft" /\ job'.err
  BY <1>1, <1>2, SetRuleKept DEF PutRule, OnDraft
<1>4. TypeOK'
  BY <1>1, <1>2, <1>3 DEF PutRule, device, history, Kept, Inv, TypeOK, Calls
<1>5. Place'
  BY <1>1, <1>2, <1>3 DEF PutRule, device, history, Kept, Inv, Place, OnlyVS,
     OnlyPolicy, OnlyAdding, OnlyDeleting
<1>6. Held'
  BY <1>1, <1>2, <1>3 DEF PutRule, device, history, Kept, Inv, TypeOK, Held, Place,
     OnDraft, OnlyVS, OnlyPolicy
<1>7. Done'
  BY <1>1, <1>2, <1>3 DEF PutRule, device, history, Kept, Inv, TypeOK, Place, Held,
     Done, PoolDone, Rule, AfterPoolCalls, OnlyAdding, OnlyDeleting, OnlyVS,
     OnlyPolicy, OnDraft
<1>8. Drafts'
  BY <1>1, <1>2, <1>3 DEF PutRule, device, history, Kept, Inv, TypeOK, Place, Drafts,
     OnDraft, OnlyVS, OnlyPolicy
<1>9. Defined'
  BY <1>1, <1>2, <1>3 DEF PutRule, device, history, Kept, Inv, TypeOK, Defined, Place
<1>10. Told'
  BY <1>1, <1>2, <1>3 DEF PutRule, device, history, Kept, Inv, TypeOK, Told
<1>11. OthersKept
  BY <1>1, <1>2, <1>3 DEF PutRule, device, history, OthersKept
<1> QED
  BY <1>4, <1>5, <1>6, <1>7, <1>8, <1>9, <1>10, <1>11 DEF Inv

LEMMA RemoveRuleInv ==
  ASSUME Inv, RemoveRule
  PROVE  Inv' /\ OthersKept
<1>1. /\ job # Nil /\ job \in Jobs /\ job.req \in Requests /\ job.err \in BOOLEAN
      /\ svc = job.req.svc /\ svc \in Services /\ def = job.req.def /\ def.tls \in BOOLEAN
      /\ adding <=> job.req.action = "add"
      /\ job.req.action \in {"add", "delete"}
  BY JobFacts DEF RemoveRule
<1>2. draft[def.tls] # Nil
  BY <1>1 DEF RemoveRule, Inv, Held, OnDraft
<1>3. /\ Kept /\ job'.fetched = job.fetched
      /\ draft' \in [BOOLEAN -> Policies \cup {Nil}]
      /\ draft'[def.tls] # Nil
      /\ \A s \in Services \ {svc} : draft'[def.tls][s] = draft[def.tls][s]
      /\ \A t \in BOOLEAN \ {def.tls} : draft'[t] = draft[t]
      /\ \/ at' = "publish" /\ job' = job /\ draft'[def.tls][svc] = Nil
         \/ at' = "publish" /\ job'.err
  BY <1>1, <1>2, SetRuleKept, FailsKept DEF RemoveRule, OnDraft, Inv, TypeOK
<1>4. TypeOK'
  BY <1>1, <1>2, <1>3 DEF RemoveRule, device, history, Kept, Inv, TypeOK, Calls
<1>5. Place'
  BY <1>1, <1>2, <1>3 DEF RemoveRule, device, history, Kept, Inv, Place, OnlyVS,
     OnlyPolicy, OnlyAdding, OnlyDeleting
<1>6. Held'
  BY <1>1, <1>2, <1>3 DEF RemoveRule, device, history, Kept, Inv, TypeOK, Held, Place,
     OnDraft, OnlyVS, OnlyPolicy
<1>7. Done'
  BY <1>1, <1>2, <1>3 DEF RemoveRule, device, history, Kept, Inv, TypeOK, Place, Held,
     Done, PoolDone, Rule, AfterPoolCalls, OnlyAdding, OnlyDeleting, OnlyVS,
     OnlyPolicy, OnDraft
<1>8. Drafts'
  BY <1>1, <1>2, <1>3 DEF RemoveRule, device, history, Kept, Inv, TypeOK, Place,
     Drafts, OnDraft, OnlyVS, OnlyPolicy
<1>9. Defined'
  BY <1>1, <1>2, <1>3 DEF RemoveRule, device, history, Kept, Inv, TypeOK, Defined, Place
<1>10. Told'
  BY <1>1, <1>2, <1>3 DEF RemoveRule, device, history, Kept, Inv, TypeOK, Told
<1>11. OthersKept
  BY <1>1, <1>2, <1>3 DEF RemoveRule, device, history, OthersKept
<1> QED
  BY <1>4, <1>5, <1>6, <1>7, <1>8, <1>9, <1>10, <1>11 DEF Inv

LEMMA PublishDraftInv ==
  ASSUME Inv, PublishDraft
  PROVE  Inv' /\ OthersKept
<1>1. /\ job # Nil /\ job \in Jobs /\ job.req \in Requests /\ job.err \in BOOLEAN
      /\ svc = job.req.svc /\ svc \in Services /\ def = job.req.def /\ def.tls \in BOOLEAN
      /\ adding <=> job.req.action = "add"
      /\ job.req.action \in {"add", "delete"}
  BY JobFacts DEF PublishDraft
<1>2. draft[def.tls] \in Policies
  BY <1>1 DEF PublishDraft, Inv, TypeOK, Held, OnDraft
<1>3. /\ Kept /\ job'.fetched = job.fetched
      /\ \/ job' = job /\ at' = (IF adding THEN "dropDraft" ELSE "deletePool")
         \/ job'.err /\ at' = "dropDraft"
  BY GoesKept, FailsKept DEF PublishDraft
<1>4. /\ \/ /\ rules' = [rules EXCEPT ![def.tls] = draft[def.tls]]
            /\ draft' = [draft EXCEPT ![def.tls] = Nil]
         \/ UNCHANGED <<rules, draft>> /\ job'.err /\ at' = "dropDraft"
  BY FailsKept DEF PublishDraft
<1>5. /\ rules' \in [BOOLEAN -> Policies] /\ draft' \in [BOOLEAN -> Policies \cup {Nil}]
      /\ \A t \in BOOLEAN : draft'[t] \in {draft[t], Nil}
      /\ \/ rules'[def.tls] = draft[def.tls] /\ draft'[def.tls] = Nil
         \/ rules' = rules /\ job'.err /\ at' = "dropDraft"
      /\ \A t \in BOOLEAN \ {def.tls} : rules'[t] = rules[t] /\ draft'[t] = draft[t]
  BY <1>1, <1>2, <1>4 DEF Inv, TypeOK
<1>6. TypeOK'
  BY <1>1, <1>2, <1>3, <1>4, <1>5 DEF PublishDraft, device, history, Kept, Inv,
     TypeOK, Calls
<1>7. Place'
  BY <1>1, <1>2, <1>3, <1>4, <1>5 DEF PublishDraft, device, history, Kept, Inv, Place,
     OnlyVS, OnlyPolicy, OnlyAdding, OnlyDeleting
<1>8. Held'
  BY <1>1, <1>2, <1>3, <1>4, <1>5 DEF PublishDraft, device, history, Kept, Inv,
     TypeOK, Held, Place, OnDraft, OnlyVS, OnlyPolicy
<1>9. Done'
  BY <1>1, <1>2, <1>3, <1>4, <1>5 DEF PublishDraft, device, history, Kept, Inv,
     TypeOK, Place, Held, Done, PoolDone, Rule, AfterPoolCalls, OnlyAdding,
     OnlyDeleting, OnlyVS, OnlyPolicy, OnDraft
<1>10. Drafts'
  BY <1>1, <1>2, <1>3, <1>4, <1>5 DEF PublishDraft, device, history, Kept, Inv,
     TypeOK, Place, Drafts, OnDraft, OnlyVS, OnlyPolicy
<1>11. Defined'
  BY <1>1, <1>2, <1>3, <1>4, <1>5 DEF PublishDraft, device, history, Kept, Inv,
     TypeOK, Defined, Place
<1>12. Told'
  BY <1>1, <1>2, <1>3, <1>4, <1>5 DEF PublishDraft, device, history, Kept, Inv,
     TypeOK, Told
<1>13. OthersKept
  BY <1>1, <1>2, <1>3, <1>4, <1>5 DEF PublishDraft, device, history, OthersKept, Kept,
     Inv, TypeOK, Held, OnDraft
<1> QED
  BY <1>6, <1>7, <1>8, <1>9, <1>10, <1>11, <1>12, <1>13 DEF Inv

LEMMA DropDraftInv ==
  ASSUME Inv, DropDraft
  PROVE  Inv' /\ OthersKept
<1>1. /\ job # Nil /\ job \in Jobs /\ job.req \in Requests /\ job.err \in BOOLEAN
      /\ svc = job.req.svc /\ svc \in Services /\ def = job.req.def /\ def.tls \in BOOLEAN
      /\ adding <=> job.req.action = "add"
      /\ job.req.action \in {"add", "delete"}
  BY JobFacts DEF DropDraft
<1>2. Kept /\ job' = job /\ at' = "answer"
  BY GoesKept DEF DropDraft
<1>3. /\ draft' \in [BOOLEAN -> Policies \cup {Nil}]
      /\ \A t \in BOOLEAN \ {def.tls} : draft'[t] = draft[t]
      /\ \/ draft'[def.tls] = Nil /\ UNCHANGED abandoned
         \/ abandoned' = {t \in BOOLEAN : draft'[t] # Nil}
  BY <1>1 DEF DropDraft, Inv, TypeOK
<1>4. TypeOK'
  BY <1>1, <1>2, <1>3 DEF DropDraft, device, history, Kept, Inv, TypeOK, Calls
<1>5. Place'
  BY <1>1, <1>2, <1>3 DEF DropDraft, device, history, Kept, Inv, Place, OnlyVS,
     OnlyPolicy, OnlyAdding, OnlyDeleting
<1>6. Held'
  BY <1>1, <1>2, <1>3 DEF DropDraft, device, history, Kept, Inv, TypeOK, Held, Place,
     OnDraft, OnlyVS, OnlyPolicy
<1>7. Done'
  BY <1>1, <1>2, <1>3 DEF DropDraft, device, history, Kept, Inv, TypeOK, Place, Held,
     Done, PoolDone, Rule, AfterPoolCalls, OnlyAdding, OnlyDeleting, OnlyVS,
     OnlyPolicy, OnDraft
<1>8. Drafts'
  BY <1>1, <1>2, <1>3 DEF DropDraft, device, history, Kept, Inv, TypeOK, Place,
     Drafts, OnDraft, OnlyVS, OnlyPolicy
<1>9. Defined'
  BY <1>1, <1>2, <1>3 DEF DropDraft, device, history, Kept, Inv, TypeOK, Defined, Place
<1>10. Told'
  BY <1>1, <1>2, <1>3 DEF DropDraft, device, history, Kept, Inv, TypeOK, Told
<1>11. OthersKept
  BY <1>1, <1>2, <1>3 DEF DropDraft, device, history, OthersKept
<1> QED
  BY <1>4, <1>5, <1>6, <1>7, <1>8, <1>9, <1>10, <1>11 DEF Inv

LEMMA StepInv == Inv /\ [Next]_vars => Inv'
<1> SUFFICES ASSUME Inv, [Next]_vars PROVE Inv'
  OBVIOUS
<1>1. CASE UNCHANGED vars
  BY <1>1 DEF vars, device, history, Inv, TypeOK, Place, Held, Done, PoolDone, Rule,
     Drafts,
              Defined, Told
<1>2. CASE \E r \in Requests : Take(r)
  BY <1>2, TakeInv
<1>3. CASE Answer \/ Restart
  BY <1>3, AnswerInv, RestartInv
<1>4. CASE GetPool \/ AddPool \/ ReadMembers \/ UpdatePoolMembers \/ ModifyPool \/ DeletePool
  BY <1>4, GetPoolInv, AddPoolInv, ReadMembersInv, UpdatePoolMembersInv, ModifyPoolInv,
     DeletePoolInv
<1>5. CASE GetVS \/ ModifyVS \/ AddVS \/ DeleteVS
  BY <1>5, GetVSInv, ModifyVSInv, AddVSInv, DeleteVSInv
<1>6. CASE policyNeedsUpdate \/ CreateDraft \/ PutRule \/ RemoveRule \/ PublishDraft \/ DropDraft
  BY <1>6, policyNeedsUpdateInv, CreateDraftInv, PutRuleInv, RemoveRuleInv,
     PublishDraftInv,
     DropDraftInv
<1> QED
  BY <1>1, <1>2, <1>3, <1>4, <1>5, <1>6 DEF Next

LEMMA Inductive == Spec => []Inv
BY InitInv, StepInv, PTL DEF Spec

\* The goroutine, its request and every object of the device hold what the calls of
\* the code put there.
THEOREM F5Type == Spec => []TypeOK
BY Inductive, PTL DEF Inv

\* The handlers remove their drafts, but those they could not, or had no time to.
THEOREM F5DraftsRemoved == Spec => []DraftsAreRemoved
<1>1. Inv => DraftsAreRemoved
  BY DEF Inv, Drafts, DraftsAreRemoved, OnDraft
<1> QED
  BY <1>1, Inductive, PTL

\* What is answered without error has its pool as it was created, unless an update
\* of its members was cut.
THEOREM F5DefinitionKept == Spec => []DefinitionKept
<1>1. Inv => DefinitionKept
  <2> SUFFICES ASSUME Inv, NEW s \in Services \ spoiled, told[s] # Nil, told[s].action = "add"
               PROVE  pool[s].defined
    BY DEF DefinitionKept
  <2>1. pool[s] # Nil /\ (job # Nil => s # job.req.svc)
    BY DEF Inv, Told
  <2>2. at = "definePool" => job # Nil
    BY JobFacts
  <2> QED
    BY <2>1, <2>2 DEF Inv, Defined
<1> QED
  BY <1>1, Inductive, PTL

-----------------------------------------------------------------------------
(* Every step is a step of the promise, or does not show. *)

LEMMA MapsInit == Init => P!Init
BY DEF Init, P!Init, working

\* A call that leaves the objects of the other services alone.
LEMMA CallIsWork == ASSUME Inv, at # "select", OthersKept
                    PROVE  P!Next
<1>1. job # Nil /\ job.req \in Requests /\ svc = job.req.svc
  BY JobFacts
<1>2. ASSUME NEW s \in Services \ {job.req.svc} PROVE content'[s] = content[s]
  <2>1. [t \in BOOLEAN |-> rules'[t][s]] = [t \in BOOLEAN |-> rules[t][s]]
    BY <1>2 DEF OthersKept
  <2> QED
    BY <1>2, <2>1 DEF content, OthersKept
<1>3. working = job.req /\ working' = job.req /\ working # Nil
  BY <1>1, NilAssumption DEF working, Kept, OthersKept
<1> QED
  BY <1>2, <1>3 DEF OthersKept, P!Work, P!Next

LEMMA MapsNext == Inv /\ [Next]_vars => [P!Next]_(P!vars)
<1> SUFFICES ASSUME Inv, [Next]_vars PROVE [P!Next]_(P!vars)
  OBVIOUS
<1> USE DEF device, history
<1>1. ASSUME NEW r \in Requests, Take(r) PROVE P!Take(r)
  <2>1. job' \in Jobs /\ job'.req = r
    BY <1>1, RequestFacts DEF Take, Jobs
  <2>2. working = Nil /\ working' = r
    BY <1>1, <2>1, NilAssumption DEF Take, working, Inv, TypeOK
  <2>3. UNCHANGED content
    BY <1>1 DEF Take, content
  <2> QED
    BY <1>1, <2>2, <2>3 DEF Take, P!Take
<1>2. CASE Answer
  <2>1. job # Nil /\ job.req \in Requests /\ job.err \in BOOLEAN /\ svc = job.req.svc
    BY <1>2, JobFacts DEF Answer
  <2>2. UNCHANGED content
    BY <1>2 DEF Answer, content
  <2>3. working = job.req /\ working' = Nil /\ working # Nil
    BY <1>2, <2>1, NilAssumption DEF Answer, working
  <2>4. CASE job.err
    BY <1>2, <2>2, <2>3, <2>4 DEF Answer, P!Fail, P!Next
  <2>5. CASE ~job.err
    <3>1. CarriesOut(content[job.req.svc], job.req)
      <4> DEFINE c == [mode |-> mode, pool |-> pool[job.req.svc], vs |-> vs[job.req.svc],
                       rule |-> [t \in BOOLEAN |-> rules[t][job.req.svc]]]
      <4>1. content[job.req.svc] = c
        BY <2>1, RequestFacts DEF content
      <4>2. c.rule[job.req.def.tls] = rules[job.req.def.tls][job.req.svc]
        BY <2>1, RequestFacts
      <4>3. job.req.action \in {"add", "delete"} /\ mode # "unsupported"
        BY <2>1, <2>5, RequestFacts DEF Inv, Place
      <4>4. mode \in {"vs", "policy"}
        BY <4>3 DEF Inv, TypeOK
      <4>5. CarriesOut(c, job.req)
        BY <1>2, <2>1, <2>5, <4>2, <4>3, <4>4
        DEF Answer, Inv, Done, PoolDone, Rule, AfterPoolCalls, CarriesOut
      <4> QED
        BY <4>1, <4>5
    <3> QED
      BY <1>2, <2>1, <2>2, <2>3, <2>5, <3>1 DEF Answer, P!Succeed, P!Next
  <2> QED
    BY <2>1, <2>4, <2>5
<1>3. CASE Restart
  <2>1. UNCHANGED content /\ working' = Nil
    BY <1>3 DEF Restart, content, working
  <2> QED
    BY <1>3, <2>1 DEF Restart, P!Fail, P!Next, P!vars
<1>4. CASE GetPool \/ AddPool \/ ReadMembers
         \/ UpdatePoolMembers \/ ModifyPool \/ DeletePool
  <2>1. OthersKept
    BY <1>4, GetPoolInv, AddPoolInv, ReadMembersInv, UpdatePoolMembersInv,
       ModifyPoolInv, DeletePoolInv
  <2>2. at # "select"
    BY <1>4 DEF GetPool, AddPool, ReadMembers, UpdatePoolMembers, ModifyPool,
       DeletePool
  <2> QED
    BY <2>1, <2>2, CallIsWork
<1>5. CASE GetVS \/ ModifyVS \/ AddVS
         \/ DeleteVS
  <2>1. OthersKept
    BY <1>5, GetVSInv, ModifyVSInv, AddVSInv, DeleteVSInv
  <2>2. at # "select"
    BY <1>5 DEF GetVS, ModifyVS, AddVS, DeleteVS
  <2> QED
    BY <2>1, <2>2, CallIsWork
<1>6. CASE policyNeedsUpdate \/ CreateDraft \/ PutRule
         \/ RemoveRule \/ PublishDraft \/ DropDraft
  <2>1. OthersKept
    BY <1>6, policyNeedsUpdateInv, CreateDraftInv, PutRuleInv, RemoveRuleInv,
       PublishDraftInv, DropDraftInv
  <2>2. at # "select"
    BY <1>6 DEF policyNeedsUpdate, CreateDraft, PutRule, RemoveRule, PublishDraft,
       DropDraft
  <2> QED
    BY <2>1, <2>2, CallIsWork
<1>7. CASE UNCHANGED vars
  BY <1>7 DEF vars, P!vars, working, content
<1> QED
  BY <1>1, <1>2, <1>3, <1>4, <1>5, <1>6, <1>7 DEF Next, P!Next

\* F5ltm implements the promise: an answer without error means that the device holds
\* what was asked, and what it holds of the other services is not touched, although
\* one policy has the rules of all of them.
THEOREM F5Provisions == Spec => ImplementsProvisioner
BY Inductive, MapsInit, MapsNext, PTL DEF Spec, P!Spec, ImplementsProvisioner
=============================================================================
