-------------------------------- MODULE F5ltm --------------------------------
(***************************************************************************)
(* The f5 BIG-IP load balancer provisioner (src/provisioner/loadbalancer/   *)
(* f5ltm): a goroutine that turns each request into calls of the device,    *)
(* one after the other.  Its configuration has it keep one virtual server   *)
(* per service ("vs"), or one rule per service in the policy all services   *)
(* share ("policy"); a policy is only changed through a draft of it.         *)
(*                                                                          *)
(* Each call of the device is a step.  It succeeds, or it fails, and then   *)
(* the device may have done what was asked or not.  Nobody else writes to   *)
(* the objects of the services, so that what one call has read still holds  *)
(* at the next one.                                                          *)
(***************************************************************************)
CONSTANTS
  Services,  \* names of the services
  Requests,  \* what the core may ask: [svc, action, def], with the targets,
             \* tls, ip and aliases of the service in def
  Nil,       \* no request, no such object
  Within     \* pairs of destinations, the second in the text of the first
             \* (10.0.0.1:80 in 110.0.0.1:80)

ASSUME RequestAssumption ==
  /\ \A r \in Requests : /\ r.svc \in Services
                         /\ r.action \in {"add", "delete"}
                         /\ r.def.tls \in BOOLEAN
                         /\ r.def.aliases # Nil

Targets == {r.def.targets : r \in Requests}

Destination(d) == <<d.ip, d.tls>>
Destinations == {Destination(r.def) : r \in Requests}

Jobs == [req : Requests, err : BOOLEAN, fetched : BOOLEAN]
Pools == [members : Targets \cup {{}}, defined : BOOLEAN]
Policies == [Services -> {r.def.aliases : r \in Requests} \cup {Nil}]

ASSUME NilAssumption ==
  /\ Nil \notin Requests \cup Destinations \cup Jobs \cup Pools
  /\ Nil \notin Policies

VARIABLES
  mode,       \* the configuration's updateMode
  at,         \* the call the goroutine is about to make
  job,        \* the request, whether something failed, and whether the pool
              \* read before has its definition; or Nil
  told,       \* history: the last request for each service, once answered
              \* without error
  pool,       \* pool of each service: its members, and whether the rest of it
              \* (monitor, balancing mode) is as it was created; or Nil
  vs,         \* destination of the virtual server of each service, or Nil
  rules,      \* per policy (that for TLS and the other): aliases of the rule of
              \* each service, or Nil
  draft,      \* per policy: its draft, or Nil
  abandoned,  \* history: policies with a draft nobody will remove
  spoiled     \* history: services whose pool may have lost its definition

device == <<pool, vs, rules, draft>>
history == <<told, abandoned, spoiled>>
vars == <<mode, at, job, device, history>>

-----------------------------------------------------------------------------
svc == job.req.svc
def == job.req.def
adding == job.req.action = "add"

\* strings.Contains of the destination the device reports and the one wanted.
LooksLike(found, wanted) == found = wanted \/ <<found, wanted>> \in Within

Goes(next) == at' = next /\ UNCHANGED job

Fails(next) == at' = next /\ job' = [job EXCEPT !.err = TRUE]

Init ==
  /\ mode \in {"vs", "policy", "unsupported"}
  /\ at = "select"
  /\ job = Nil
  /\ told = [s \in Services |-> Nil]
  /\ pool = [s \in Services |-> Nil]
  /\ vs = [s \in Services |-> Nil]
  /\ rules = [t \in BOOLEAN |-> [s \in Services |-> Nil]]
  /\ draft = [t \in BOOLEAN |-> Nil]
  /\ abandoned = {}
  /\ spoiled = {}

-----------------------------------------------------------------------------
(* The goroutine takes a request, and answers it. *)

handleUpdate ==
  CASE mode = "vs" -> "getVS" [] mode = "policy" -> "getPool" [] OTHER -> "answer"

handleDelete ==
  CASE mode = "vs" -> "deleteVS" [] mode = "policy" -> "createDraft" [] OTHER -> "answer"

Take(r) ==
  /\ at = "select"
  /\ job' = [req |-> r, err |-> mode = "unsupported", fetched |-> TRUE]
  /\ at' = IF r.action = "add" THEN handleUpdate ELSE handleDelete
  /\ told' = [told EXCEPT ![r.svc] = Nil]
  /\ UNCHANGED <<mode, device, abandoned, spoiled>>

Answer ==
  /\ at = "answer"
  /\ at' = "select"
  /\ job' = Nil
  /\ told' = IF job.err THEN told ELSE [told EXCEPT ![svc] = job.req]
  /\ UNCHANGED <<mode, device, abandoned, spoiled>>

\* The process ends, at whatever point, and is started again.
Restart ==
  /\ at' = "select"
  /\ job' = Nil
  /\ abandoned' = {t \in BOOLEAN : draft[t] # Nil}
  /\ spoiled' = IF at \in {"members", "definePool"} THEN spoiled \cup {svc} ELSE spoiled
  /\ UNCHANGED <<mode, device, told>>

-----------------------------------------------------------------------------
(* The pool: upsertPool, createPool, updatePoolMembers. *)

\* What follows once the pool is as wanted.
AfterPool ==
  CASE mode = "policy" -> "getPolicy"
    [] mode # "policy" /\ vs[svc] # Nil -> "destination"
    [] mode # "policy" /\ vs[svc] = Nil -> "addVS"

SetPool(new, next, failed) ==
  \/ pool' = [pool EXCEPT ![svc] = new] /\ Goes(next)
  \/ pool' \in {pool, [pool EXCEPT ![svc] = new]} /\ Fails(failed)

\* GetPool: the object read is what ModifyPool writes back.
GetPool ==
  /\ at = "getPool"
  /\ \/ pool[svc] = Nil /\ Goes("addPool")
     \/ /\ pool[svc] # Nil
        /\ at' = "readMembers"
        /\ job' = [job EXCEPT !.fetched = pool[svc].defined]
     \/ Fails("answer")
  /\ UNCHANGED <<mode, device, history>>

AddPool ==
  /\ at = "addPool"
  /\ \/ /\ pool[svc] = Nil
        /\ SetPool([members |-> {}, defined |-> TRUE], "members", "answer")
        /\ spoiled' = spoiled \ {svc}
     \/ pool[svc] # Nil /\ Fails("answer") /\ UNCHANGED <<pool, spoiled>>
  /\ UNCHANGED <<mode, vs, rules, draft, told, abandoned>>

\* The lists are compared, so that the same targets in another order differ.
ReadMembers ==
  /\ at = "readMembers"
  /\ \/ pool[svc].members = def.targets /\ Goes(AfterPool)
     \/ Goes("members")
     \/ Fails("answer")
  /\ UNCHANGED <<mode, device, history>>

\* With a mistake: the pool is left as the update of its members leaves it.
UpdatePoolMembers_Only ==
  /\ at = "members"
  /\ SetPool([members |-> def.targets, defined |-> FALSE], AfterPool, "answer")
  /\ spoiled' = IF at' = "answer" THEN spoiled \cup {svc} ELSE spoiled
  /\ UNCHANGED <<mode, vs, rules, draft, told, abandoned>>

\* Replaces the members, and overwrites the definition of the pool.
UpdatePoolMembers ==
  /\ at = "members"
  /\ SetPool([members |-> def.targets, defined |-> FALSE], "definePool", "answer")
  /\ spoiled' = IF at' = "answer" THEN spoiled \cup {svc} ELSE spoiled
  /\ UNCHANGED <<mode, vs, rules, draft, told, abandoned>>

ModifyPool ==
  /\ at = "definePool"
  /\ SetPool([pool[svc] EXCEPT !.defined = job.fetched], AfterPool, "answer")
  /\ spoiled' = IF at' = "answer" THEN spoiled \cup {svc} ELSE spoiled
  /\ UNCHANGED <<mode, vs, rules, draft, told, abandoned>>

DeletePool ==
  /\ at = "deletePool"
  /\ LET next == IF mode = "policy" THEN "dropDraft" ELSE "answer"
     IN  IF pool[svc] = Nil THEN Fails(next) /\ UNCHANGED pool
                            ELSE SetPool(Nil, next, next)
  /\ UNCHANGED <<mode, vs, rules, draft, history>>

-----------------------------------------------------------------------------
(* A virtual server per service: HandleVSUpdate, handleVSDelete. *)

SetVS(new, next) ==
  \/ vs' = [vs EXCEPT ![svc] = new] /\ Goes(next)
  \/ vs' \in {vs, [vs EXCEPT ![svc] = new]} /\ Fails(next)

GetVS ==
  /\ at = "getVS"
  /\ \/ vs[svc] # Nil /\ Goes("getPool")
     \/ vs[svc] = Nil /\ Goes("addPool")
     \/ Fails("answer")
  /\ UNCHANGED <<mode, device, history>>

ModifyVS ==
  /\ at = "destination"
  /\ IF LooksLike(vs[svc], Destination(def)) THEN Goes("answer") /\ UNCHANGED vs
                                             ELSE SetVS(Destination(def), "answer")
  /\ UNCHANGED <<mode, pool, rules, draft, history>>

AddVS ==
  /\ at = "addVS"
  /\ SetVS(Destination(def), "answer")
  /\ UNCHANGED <<mode, pool, rules, draft, history>>

\* An error is noted, and the pool deleted all the same.
DeleteVS ==
  /\ at = "deleteVS"
  /\ IF vs[svc] = Nil THEN Fails("deletePool") /\ UNCHANGED vs
                      ELSE SetVS(Nil, "deletePool")
  /\ UNCHANGED <<mode, pool, rules, draft, history>>

-----------------------------------------------------------------------------
(* A rule per service: handleGlobalPolicyUpdate, handleGlobalPolicyDelete.   *)

policyNeedsUpdate ==
  /\ at = "getPolicy"
  /\ \/ rules[def.tls][svc] = def.aliases /\ Goes("answer")
     \/ rules[def.tls][svc] # def.aliases /\ Goes("createDraft")
     \/ Fails("answer")
  /\ UNCHANGED <<mode, device, history>>

\* The device keeps one draft of a policy, and refuses a second.  An error leaves
\* the handler before the draft's removal is deferred.
CreateDraft ==
  LET copied == [draft EXCEPT ![def.tls] = rules[def.tls]]
  IN  /\ at = "createDraft"
      /\ \/ /\ draft[def.tls] = Nil
            /\ draft' = copied
            /\ Goes(IF adding THEN "rule" ELSE "removeRule")
            /\ UNCHANGED abandoned
         \/ /\ draft' \in {draft} \cup (IF draft[def.tls] = Nil THEN {copied} ELSE {})
            /\ Fails("answer")
            /\ abandoned' = {t \in BOOLEAN : draft'[t] # Nil}
      /\ UNCHANGED <<mode, pool, vs, rules, told, spoiled>>

SetRule(new, failed) ==
  LET changed == [draft EXCEPT ![def.tls][svc] = new]
  IN  \/ draft' = changed /\ Goes("publish")
      \/ draft' \in {draft, changed} /\ Fails(failed)

\* With a mistake: the handler returns without removing its draft.
PutRule_LeavesDraft ==
  /\ at = "rule"
  /\ SetRule(def.aliases, "answer")
  /\ UNCHANGED <<mode, pool, vs, rules, history>>

\* ModifyPolicyRule, or AddRuleToPolicy for a service that has none.
PutRule ==
  /\ at = "rule"
  /\ SetRule(def.aliases, "dropDraft")
  /\ UNCHANGED <<mode, pool, vs, rules, history>>

\* With a mistake: a rule that could not be removed is forgotten.
RemoveRule_ErrorLost ==
  /\ at = "removeRule"
  /\ draft' \in {draft, [draft EXCEPT ![def.tls][svc] = Nil]}
  /\ Goes("publish")
  /\ UNCHANGED <<mode, pool, vs, rules, history>>

\* An error is noted, and the draft published all the same.
RemoveRule ==
  /\ at = "removeRule"
  /\ IF draft[def.tls][svc] = Nil THEN Fails("publish") /\ UNCHANGED draft
                                  ELSE SetRule(Nil, "publish")
  /\ UNCHANGED <<mode, pool, vs, rules, history>>

PublishDraft ==
  LET published == /\ rules' = [rules EXCEPT ![def.tls] = draft[def.tls]]
                   /\ draft' = [draft EXCEPT ![def.tls] = Nil]
  IN  /\ at = "publish"
      /\ \/ published /\ Goes(IF adding THEN "dropDraft" ELSE "deletePool")
         \/ (published \/ UNCHANGED <<rules, draft>>) /\ Fails("dropDraft")
      /\ UNCHANGED <<mode, pool, vs, history>>

\* With a mistake: the handler does not come back with an answer.
DropDraft_NoAnswer ==
  /\ at = "dropDraft"
  /\ draft' = [draft EXCEPT ![def.tls] = Nil]
  /\ Goes("select")
  /\ UNCHANGED <<mode, pool, vs, rules, history>>

\* The deferred DeletePolicy, of which a failure is only logged.
DropDraft ==
  /\ at = "dropDraft"
  /\ \/ draft' = [draft EXCEPT ![def.tls] = Nil] /\ UNCHANGED abandoned
     \/ UNCHANGED draft /\ abandoned' = {t \in BOOLEAN : draft[t] # Nil}
  /\ Goes("answer")
  /\ UNCHANGED <<mode, pool, vs, rules, told, spoiled>>

-----------------------------------------------------------------------------
Next ==
  \/ \E r \in Requests : Take(r)
  \/ Answer \/ Restart
  \/ GetPool \/ AddPool \/ ReadMembers \/ UpdatePoolMembers \/ ModifyPool \/ DeletePool
  \/ GetVS \/ ModifyVS \/ AddVS \/ DeleteVS
  \/ policyNeedsUpdate \/ CreateDraft \/ PutRule \/ RemoveRule \/ PublishDraft \/ DropDraft

Spec == Init /\ [][Next]_vars

-----------------------------------------------------------------------------
(* Properties. *)

Calls == {"select", "answer", "getPool", "addPool", "readMembers", "members",
          "definePool", "deletePool", "getVS", "destination", "addVS", "deleteVS",
          "getPolicy", "createDraft", "rule", "removeRule", "publish", "dropDraft"}

\* The goroutine, its request and every object of the device hold what the calls
\* of the code put there; it has a request exactly while it works on one.
TypeOK ==
  /\ mode \in {"vs", "policy", "unsupported"}
  /\ at \in Calls
  /\ job \in Jobs \cup {Nil}
  /\ (job = Nil) <=> (at = "select")
  /\ told \in [Services -> Requests \cup {Nil}]
  /\ pool \in [Services -> Pools \cup {Nil}]
  /\ vs \in [Services -> Destinations \cup {Nil}]
  /\ rules \in [BOOLEAN -> Policies]
  /\ draft \in [BOOLEAN -> Policies \cup {Nil}]
  /\ abandoned \subseteq BOOLEAN
  /\ spoiled \subseteq Services

\* What the device holds of service s.
content == [s \in Services |->
  [mode |-> mode, pool |-> pool[s], vs |-> vs[s], rule |-> [t \in BOOLEAN |-> rules[t][s]]]]

\* An addition: the pool has the targets and is reached from the address of the
\* service, or by its names.  A deletion: neither is left, but for a rule in the
\* policy of the other kind (of a service that changed from or to TLS).
CarriesOut(c, r) ==
  IF r.action = "add"
  THEN /\ c.pool # Nil
       /\ c.pool.members = r.def.targets
       /\ IF c.mode = "vs" THEN c.vs # Nil /\ LooksLike(c.vs, Destination(r.def))
                           ELSE c.rule[r.def.tls] = r.def.aliases
  ELSE /\ c.pool = Nil
       /\ IF c.mode = "vs" THEN c.vs = Nil ELSE c.rule[r.def.tls] = Nil

working == IF job = Nil THEN Nil ELSE job.req

P == INSTANCE Provisioner WITH request <- working

\* The provisioner does what the engine supposes of it, whichever calls fail and
\* wherever it is restarted: an answer without error means that the device holds
\* what was asked, and the work for one service never touches another's objects,
\* although all of them are in one policy (src/docs/docs/extension.md: errors are
\* raised in the Error field of the answer).
ImplementsProvisioner == P!Spec

\* A draft is only left behind by the failure of its own creation or removal, or
\* by the end of the process: every other way out of the handlers removes it
\* (the deferred DeletePolicy; one that is left blocks its policy for ever).
DraftsAreRemoved ==
  at = "select" => \A t \in BOOLEAN : draft[t] # Nil => t \in abandoned

\* An answer without error means that the pool is also defined as it was created,
\* unless the update of its members was cut between its two calls
\* (f5ltm.go:386, "update pool as pool definition get overwritten by
\* bigip.UpdatePoolMembers": once lost, the definition that is read and written
\* back is the wrong one).
DefinitionKept ==
  \A s \in Services \ spoiled :
    told[s] # Nil /\ told[s].action = "add" => pool[s].defined
=============================================================================
