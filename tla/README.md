# interlook in TLA+

interlook sits between container platforms and the network services in front of
them. *Providers* detect services on a platform (Docker swarm, Kubernetes),
*provisioners* set up what a service needs (an IP address, DNS aliases, a virtual
service on a load balancer), and the *core* takes each service along the workflow
the operator configured, from `undeployed` to `deployed` and back.

This directory specifies that machinery, checks it with TLC on small instances and
proves what TLAPS can prove of it for all instances. Paths below are relative to
the repository's root, `src/`.

## 1. Inventory

### 1.1 Components

| component | state | operations | correct when |
|---|---|---|---|
| **workflow steps** `core/workflow.go:17-143` | the list of steps, built once from the configuration | `initWorkflow`, `getNextStep`, `isLastStep`, `getTransition` | from every step, in both directions, the next step is the nearest that is no provider; a walk stops at every provisioner once, in order |
| **workflow engine** `core/workflow.go:145-450`, `core/transition.go`, `comm/message.go` | the table (service -> entry, a map under a lock); each entry's `State`, `ExpectedState`, `WorkInProgress`, `Error`, `CloseTime`, `Service`, its own lock and current transition | `mergeMessage` (one goroutine per merged message), `execute` of `providerState`, `providerAddState`, `providerDeleteState`, `provisionerState`, `closeState`; `sendToExtension`, `close` | work on a service is never lost; an entry is closed where it was meant to go; a deployed service is provisioned everywhere, an undeployed one nowhere; entries and goroutines of different services are never confused |
| **core server** `core/server.go` | a channel pair per extension, `msgToExtension`, the housekeeper's ticker | `extensionListener` (one goroutine per extension), `messageSender` (one goroutine), `housekeeper` (one goroutine), `refreshService` | listeners come back to their channel; the housekeeper closes what takes too long, refreshes what is deployed, forgets what is undeployed; nobody waits in a circle |
| **persistence, start and stop** `core/server.go:96-200`, `core/workflow.go:380-450` | the file of the table | `run` (signal, stop the housekeeper, stop each extension, wait, save), `save`, `load` | what is shown as deployed is provisioned, what is shown as gone is gone, across restarts; a shutdown ends; loaded entries come to rest |
| **providers** `provider/swarm`, `provider/kubernetes` | the platform they query; one goroutine with a poll ticker | `poll`, `RefreshService`, the blocking send of each message | announce what runs, and only what is gone as gone |
| **IP allocator** `provisioner/ipam/ipalloc` | list of records in memory, a JSON file | `addService`, `deleteService`, `save`, `load` | no two services use one address, across restarts |
| **consul** `provisioner/dns/consul` | the catalog of a consul server | look up, register, deregister each alias; an answer for each alias that failed, and one at the end | the last answer is without error only if every alias is as asked; other services' aliases are left alone (if no alias is shared) |
| **kemplm** `provisioner/loadbalancer/kemplm` | virtual and real services of a LoadMaster | `isVSDefined`, `addVS`, `isRSDefined`, `addRS`, `deleteVS` | an answer without error tells the truth; other services are left alone |
| **f5ltm** `provisioner/loadbalancer/f5ltm` | pools, and virtual servers or the rules of a policy all services share, of a BIG-IP | pools, virtual servers, rules; drafts of the policy | the same; no draft is left behind; a pool keeps its monitor and balancing mode |
| **HTTP API** `core/api.go` | none of its own | encode the table, the workflow, the extensions | shows a consistent table |
| **configuration, logging, main** | none after start | | |

### 1.2 How they interact

All channels are unbuffered. A provider's or provisioner's goroutine sends a message
and blocks until its *listener* takes it. The listener tags the message with the
extension's name and calls `mergeMessage`, which first asks `serviceNeedUpdate` -
**without** the table's lock - whether the message changes anything, then locks the
table, finds or creates the entry, updates its definition and spawns a goroutine for
the message. That goroutine locks the entry piecemeal, runs the transition of the
entry's step, and may block on `msgToExtension`, from which the single
*messageSender* forwards requests, one at a time, to the channel of the extension
they are for. An extension answers by sending a message, and so on until a step is
`deployed` or `undeployed`, where `close` ends the walk. The *housekeeper* visits all
entries under the table's lock: it removes undeployed ones, sends a refresh request
for deployed ones **to a provider's channel, with the lock held**, and closes in error
those in progress for too long.

Nothing ties an answer to the request it answers but the name of the extension, which
is also the name of the step. That is where most of what is hard comes from.

### 1.3 What is hard

The list is `hazards` in `PROJECT.json`, each at its line, with the properties that catch it
going wrong; where it simply does happen in the code, the models have it, no property is
claimed, and a note says so. In short: several
goroutines of one service in any order; answers that come after the entry moved on,
was closed by a timeout, was removed, or was removed and created again; a check made
before the lock and used after it; the housekeeper, a provider and its listener
waiting for each other; a provisioner that fails half way or answers twice;
definitions compared in a random order; a failed query taken for an absence; the
allocator's file cut in the middle of a write; a signal that comes between a
definition being merged and a handler acting on it; a load balancer's call that fails
after it took effect; a draft of a shared policy nobody removes; the ends of the step
list and providers next to them.

## 2. Modules

```
WorkflowSteps <==agrees with== WorkflowList -------- WorkflowListProofs
   |
WorkflowEngine
   |
   +-- EngineLifecycle ==implements==> ServiceLifecycle
   |      |            \__ WorkflowEngineProofs -------+
   |      |                                            |
   |      +-- Restarts ----------------- RestartsProofs+
   |                                                   |
   +-- Interlook ==implements==> WorkflowEngine  InterlookProofs

Provisioner  <==implements==  F5ltm ------- F5ltmProofs
             <==implements==  Kemplm ------ KemplmProofs
             <==implements==  Consul ------ ConsulProofs

IPAlloc ------------- IPAllocProofs

MCEngine, MCInterlook, MCRestarts, MCIPAlloc, MCF5ltm, MCKemplm, MCConsul:
instances for TLC
```

| module | models |
|---|---|
| `WorkflowSteps` | steps as ids `0..NSteps+1`; the next step as the nearest id that is no provider's |
| `WorkflowList` | the same as the code has it: a list with its loops, and a `getNextStep` that calls itself over providers (`NextCall` is one call, the recursive function `call` what the calls come to); `AgreesWithSteps` shows the two equal |
| `WorkflowEngine` | the table, entries, listeners, handlers, messageSender, provisioners, and the housekeeper's two effects on an entry |
| `ServiceLifecycle` | the abstract promise: the phases of a service and the only ways between them |
| `EngineLifecycle` | the refinement mapping: a service's phase is read off the entry the table holds |
| `Interlook` | the engine driven by polling providers and a sweeping housekeeper that holds the lock; implements `WorkflowEngine` |
| `Restarts` | the engine, with its lifecycle, across orderly shutdowns, saves, starts, and processes that are killed |
| `Provisioner` | the abstract promise of a provisioner: one request at a time, nobody else's objects touched, no success told unless the request was carried out |
| `F5ltm`, `Kemplm`, `Consul` | three provisioners call by call; each implements `Provisioner` |
| `IPAlloc` | the allocator with its file, restarts and failed saves |

### 2.1 WorkflowEngine and the code

| in the model | in the code |
|---|---|
| `table`, `heap` | `workflowEntries.Entries`; the `workflowEntry` at each pointer. A handler keeps the *address* of its entry, so an entry that was removed from the table, and one created again for the service, are different cells. A cell nobody refers to is reset (`Collected`), as its content can no longer matter |
| `listener[x]` | where the listener goroutine of `x` is in `mergeMessage`: about to evaluate `serviceNeedUpdate`, about to merge, or about to note the time |
| `running[h]`, `sending[h]` | a goroutine spawned by `mergeMessage` before its transition ran; and blocked on `msgToExtension` |
| `forwarding` | the request `messageSender` holds |
| `ext[q]` | the request provisioner `q` is working on |
| `provisioned[q][s]` | what `q` has set up for `s`: the definition it was last asked to apply, or `Nil` |
| `crashed` | the process is gone: unbounded recursion of `providerDeleteState.execute`, or the nil entry of `mergeMessage:357` |
| `ProviderSend` | a provider says anything at any time (what providers really say is in `Interlook`) |
| `Check`, `Skip`, `Merge` | `mergeMessage`, in the two or three steps other goroutines can come between. `Merge` is what happens once the listener has the table's lock; waiting for it is `LockedMerge` of `Interlook`, and nothing is assumed here of how long that takes |
| `ExecuteAdd`, `ExecuteDelete`, `RecurseDelete`, `ExecuteReply` | `execute` up to the point where the goroutine blocks or ends, `setNextStep`, `close` and `sendToExtension` included |
| `TakeRequest`, `Forward` | `messageSender`, `sendMessageToExtension` |
| `Reply`, `ReplyAliasError` | an extension's answer: it succeeded, or it failed and left anything of the service; consul's extra answer for an alias that failed. Most extensions make an `update` of the request's action; `KeepsAction` has those that keep it, and which actions (f5ltm) |
| `TimeOut`, `Remove` | the housekeeper's checks of an entry |

A definition (targets, port, TLS, aliases) is one value of `Defs`. What decides
anything about it is whether two definitions compare equal, and `IsSameThan` compares
lists whose order `SetTargetWeight` makes random: `Reordered` names the definitions of
which two announcements may differ. `SetTargetWeight` also counts how often a target is
given; an answer gives each once, so that the answer of a definition in `Weighted` never
compares equal to its entry. Time is abstracted to "may have expired".

Every transition is one atomic step. The code locks fields one by one, so two handlers
of one entry could also interleave *inside* a transition; the model leaves those data
races out (section 6).

### 2.2 Interlook and the code

| in the model | in the code |
|---|---|
| `loop[p]` | a provider's goroutine: the services its `poll` has still to inspect, and the message it is blocked on sending |
| `platform[p][s]` | what the provider would find on its platform |
| `locked`, `todo`, `visit` | the housekeeper in its sweep: the table's lock, the entries left, and the visit under way with the provider it waits for |
| `Announcements` | what `poll` says of a service it inspected. Swarm leaves out one it can no longer describe; kubernetes (`ErrorAdds`) only logs that its pods could not be listed, and announces it without targets (`Bare`) |
| `Refreshed` | the answers to a refresh request: a service that is not found, or whose query failed (`Flaky`), is announced as deleted; kubernetes has the error of its pods in the message |
| `LockedMerge` | `Merge` that waits for the lock: `WorkflowEngine` leaves the lock out, and so assumes no fairness of `Merge`; that a listener gets to merge is `ListenersComeBack` of this module |
| `VisitRefresh`, `RefreshTaken` | `refreshService` picks a provider of a map, in random order; its send is a rendezvous with the provider's `select` |
| `Misled` | not in the code: a step in which a provider comes to say what its platform does not, named so that `StaysQuiet` can except it |

The two kinds of providers differ only in what they say; both loops have one shape.

### 2.3 Restarts and the code

`stage` is where `run` is: `"up"`, `"signalled"` while it waits for the housekeeper to take
its request to stop (`server.go:164`; the housekeeper goes on sweeping, and nothing says it
ever comes back: the circle of `claim_deadlock` may keep it), `"stopping"` once it did,
`"saving"` while the file is truncated and not written. `down` is the set of extensions
that took their stop request, which each does only between two messages. Nothing stops
handlers or `messageSender`: they go on until the process ends, and `Truncate` waits only
for what `coreWG` counts, the listeners' messages, and for those only once the listener
goes on with them (`coreWG.Add` comes after the receive, `server.go:192-193`). `Start`
loads an image: the fields of each entry without its transition, in cells of its own, and
nothing of what was under way. `Kill` is a process that ends at any moment, what each
extension was working on being left in any state; it starts with the last file written. Two
history variables say what cannot be promised any more: `lost`, a process ended without
saving, or saved a definition whose handler had not begun; `disturbed`, something failed,
timed out, was cut by a shutdown, an answer was received and not merged before the save
(`Unheard`), or a provider repeated a deletion (`SaysAgain`).

### 2.4 The provisioners and the code

Each is one goroutine that takes a request, makes calls one after the other, and
answers. `at` names the call it is about to make, `job` what the Go functions keep in
their local variables, and the other variables what the device or the catalog holds. Each
call is an action: it succeeds, or it fails and *may have taken effect*, as a request
that times out can. `Restart` ends the process at any call. What is compared across
calls is kept to what the code compares: `LooksLike` is its `strings.Contains` on
addresses, `ReadMembers` compares lists whose order is that of a map (so that equal
targets may differ).

`Provisioner` is what `WorkflowEngine` supposes of `ext[q]` and `provisioned[q]`: its
`Reply` without error sets `provisioned[q][s]`, its failing reply leaves anything in it (as
`Fail` may after any `Work`), no reply touches another service. Each module says with
`content` what it holds of a service and with `CarriesOut` which contents carry out a
request; `CarriesOut` is where the weaknesses of the code show, as exceptions written out
(section 4). In `Kemplm`, `holder` says which service has an IP: the allocator gives a free
one to a service and takes it back (`Allocate`, `Release`), with whatever is left at it on
the LoadMaster, and what the device holds *of a service* is what stands at the IPs it has.
An IP is not released while a request of its service is worked on: on the way back the core
comes to the allocator when that is answered, as long as its messages about the service do
not cross (a deletion that is said twice may get there before; nothing is claimed of kemplm
then). `AddressMoves` is a step of the environment next to those of `Provisioner`. Consul's
answer for each alias that fails is `ReplyAliasError` of the engine.

### 2.5 IPAlloc and the code

`records` is the list in memory, `file` the file (`Torn` when it does not parse), `at`
the goroutine's place between taking a request and answering it. `ioutil.WriteFile`
truncates, then writes: two steps. `Restart` may happen anywhere. `held[s]` is not in
the allocator but in the world: the address `s` uses, from the answer to its `add` until
the core asks to release it, which it does after the steps that use it were undone.
`damaged` is a history variable: a save failed, or a crash cut one.

### 2.6 Mistake variants

An operator `X_Mistake` next to an operator `X` is `X` with a bug somebody could write
(a dropped guard, a flag that is not reset). No specification uses it; each property is
shown to notice at least one of them when it takes the place of `X`
(`mutants` in `PROJECT.json`).

## 3. Runs

`tlc -config <run>.cfg <module>`. Passing runs:

| run | module | instance | shows |
|---|---|---|---|
| `steps` | WorkflowList | every workflow of 1 to 5 extensions | `AgreesWithSteps`: list and loops compute `WorkflowSteps`; `WholeWalk`: a walk, in either direction and turned anywhere, stops at every provisioner once, in order |
| `engine_overlap` | MCEngine | 2 services, 2 messages in flight, 1 provider, 1 provisioner | `TypeOK`, `NoMixUp`, `NoLostWork`, `ClosedAsExpected`, `NoAmplification`, `ImplementsLifecycle` |
| `engine_rest` | MCEngine | 1 service, 2 messages in flight, random target order, a provisioner that answers failed aliases one by one, fairness | `ComesToRest` |
| `restarts` | MCRestarts | 1 service, 2 definitions, 1 message in flight, random target order, failures, timeouts, shutdowns and kills, fairness | `RestartsTypeOK`, `DeployedSurvives`, `UndeployedSurvives`, `LifecycleSurvives`, `ShutdownEnds`, `LoadedComesToRest` |
| `interlook` | MCInterlook | a swarm provider whose queries fail, 1 provisioner that keeps the action and answers twice, 1 service whose targets are given several times, 2 messages in flight, fairness at the table | `InterlookTypeOK`, `ImplementsEngine`, `StaysQuiet`, `ListenersComeBack` |
| `converges` | MCInterlook | a kubernetes provider whose queries fail (its announcements without targets are the second definition), 2 provisioners, 1 service, 1 message in flight, failures, timeouts, fairness | `Converges` |
| `f5ltm` | MCF5ltm | 2 services, 3 definitions, both update modes and one that is not supported | `TypeOK`, `DraftsAreRemoved`, `DefinitionKept`, `ImplementsProvisioner` |
| `kemplm` | MCKemplm | 2 services, one of which may get the other's IP after it, 5 definitions with up to 2 targets | `TypeOK`, `ImplementsProvisioner` |
| `consul` | MCConsul | 2 services, 3 definitions with up to 2 aliases | `TypeOK`, `ImplementsProvisioner` |
| `ipalloc` | MCIPAlloc | 3 services, 4 addresses of which 2 usable, failed and cut saves | `TypeOK`, `NoSharedAddress`, `HeldIsRecorded`, `OneRecordEach` |

Runs that refute what the repository says (section 4): `claim_ends`, `claim_deadlock`.

**Bounds.** `Handlers` bounds the messages in flight (`InFlight`): two is where messages
cross, answers come late, and a handler works on an entry another one moved. `Entries`
bounds the entry objects alive at once: two where messages cross, so that one that was
removed and one created again coexist; one in `interlook`, `converges` and `restarts`. Workflows have one
provisioner where the crossing of messages is the question. `ReplyAliasError` answers for
one failed alias per request. In `Interlook`, `Load` bounds what providers and housekeeper
start to say, so that no bound of the engine blocks them half way: a goroutine that waits
in the model waits in the code. The runs of `Interlook` have one provider each, one of a
kind; that a provider answers for services another one runs is in the theorems, which have
any number. The requests of the provisioners' runs are chosen so that a service changes its
targets, its names, and turns to TLS; a second service shares the policy, and, for `f5ltm`,
has an address in whose text the first one's occurs. The theorems have none of these
bounds.

`restarts` and `converges` have one message in flight because with two their properties are
false for reasons of the engine's own (section 4: an older answer completes a newer
request, a deletion is said twice, `claim_ends`). They say that messages crossing, and what
`lost`, `disturbed` and the exceptions of `Settled` name, are the *only* ways to lose an
update, to leave something behind, or never to get there.

**Deadlock** is checked for `ipalloc` and the three provisioners. It is not elsewhere: a
walk along a list ends, the process of `WorkflowEngine` ends when it crashes, and a bounded
instance may fill. The circular waits that matter are properties (`NoCircularWait`,
`ShutdownEnds`).

**Symmetry** is used in runs without liveness, on services, handlers and entries, which
no definition tells apart.

**Fairness.** `engine_rest`: weak fairness of each listener up to the table's lock, of each
handler, of `messageSender` and of the housekeeper's timeout: the Go scheduler runs runnable
goroutines, and the ticker comes back. That a listener gets the lock (`Merge`) is not
assumed. That the housekeeper runs is: `ComesToRest` says what its timeout is good for as
long as the circle of `claim_deadlock` has not closed. An extension owes nothing: it may never answer,
and then it keeps its listener idle and its request for ever. `ComesToRest` holds
nevertheless, because the timeout closes the entry. It supposes that providers fall silent
(`<>[]`), since each announcement may start work again, and that aliases stop failing, as
consul's second answer to a failed request starts the step again.

`interlook` (`TableFairness`): the goroutines that meet at the table run, listeners,
handlers up to where they need `messageSender`, the provider's sends and the sweep once it
began; a mutex and a `select` starve nobody (strong fairness of `LockedMerge` and
`RefreshTaken`). Neither the other extensions nor `messageSender` owe anything.
`ListenersComeBack` excepts the states in which the circle has closed, or the process is gone
(`Wedged`). The circle takes three messages, as `claim_deadlock` has; with the two of this
run it is out of reach, and the run shows that nothing else holds a listener up, neither the
lock nor a request that is never sent. Each wait for the lock ends because the sweep does.

`restarts`: the process does not stand still while it can move (`Progress`, as a whole:
weaker than fairness of each goroutine), the timeout closes entries, and a shutdown's own
steps happen once the housekeeper took its request to stop (nothing is assumed of
`StopHousekeeper`; `ShutdownEnds` begins there). Here extensions are supposed to answer: the
shutdown waits for the work of each, and the code sets no timeout.

`converges` and `claim_ends` (`InterlookFairness`): besides, every goroutine runs; the tickers of
providers and housekeeper come back; the housekeeper's clocks expire where nothing resets
them (a service that runs nowhere is not heard of, so its refresh falls due; an entry in
progress at an end is not moved by anybody, so its timeout does). Strong fairness stands
where the code waits for a mutex or in a `select`, which starve nobody, and where the
bound on the messages, which the code does not have, would otherwise hold up a ticker.
Extensions answer, with or without an error. `Steady` is the hypothesis: from some time on
the platforms stand still and answer, provisioners succeed, and no timeout cuts work that is
under way.

## 4. Where code and documents part

Each of these is a run that TLC refutes, listed under `findings`:

* `claim_ends` - the announcement that should be ignored while a deployment is under way
  never is: the guard at `transition.go:48` reads `State` after it was overwritten, and the
  deployment is sent back to its first step. A provider that polls whenever the second
  provisioner is at work keeps a service from ever being deployed, although nothing fails.
  (That the guard is never true is the lemma `NeverIgnored` of `WorkflowEngineProofs`.)
* `claim_deadlock` - the housekeeper waits for a provider's goroutine with the table's
  lock held; the provider waits for its listener; the listener waits for the lock.

Met while modelling, visible in the models, and not given a run. In the core:

* a `delete` for an entry with no step behind it leaves `providerDeleteState` as its
  transition, which calls itself until the stack overflows (`RecurseDelete`,
  `transition.go:74`). Two refreshes of a service that is gone are enough, with both
  messages in flight at once; `Converges` shows that it takes two;
* an answer is tied to its request by the name of the extension only (`transition.go:88`), and
  the requests of two announcements may be forwarded in either order: the answer to the one
  moves the entry on, and that to the other, with the older definition, is dropped or completes
  a newer request. Without any fault or timeout a service is `deployed` without error while
  its provisioner holds something else. TLC finds it as a violation of `DeployedIsProvisioned`
  under `CalmInterlookSpec` with two provisioners, two definitions and two messages in flight;
  with one, `DeployedSurvives` holds;
* a `delete` that finds the entry on its way back goes back one step too many (`TurnBack`; the
  comment at `transition.go:67` means it to repeat the step, but `setNextStep` goes in the
  direction of the work), so that a provisioner is passed over: `SaysAgain` in `Restarts`;
* a late answer finds a closed entry "not in progress" and sets it in progress at
  `deployed` or `undeployed`, with a request that `Forward` drops
  (`transition.go:113-116`), until the next timeout;
* a late answer for a service that was removed creates its entry again, expected to be
  deployed (`workflow.go:366-369`);
* an entry closed by the timeout is `deployed`, in error, and as wanted: no poll takes its
  deployment up again; and an entry in error at a provisioner whose service is gone stays
  for ever, as only deployed entries are refreshed. `Settled` excepts both, and `Converges`
  fails without either exception;
* an entry closed by the timeout in the middle of its undeployment is `undeployed`, in
  error, and the housekeeper forgets it with the steps before it still provisioned.

Between core and providers:

* with definitions in `Reordered`, an unchanged service with several targets is
  redeployed by a poll; `StaysQuiet` is for definitions with one target;
* a failed query of the platform undeploys a service that runs; kubernetes announces a
  service whose pods it could not list without targets, without an error when it polls;
  and the housekeeper asks a provider at random, so that one that does not run the service
  says it is gone. `StaysQuiet` excludes these steps by name (`Misled`).

At the end of the process:

* `coreWG` counts messages being merged, not handlers: a definition can be saved in an
  entry that is `deployed` without anything having been asked of a provisioner
  (`Unbegun`);
* a redeployment that is cut by a shutdown leaves its entry in the middle; a deletion that
  follows undeploys from there, and the later steps keep what they had (`InProgress`);
* a killed process starts with a table as old as its last orderly shutdown, or without any
  if it was killed while the file was rewritten.

In the provisioners:

* f5ltm: a service that turns to or from TLS leaves its rule in the policy of the other
  kind; an update moves a virtual server only if `strings.Contains` does not find the new
  destination in the old one; an addition that failed after its pool was created cannot be
  repeated, as `addPool` fails on a pool that exists, and a deletion after an incomplete
  addition goes on failing in `RemoveRule`; a draft that was left blocks its policy; if
  the second call of a member update fails, the next one reads the spoiled definition back
  and makes it permanent;
* kemplm: the status of `addvs` and `addrs` is not looked at, real services are never
  removed, neither those of an earlier definition nor those of the service that had the IP
  before, an old virtual service at the other port stays; its `update` request does
  nothing, and the core never sends one;
* consul: aliases dropped from a definition stay registered; an alias two services share
  belongs to whichever came last;
* ipalloc: after a save was cut, the allocator starts with an empty list and gives away
  addresses in use; `NoSharedAddress` and `HeldIsRecorded` hold until then.

## 5. Proofs

Each `...Proofs` module is checked by `tlapm`.

| theorem | in | states |
|---|---|---|
| `ListAgreesWithSteps` | WorkflowListProofs | `Spec => []AgreesWithSteps`: the code's list, loops and recursion compute what `WorkflowSteps` defines, for every configuration |
| `WalksAreWhole` | WorkflowListProofs | `Spec => []WholeWalk` |
| `NextStepExists` (from `NextStepIsAhead`, `NextStepIsNearest`) | WorkflowEngineProofs | a service that is not at the end of its way has a next step; it is ahead, no provider's, and nothing that could be stopped at lies between |
| `TypeCorrect` | WorkflowEngineProofs | `Spec => []TypeOK`; the part that is not about types: an entry never rests at a provider's step |
| `Unmixed` | WorkflowEngineProofs | `Spec => []NoMixUp` |
| `WorkIsNeverLost` | WorkflowEngineProofs | `Spec => []NoLostWork` |
| `AnsweredOnce` | WorkflowEngineProofs | `Spec => NoAmplification`, with finitely many handlers |
| `ClosedWhereExpected` | WorkflowEngineProofs | `Spec => []ClosedAsExpected`, if `EndsWithProvisioner` |
| `EngineImplementsLifecycle` | WorkflowEngineProofs | `Spec => ImplementsLifecycle`, if `EndsWithProvisioner`: the engine refines `ServiceLifecycle` |
| `InterlookTypes` | InterlookProofs | `InterlookSpec => []InterlookTypeOK` |
| `InterlookImplementsEngine` | InterlookProofs | `InterlookSpec => ImplementsEngine`: every theorem about `WorkflowEngine` is one about providers, housekeeper and engine together |
| `InterlookKeepsWork` | InterlookProofs | `InterlookSpec => [](NoMixUp /\ NoLostWork)`, by the refinement |
| `InterlookAnswersOnce` | InterlookProofs | `InterlookSpec => NoAmplification`, by the refinement, with finitely many handlers |
| `InterlookImplementsLifecycle` | InterlookProofs | `InterlookSpec => ImplementsLifecycle /\ []ClosedAsExpected`, if `EndsWithProvisioner`: one refinement after the other |
| `DeployedIsLeftAlone` | InterlookProofs | `InterlookSpec => StaysQuiet`, if `Reordered = {}` |
| `RestartsTypes`, `RestartsMixNothing`, `RestartsCloseAsExpected` | RestartsProofs | `RestartsSpec => []RestartsTypeOK`, `[]NoMixUp`, `[]ClosedAsExpected` (if `EndsWithProvisioner`): what the engine keeps within one life of its process it keeps across lives |
| `RestartsKeepLifecycle` | RestartsProofs | `RestartsSpec => LifecycleSurvives`, if `EndsWithProvisioner` |
| `DeployedIsKept` | RestartsProofs | `RestartsSpec /\ []OneAtATime => []DeployedSurvives`, if `ProvidersFirst` and `EndsWithProvisioner`, with finitely many handlers |
| `UndeployedIsKept` | RestartsProofs | `RestartsSpec /\ []OneAtATime => []UndeployedSurvives`, if `EndsWithProvisioner`, with finitely many handlers |
| `OneHandlerOneMessage` | RestartsProofs | `RestartsSpec => []OneAtATime`, with one handler |
| `OneMessageKeepsBoth` | RestartsProofs | `RestartsSpec => [](DeployedSurvives /\ UndeployedSurvives)`, if `ProvidersFirst` and `EndsWithProvisioner`, with one handler: what the run `restarts` checks, for every workflow and any number of services, definitions and lives |
| `F5Type`, `F5DraftsRemoved`, `F5DefinitionKept` | F5ltmProofs | the three invariants of the run |
| `F5Provisions` | F5ltmProofs | `Spec => ImplementsProvisioner` |
| `KemplmType`, `KemplmProvisions` | KemplmProofs | `Spec => []TypeOK`; `Spec => ImplementsProvisioner`: no request works at the IP of another service, although IPs go from one to another, and answers without error are true but for what `CarriesOut` excepts (refused additions, leftover real services, the other port) |
| `ConsulType`, `ConsulProvisions` | ConsulProofs | the same of consul, if no two services name the same alias |
| `AllocTypeCorrect` | IPAllocProofs | `Spec => [](TypeOK /\ RequestUnderWay)` |
| `RecordedOnce` | IPAllocProofs | `Spec => []OneRecordEach` |
| `HeldStaysRecorded` | IPAllocProofs | `Spec => []HeldIsRecorded` |
| `NeverShared` | IPAllocProofs | `Spec => []NoSharedAddress` |

**Assumptions.** `StepsAssumption` (a workflow has at least one step, providers are among
them), `EngineAssumption` and `NilAssumption` (the special values are none of the ordinary
ones). For `WorkflowList` `MaxStepsAssumption` (its bound is a number; the theorems hold
for each). For `Restarts` `ImageAssumption` (`Nil` is no entry). For the allocator
`IPAllocAssumption` and `NoneAssumption`; for `InterlookProofs` `InterlookAssumption`; for
each provisioner its `RequestAssumption` (requests have the fields the code reads; for
consul, no two services name the same alias, and its promise to leave other services alone
rests on that) and `NilAssumption`. `Kemplm` assumes nothing of addresses but has the
allocator's steps: a request is of the service that holds the IP at the time. Nothing is
assumed of the number of services, entries, handlers, steps, addresses or requests, nor
that there are finitely many services, entries or handlers; only where messages are counted
(`AnsweredOnce` and the theorems about `Restarts` that `IsFiniteSet(Handlers)` stands in)
the handlers are finitely many, as goroutines are.

Some theorems assume more of the behaviour or the configuration, as hypotheses of their own:

* those about the lifecycle, about where entries are closed, and the three about what is
  kept: `EndsWithProvisioner`, a provisioner comes after every provider, or else an
  announcement alone would make a service `deployed`;
* `DeployedIsLeftAlone`: `Reordered = {}`, definitions compare equal to themselves, which
  is so of those with one target;
* `DeployedIsKept` and `UndeployedIsKept`: `OneAtATime`, at most one listener, handler,
  extension or `messageSender` holds a message *about one service*. Messages about
  different services go on side by side, with any number of handlers. Without it both are
  false, as TLC finds for `restarts` with two handlers: the answer to an older request
  completes the newer one (section 4), and the process is stopped while a handler still
  holds that. `OneHandlerOneMessage` shows where it is met;
* `DeployedIsKept`: `ProvidersFirst`, every provider comes before every provisioner, as in
  the workflow of `docs/docs/configuration.md:17`. `setState` puts an entry at the step of
  the provider that speaks, so that a provisioner before it would never be asked to set the
  service up. `UndeployedIsKept` does not need it: the way back passes every step.

**The list.** First what the list is: every step has an id and a name of its own and stands
at the place its id says (`ListShape`, `ListIds`), so that the loops find one match at most
(`FoundByName`, `FoundByID`). `getNextStep` calls itself, and what a recursion computes is
usually shown by induction, which the provers cannot instantiate here. Two other facts do
instead. The steps that `WorkflowSteps` looks at all at once are, seen from a provider, those
seen from the step before it (`AnswerBeside`), so its answers *are* a solution of the equation
of the calls, and the recursive function is one as well. And there is one solution only
(`CallIs`): of the steps where another would differ, take the one nearest to the end of the
walk; its call goes on from a step nearer still. `WholeWalk` is then kept by a step, as
nothing that could be stopped at lies between a step and the next (`NearestAhead`), and by a
turn, after which a walk is one step long.

**Work is never lost.** `NoLostWork` is not inductive alone. That a handler's step keeps
the work of *other* services needs that no two services share an entry and that a handler
that runs for the table's entry of `s` holds a message about `s`: that is `NoMixUp`,
which in turn rests on `Merge` taking a cell nobody refers to - not even a goroutine
of a service that was removed. So `TypeOK` is proved first, then `TypeOK /\ NoMixUp`,
then `TypeOK /\ NoMixUp /\ NoLostWork`, each preserved by every action. For
`NoLostWork` the actions fall into four kinds, each with a lemma: a request is sent and
the entry set in progress (`SendKeeps`); an entry comes to an end or into error
(`EndKeeps`); a message goes from one holder to the next (`RequestsKeep`,
`ArrivalKeeps`, `CheckKeeps`); and a message is dropped (`DropKeeps`), which is the case
that matters: an answer of another step than the entry's, or a message
`serviceNeedUpdate` finds of no use, must not be the one the entry waits for.

**The lifecycle.** `ClosedAsExpected` speaks of the entries in the table; what is
inductive is `AllSound`, the same of *every* entry, since a goroutine may still work on
one that was dropped. Two facts carry it: only `closeState` reaches an end of the
workflow, and it does so at the end the entry expected (`CloseSound`); and a `delete`
that finds an entry at an end turns it round in place before it takes a step
(`TurnBackAtEnd`), which is what the phases of `ServiceLifecycle` need too. Each
handler therefore takes an entry only from a phase to one that may follow it
(`AddLeaves`, `DeleteLeaves`, `ReplyLeaves`), and `NoMixUp` makes a change of one entry a
change of one service's phase (`OneEntryMoves`): a step of the engine is a step of the
lifecycle, or a stutter.

**Counting.** `InFlight` adds up four sets of holders. A step that is not a provider's
send or the error of an alias takes a message from one holder and gives it to one at most,
so each such step has a lemma that bounds what its sets gain and lose (`MergeTakes`,
`RequestTaken`, `RequestForwarded`, `Answers`; all others only lose). `RequestTaken` needs
`NoMixUp`: a handler that still ran while its request is taken would go on to send
another. The same lemmas show that the messages never outnumber the handlers (`Bounded`),
which with one handler is `OneAtATime`.

**Restarts.** Each step is one of the engine, or leaves the engine alone, or is `Write` or
`Kill` (`EngineSteps`). For types, `NoMixUp` and `ClosedAsExpected` what was proved of the
engine's steps is used again, and `Started` says what a start makes of an image. The type
invariant has one part that is about the order of a shutdown: when the file is written every
extension was stopped, idle, after the housekeeper. `LifecycleSurvives` needs
in addition that a start gives every service of the image its entry as it was
(`WriteKeepsPhases`), so that `Write` is a stutter of `ServiceLifecycle`.

`DeployedSurvives` speaks of entries that have arrived. What is inductive speaks of them on
their way: `OnCourse(s)`, an entry that is meant to be deployed and without error is
provisioned, *with the definition it has now*, at every provisioner before its step; a
request about it is the one its step calls for; and an answer that would take it a step
forward is truthful. It is suspended while a provider's announcement is in the hands of a
handler that has not begun (`Announced`): the definition was merged and the entry still
stands where it did. That is the gap a shutdown can fall into, and why `lost` records
`Unbegun` at `Write`; otherwise an image has no announcement, and its entries are as the
cells they were taken from. With `ProvidersFirst` the handler takes the entry back before
every provisioner, where nothing is claimed of it.

For `UndeployedSurvives` the mirror of it, `Undone(s)`: of a service on its way back, the
provisioners *from its step on* have nothing (`GoneFrom`), a request or an answer under way
is that of the step the entry is at (`Asks`, `Tells`), an entry that is not at an end is
being worked on (`Settled`), and a service that is not in the table has left nothing, unless
an extension is at work on it or has answered (`Taken`). `NoneSkipped` is needed with it: a
dropped answer would leave an entry with nobody at work on it. All this ends
with the first failure, which is what `disturbed` records; at `Write` it is set unless no
entry is in progress and no listener has an answer, and then nobody's request is lost
(`LoadedUndone`).

Both rest on `InPlace` (a handler has the entry the table has, an extension the request
meant for it) and on `StepsOfService` (a step of the engine leaves a service alone, loses
its request, or is one of four kinds that are about it), so that each action is looked at
for the one service its message names.

**Providers and housekeeper.** That a step of `Interlook` is one of the engine needs what
its type invariant adds to the types: what a provider is about to send is a message the
engine expects of it, and the housekeeper visits entries of the table while it holds the
lock. That the bound on messages is respected is a guard of `ProviderSend` itself. For
`StaysQuiet`, `Quiet(s)` is strong enough to be kept by each action as it is: nobody who
could change the entry of `s` has a message about it but announcements that repeat its
definition, and `Check` sends those to `"skip"` because the entry is as wanted.

**The provisioners.** For each, the invariant says what is true *at each call* because of
the calls before it. In `F5ltm` it has, beside the types, six parts: `Place` (which calls a mode and a
request can come to), `Held` (what a call needs is there; and a draft agrees with its
policy in the rule of every *other* service, which is why one service's work does not undo
another's), `Done` (what the calls so far have brought about, as long as none failed: the
pool has the targets, the draft and then the policy the rule), `Drafts` (a draft is being
worked on, or was abandoned), `Defined` (a pool has its definition, but between the two
calls of an update, and so has the one that was read) and `Told` (the service of a request
under way has no answer that still counts). `ImplementsProvisioner` then follows action by action: `Take`,
`Answer` and `Restart` are `Take`, `Succeed` or `Fail`, every other call is `Work`; in
`Kemplm`, an IP that is given or taken back is `AddressMoves`.

**The allocator.** That addresses in use are recorded must survive a restart, which
replaces the list by what the file holds. So the invariant also says that the file is
the list except inside a save (`FileIsList`), that the file too holds each address and
service once (`FileOneEach`), and that the address of an answer under way is recorded
(`AnswerIsRecorded`) before anybody can use it. `NeverShared` then follows: two services
with one address would have two records of it.

**Only model-checked:** liveness (`ComesToRest`, `ListenersComeBack`,
`ShutdownEnds`, `LoadedComesToRest`, `Converges`), which needs `ENABLED` for its fairness and is out of the
prover's reach. Every invariant and every action property that a passing run checks is
stated by a theorem.

## 6. Not modelled

* Data races inside a transition: `setState`, `setNextStep` and `execute` lock the entry
  field by field, so two handlers of one entry could overwrite its transition between
  assignment and use.
* How providers build a definition from labels, tasks and pods: a definition is a value
  that the platform has.
* Requests of a kind the core never sends (kemplm's `update`), TLS profiles, monitors and
  the other attributes of a pool or virtual server: `defined` stands for them.
* Hangs of a device: the code sets no timeout on its calls, and a call that never returns
  is an extension that never answers.
* The HTTP API, whose only hazard is a race of the Go runtime; configuration, logging,
  code generation.
* The IP address an IPAM answer adds to a definition: no decision of the engine reads it.

## 7. Plan

Done, in this order: the steps and their list; the engine, its lifecycle; providers and
housekeeper; the allocator; persistence; the three other provisioners and their common
promise; the proofs of section 5.

What is left:

1. a weaker hypothesis than `OneAtATime` for `DeployedIsKept` and `UndeployedIsKept`: not
   every pair of messages about a service that crosses does harm;
2. convergence with several messages in flight, for polls that are slower than a
   deployment, which needs a model of time;
3. the races inside a transition.
