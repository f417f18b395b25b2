------------------------------ MODULE Interlook ------------------------------
(***************************************************************************)
(* The engine together with the two components that drive it: the           *)
(* providers, whose single goroutine polls a container platform and answers  *)
(* refresh requests (src/provider), and the housekeeper, which sweeps the    *)
(* table while it holds the lock that mergeMessage needs, and asks providers *)
(* for refreshes from inside the sweep (src/core/server.go).  The kubernetes *)
(* providers are those of ErrorAdds, the others are swarm.                   *)
(***************************************************************************)
EXTENDS WorkflowEngine

CONSTANTS
  Used,    \* the bound on the platforms: providers where services are started
  Flaky,   \* providers whose platform's API may fail
  Bare     \* the definition kubernetes announces when it finds no pod: no target

ASSUME InterlookAssumption ==
  /\ Used \subseteq ProviderSteps
  /\ Flaky \subseteq ProviderSteps
  /\ ErrorAdds # {} => Bare \in Defs
  /\ Nil \notin Defs \cup {NoDef}

VARIABLES
  platform,  \* the definition of each service each provider's platform runs
  loop,      \* each provider's goroutine: what is left of its poll, and the
             \* message it is blocked on sending
  locked,    \* the housekeeper holds the lock of the table
  todo,      \* the entries its sweep has still to visit
  visit      \* the visit it is in the middle of, or Nil

own == <<platform, loop, locked, todo, visit>>
allVars == <<vars, own>>

IdleLoop == [todo |-> {}, out |-> Nil]

Visits == [svc : Services, asked : ProviderSteps \cup {Nil}]

Loops(p) == [todo : SUBSET Services, out : ProviderMessages(p) \cup {Nil}]

\* The platforms, the providers' goroutines and the housekeeper hold what the code
\* puts there: a provider sends only what the engine expects of one, and the
\* housekeeper visits entries of the table only while it holds the lock.
InterlookTypeOK ==
  /\ platform \in [ProviderSteps -> [Services -> Defs \cup {Nil}]]
  /\ loop = [p \in ProviderSteps |-> loop[p]]
  /\ \A p \in ProviderSteps : loop[p] \in Loops(p)
  /\ locked \in BOOLEAN
  /\ todo \in SUBSET Services
  /\ visit \in Visits \cup {Nil}
  /\ (\E s \in todo : TRUE) \/ visit # Nil => locked
  /\ ~crashed => \A s \in todo : table[s] # Nil

InterlookInit ==
  /\ Init
  /\ platform = [p \in ProviderSteps |-> [s \in Services |-> Nil]]
  /\ loop = [p \in ProviderSteps |-> IdleLoop]
  /\ locked = FALSE
  /\ todo = {}
  /\ visit = Nil

\* The messages in flight, those the loops are about to send, and the answer to
\* the refresh request being sent: bounded by the number of handlers where a
\* provider or the housekeeper starts to speak.
Load ==
  InFlight
  + Cardinality({ps \in ProviderSteps \X Services : ps[2] \in loop[ps[1]].todo})
  + Cardinality({p \in ProviderSteps : loop[p].out # Nil})
  + (IF visit = Nil THEN 0 ELSE IF visit.asked = Nil THEN 0 ELSE 1)

-----------------------------------------------------------------------------
(* The providers. *)

\* Somebody starts, changes or removes a service.
PlatformChange(p, s) ==
  /\ ~crashed
  /\ p \in Used
  /\ \E d \in (Defs \cup {Nil}) \ {platform[p][s], Bare} :
       platform' = [platform EXCEPT ![p][s] = d]
  /\ UNCHANGED <<vars, loop, locked, todo, visit>>

AddMessage(p, s) ==
  [svc |-> s, step |-> p, action |-> "add", def |-> platform[p][s], err |-> FALSE]

\* The pods of the service could not be listed.
BareMessage(p, s, err) ==
  [svc |-> s, step |-> p, action |-> "add", def |-> Bare, err |-> err]

DeleteMessage(p, s) ==
  [svc |-> s, step |-> p, action |-> "delete", def |-> NoDef, err |-> FALSE]

\* poll lists the services of the platform.
Poll(p) ==
  LET found == {s \in Services : platform[p][s] # Nil}
  IN  /\ ~crashed
      /\ loop[p] = IdleLoop
      /\ found # {}
      /\ Load + Cardinality(found) <= Cardinality(Handlers)
      /\ loop' = [loop EXCEPT ![p].todo = found]
      /\ UNCHANGED <<vars, platform, locked, todo, visit>>

\* With a mistake: a service that is gone meanwhile is announced.
PollNext_Gone(p) ==
  /\ ~crashed
  /\ loop[p].out = Nil
  /\ \E s \in loop[p].todo :
       loop' = [loop EXCEPT ![p] = [todo |-> @.todo \ {s}, out |-> AddMessage(p, s)]]
  /\ UNCHANGED <<vars, platform, locked, todo, visit>>

\* What the inspection of a service found comes to: one whose targets are gone, or
\* could not be listed, is left out by swarm, and announced without any by
\* kubernetes, which only logs the error.
Announcements(p, s) ==
  LET found == platform[p][s] # Nil
  IN  (IF found THEN {AddMessage(p, s)} ELSE {})
      \cup (IF ~found \/ p \in Flaky
            THEN {IF p \in ErrorAdds THEN BareMessage(p, s, FALSE) ELSE Nil}
            ELSE {})

\* It inspects each in turn.
PollNext(p) ==
  /\ ~crashed
  /\ loop[p].out = Nil
  /\ \E s \in loop[p].todo : \E msg \in Announcements(p, s) :
       loop' = [loop EXCEPT ![p] = [todo |-> @.todo \ {s}, out |-> msg]]
  /\ UNCHANGED <<vars, platform, locked, todo, visit>>

\* The send that blocks the goroutine until its listener is back.
LoopSend(p) ==
  /\ loop[p].out # Nil
  /\ ProviderSend(p, loop[p].out)
  /\ loop' = [loop EXCEPT ![p].out = Nil]
  /\ UNCHANGED <<platform, locked, todo, visit>>

\* With a mistake: nothing is said of a service that is not found.
Refreshed_FoundOnly(p, s) ==
  (IF platform[p][s] # Nil
   THEN {AddMessage(p, s)}
        \cup (IF p \in Flaky \cap ErrorAdds THEN {BareMessage(p, s, TRUE)} ELSE {})
   ELSE {Nil})

\* The answers to a request to refresh s: a service that is not found, or whose
\* query failed, is announced as deleted.  Kubernetes notes an error if it
\* found the service but not its pods; for swarm that is "not found".
Refreshed(p, s) ==
  (IF platform[p][s] # Nil
   THEN {AddMessage(p, s)}
        \cup (IF p \in Flaky \cap ErrorAdds THEN {BareMessage(p, s, TRUE)} ELSE {})
   ELSE {})
  \cup (IF platform[p][s] = Nil \/ p \in Flaky THEN {DeleteMessage(p, s)} ELSE {})

RefreshService(p, s) ==
  \E msg \in Refreshed(p, s) : loop' = [loop EXCEPT ![p].out = msg]

-----------------------------------------------------------------------------
(* The housekeeper. *)

StartSweep ==
  /\ ~crashed
  /\ ~locked
  /\ locked' = TRUE
  /\ todo' = {s \in Services : table[s] # Nil}
  /\ UNCHANGED <<vars, platform, loop, visit>>

\* With a mistake: any entry is removed.
VisitRemove_Any(s) ==
  /\ ~crashed
  /\ locked /\ visit = Nil /\ s \in todo
  /\ table' = [table EXCEPT ![s] = Nil]
  /\ UNCHANGED <<listener, running, sending, forwarding, ext, provisioned, crashed>>
  /\ heap' = Collected(heap)
  /\ todo' = todo \ {s}
  /\ UNCHANGED <<platform, loop, locked, visit>>

\* What is due depends on the clocks: each check of the visit may find its time
\* expired or not.
VisitRemove(s) ==
  /\ locked /\ visit = Nil /\ s \in todo
  /\ Remove(s)
  /\ todo' = todo \ {s}
  /\ UNCHANGED <<platform, loop, locked, visit>>

\* Ask a provider, the first of a map in random order, to refresh the service.
VisitRefresh(s) ==
  /\ ~crashed
  /\ locked /\ visit = Nil /\ s \in todo
  /\ heap[table[s]].state = Deployed
  /\ Load < Cardinality(Handlers)
  /\ \E p \in ProviderSteps : visit' = [svc |-> s, asked |-> p]
  /\ todo' = todo \ {s}
  /\ UNCHANGED <<vars, platform, loop, locked>>

\* The request is sent on an unbuffered channel: the housekeeper waits, with the
\* lock, for the provider's goroutine to come back to its select.
RefreshTaken(p) ==
  /\ ~crashed
  /\ visit # Nil
  /\ visit.asked = p
  /\ loop[p] = IdleLoop
  /\ RefreshService(p, visit.svc)
  /\ visit' = [visit EXCEPT !.asked = Nil]
  /\ UNCHANGED <<vars, platform, locked, todo>>

\* The last check of a visit: was the entry in progress for too long?
VisitTimeOut(s) ==
  /\ locked
  /\ \/ visit = Nil /\ s \in todo
     \/ visit = [svc |-> s, asked |-> Nil]
  /\ TimeOut(s)
  /\ todo' = todo \ {s}
  /\ visit' = Nil
  /\ UNCHANGED <<platform, loop, locked>>

VisitDone(s) ==
  /\ ~crashed
  /\ locked
  /\ \/ visit = Nil /\ s \in todo
     \/ visit = [svc |-> s, asked |-> Nil]
  /\ todo' = todo \ {s}
  /\ visit' = Nil
  /\ UNCHANGED <<vars, platform, loop, locked>>

EndSweep ==
  /\ ~crashed
  /\ locked /\ visit = Nil /\ todo = {}
  /\ locked' = FALSE
  /\ UNCHANGED <<vars, platform, loop, todo, visit>>

Sweep ==
  \/ EndSweep
  \/ \E s \in Services : \/ VisitRemove(s) \/ VisitRefresh(s)
                         \/ VisitTimeOut(s) \/ VisitDone(s)

-----------------------------------------------------------------------------
(* The engine's own steps; mergeMessage waits for the lock. *)

LockedMerge(x) == ~locked /\ Merge(x) /\ UNCHANGED own

Listen(x) == (Check(x) \/ Skip(x)) /\ UNCHANGED own

Handle(h) == (Execute(h) \/ TakeRequest(h)) /\ UNCHANGED own

Provision(q) ==
  /\ Reply(q) \/ (Load < Cardinality(Handlers) /\ ReplyAliasError(q))
  /\ UNCHANGED own

ForwardRequest == Forward /\ UNCHANGED own

Provide(p) == PollNext(p) \/ LoopSend(p) \/ RefreshTaken(p)

InterlookNext ==
  \/ \E p \in ProviderSteps : Poll(p) \/ Provide(p)
  \/ \E p \in ProviderSteps, s \in Services : PlatformChange(p, s)
  \/ StartSweep \/ Sweep
  \/ \E x \in Extensions : LockedMerge(x) \/ Listen(x)
  \/ \E h \in Handlers : Handle(h)
  \/ ForwardRequest
  \/ \E q \in Provisioners : Provision(q)

InterlookSpec == InterlookInit /\ [][InterlookNext]_allVars

FoundOn(s) == {p \in ProviderSteps : platform[p][s] # Nil}

\* What the clocks make of a visit: nobody has spoken for long of a service that runs
\* nowhere; an entry is in progress at an end, where no extension has a request.
VisitForgotten(s) == FoundOn(s) = {} /\ VisitRefresh(s)

Stuck(s) == heap[table[s]].wip /\ heap[table[s]].state \in EndStates

VisitStuck(s) == VisitTimeOut(s) /\ Stuck(s)

\* The Go scheduler runs every runnable goroutine, and a mutex and a select starve
\* nobody: what those who meet at the table do, the listeners, the housekeeper
\* and the providers it asks, and the handlers, as long as nobody has to take their
\* requests.  Nothing is assumed of the other extensions, nor of the sender.
TableFairness ==
  /\ \A p \in ProviderSteps : WF_allVars(Provide(p)) /\ SF_allVars(RefreshTaken(p))
  /\ WF_allVars(Sweep)
  /\ \A x \in Extensions : SF_allVars(LockedMerge(x)) /\ WF_allVars(Listen(x))
  /\ \A h \in Handlers : WF_allVars(Execute(h) /\ UNCHANGED own)

TableSpec == InterlookSpec /\ TableFairness

\* Besides, the sender takes their requests, and the tickers of the providers and of the
\* housekeeper come back.  An extension is taken to answer, in error or not.  What
\* keeps Poll and the refresh from happening meanwhile is the bound on the
\* messages in flight.
InterlookFairness ==
  /\ TableFairness
  /\ \A p \in ProviderSteps : SF_allVars(Poll(p))
  /\ WF_allVars(StartSweep)
  /\ \A s \in Services : /\ SF_allVars(VisitRemove(s))
                         /\ SF_allVars(VisitForgotten(s))
                         /\ SF_allVars(VisitStuck(s))
  /\ \A h \in Handlers : WF_allVars(Handle(h))
  /\ WF_allVars(ForwardRequest)
  /\ \A q \in Provisioners : WF_allVars(Provision(q))

FairInterlookSpec == InterlookSpec /\ InterlookFairness

-----------------------------------------------------------------------------
(* Properties. *)

\* Whatever the providers and the housekeeper do, the engine sees a provider
\* that speaks: Interlook implements WorkflowEngine, within the same bound on
\* the messages in flight, and the engine's theorems hold of it.
ImplementsEngine == Spec

\* A message about service s that compares equal to its entry: an announcement, or a
\* late answer whose targets have lost no weight.
Confirms(msg, s) ==
  msg.svc = s =>
    /\ msg.action = "add" /\ ~msg.err /\ msg.def = heap[table[s]].def
    /\ msg.step \in Provisioners => msg.def \notin Weighted

\* Service s is deployed as the platforms that run it do, and nothing is under way
\* for it but announcements that say so.
Quiet(s) ==
  /\ table[s] # Nil
  /\ LET e == heap[table[s]]
     IN  /\ e.state = Deployed /\ e.expected = Deployed /\ ~e.wip
         /\ \E p \in ProviderSteps : platform[p][s] = e.def
         /\ \A p \in ProviderSteps : platform[p][s] \in {e.def, Nil}
  /\ \A p \in ProviderSteps :
       /\ loop[p].out # Nil => Confirms(loop[p].out, s)
       /\ s \in loop[p].todo => platform[p][s] # Nil
  /\ \A x \in Extensions : listener[x] # Nil =>
       /\ Confirms(listener[x].msg, s)
       /\ listener[x].msg.svc = s => listener[x].at # "merge"
  /\ \A h \in Handlers : /\ running[h] # Nil => running[h].msg.svc # s
                         /\ sending[h] # Nil => sending[h].svc # s
  /\ forwarding # Nil => forwarding.svc # s
  /\ \A q \in Provisioners : ext[q] # Nil => ext[q].svc # s

\* A provider is about to say something that is not so: that a service is gone
\* which runs (a query failed, or another provider runs it), or has no targets.
Misled(p) ==
  LET msg == loop'[p].out
  IN  /\ loop[p].out = Nil /\ msg # Nil
      /\ IF msg.action = "delete" THEN \E r \in ProviderSteps : platform[r][msg.svc] # Nil
                                  ELSE msg.err \/ msg.def # platform[p][msg.svc]

\* A service that is deployed as its platform runs it stays so, whatever is
\* polled, refreshed or swept, until a platform changes or a provider is misled
\* (serviceNeedUpdate is what filters the announcements that change nothing;
\* IsSameThan, by its comment at src/comm/message.go:80, compares definitions, and
\* src/README.md:13 has the providers detect a service's deletion).
StaysQuiet ==
  [][UNCHANGED platform /\ ~(\E p \in ProviderSteps : Misled(p)) =>
       \A s \in Services : Quiet(s) => Quiet(s)']_allVars

\* A poll leaves out a service that runs, as the query for it failed.
LeavesOut(p) ==
  \E s \in loop[p].todo \ loop'[p].todo : platform[p][s] # Nil /\ loop'[p].out = Nil

\* Nothing is started, changed or removed, nothing fails, nobody is misled, and the
\* timeout only finds entries for which nobody has a request.
Steady ==
  /\ UNCHANGED platform
  /\ \A q \in Provisioners : listener'[q] # Nil => ~listener'[q].msg.err
  /\ ~(\E p \in ProviderSteps : Misled(p) \/ LeavesOut(p))
  /\ \A s \in Services : TimeOut(s) => Stuck(s)

\* A service that runs is deployed as its platform runs it, and provisioned so
\* unless its entry is in error; one that is gone is forgotten, unless its entry
\* came into error on the way.
Settled(s) ==
  LET e == heap[table[s]]
  IN  IF FoundOn(s) = {}
      THEN table[s] = Nil \/ (e.error /\ e.state \notin EndStates)
      ELSE /\ table[s] # Nil
           /\ e.state = Deployed /\ ~e.wip
           /\ \A p \in FoundOn(s) : platform[p][s] = e.def
           /\ e.error \/ \A q \in Provisioners : provisioned[q][s] = e.def

\* Whatever failed, timed out or was changed before: once all is steady, the polls,
\* refreshes and sweeps bring every service to where its platform has it, and
\* leave it there (src/README.md:19, the core "ensures the relevant tasks are
\* performed [...] to bring the service to the desired state").
Converges ==
  <>[][Steady]_allVars => <>[](\A s \in Services : Settled(s))

\* A service that runs, and goes on running, comes to be deployed, however often its
\* provider polls meanwhile (src/core/transition.go:49, "Message ignored as service
\* %v is still under deployment").
DeploymentEnds ==
  <>[][Steady]_allVars /\ []~crashed =>
    \A s \in Services :
      []<>(FoundOn(s) = {} \/ (table[s] # Nil /\ heap[table[s]].state = Deployed))

\* The housekeeper, provider p and its listener wait for each other: the first for
\* the provider to take a refresh request, with the lock of the table; the second
\* for its listener to take a message; the third for the lock.
CircularWait(p) ==
  /\ visit # Nil /\ visit.asked = p
  /\ loop[p].out # Nil
  /\ listener[p] # Nil /\ listener[p].at = "merge"

\* They never do (src/docs/docs/configuration.md:22, "how often should the workflow
\* housekeeper run", supposes that it goes on running).
NoCircularWait == \A p \in ProviderSteps : ~CircularWait(p)

Wedged == crashed \/ ~NoCircularWait

\* A listener that took a message comes back to its channel, and its extension with
\* it, however many requests are blocked: it hands the message to a goroutine and
\* waits for no request (workflow.go:375).  The sweep it may find holding the lock
\* of the table comes to its end, with the refreshes it asks for on the way.  The
\* circle of the three is the only thing that can hold it up.
ListenersComeBack ==
  \A x \in Extensions : listener[x] # Nil ~> Wedged \/ listener[x] = Nil
=============================================================================
