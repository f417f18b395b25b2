--------------------------- MODULE WorkflowEngine ---------------------------
(***************************************************************************)
(* The workflow engine of interlook: the table of tracked services, the     *)
(* listeners that merge the extensions' messages into it, the goroutines    *)
(* that run a message through its entry's transition, the forwarder of      *)
(* requests and the provisioners at the other end (src/core/workflow.go,    *)
(* transition.go, server.go).                                               *)
(*                                                                          *)
(* A provider is an environment that may send any message at any time; the  *)
(* clocks of the housekeeper are abstracted to "may have expired".  All the *)
(* channels are unbuffered, so a message is always held by somebody: the    *)
(* goroutine that waits to send it, the forwarder, the extension, or a      *)
(* listener.  A transition is one step up to the point where it blocks on   *)
(* msgToExtension; mergeMessage is two, because it reads the table before   *)
(* it takes the lock.                                                       *)
(***************************************************************************)
EXTENDS WorkflowSteps, FiniteSets

CONSTANTS
  Services,      \* names of the services
  Entries,       \* addresses of workflowEntry objects
  Handlers,      \* goroutines spawned by mergeMessage: the bound on messages
                 \* in flight
  Defs,          \* definitions a provider publishes (targets, TLS, aliases)
  NoDef,         \* the empty definition
  Nil,           \* an empty channel, cell or table slot
  Reordered,     \* definitions with several targets, whose order is random
  Weighted,      \* definitions with a target that was given several times
  KeepsAction,   \* the provisioners whose answer keeps the request's action, and
                 \* the actions they keep (f5ltm, which in one of its modes
                 \* makes an "update" of a "delete")
  MultiReply,    \* provisioners that answer once more for a failed alias (consul)
  ErrorAdds      \* providers whose "add" may carry an error (kubernetes)

Actions == {"add", "update", "delete"}

ASSUME EngineAssumption ==
  /\ NoDef \notin Defs
  /\ Nil \notin Entries
  /\ Reordered \subseteq Defs
  /\ Weighted \subseteq Defs
  /\ KeepsAction \subseteq Provisioners \X Actions
  /\ MultiReply \subseteq Provisioners
  /\ ErrorAdds \subseteq ProviderSteps

VARIABLES
  table,        \* workflowEntries.Entries: service -> address or Nil
  heap,         \* the workflowEntry at each address
  listener,     \* what each extension's listener is doing
  running,      \* a handler that has not run yet: its entry and message
  sending,      \* a handler blocked on msgToExtension: its request
  forwarding,   \* the request messageSender holds
  ext,          \* the request each provisioner is working on
  provisioned,  \* what each provisioner has set up for each service
  crashed       \* the process died (stack overflow, nil dereference)

vars == <<table, heap, listener, running, sending, forwarding, ext,
          provisioned, crashed>>

-----------------------------------------------------------------------------
(* Messages and entries. *)

\* `step` is the sender of a message to the core, the destination of a request.
Message == [svc : Services, step : StepIds, action : Actions,
            def : Defs \cup {NoDef}, err : BOOLEAN]

Entry == [state : StepIds, expected : EndStates, wip : BOOLEAN,
          error : BOOLEAN, closed : BOOLEAN, def : Defs \cup {NoDef}]

\* An entry is at a provider's step only inside a transition.
Resting == {e \in Entry : e.state \notin ProviderSteps}

isReverse(e) == e.expected = Undeployed

setNextStep(e) ==
  IF HasNextStep(e.state, isReverse(e))
  THEN [e EXCEPT !.state = getNextStep(e.state, isReverse(e)),
                 !.wip = FALSE, !.closed = FALSE]
  ELSE e

makeNewFlowEntry ==
  setNextStep([state |-> Undeployed, expected |-> Deployed, wip |-> FALSE,
               error |-> FALSE, closed |-> FALSE, def |-> NoDef])

setState(e, msg) ==
  [e EXCEPT !.state = msg.step, !.wip = FALSE, !.error = msg.err,
            !.closed = FALSE]

\* Only a provider's add changes the definition (the IP an IPAM step adds is
\* left out: no decision of the engine reads it).
updateService(e, msg) ==
  IF msg.step \in ProviderSteps /\ msg.action # "delete"
  THEN [e EXCEPT !.def = msg.def] ELSE e

\* With mistakes: the target is not looked at; the work in progress is not ended.
close_Deployed(e, err) ==
  [e EXCEPT !.wip = FALSE, !.error = @ \/ err, !.closed = TRUE, !.state = Deployed]

close_StillWip(e, err) ==
  [e EXCEPT !.error = @ \/ err, !.closed = TRUE,
            !.state = IF isReverse(e) THEN Undeployed ELSE Deployed]

close(e, err) ==
  [e EXCEPT !.wip = FALSE, !.error = @ \/ err, !.closed = TRUE,
            !.state = IF isReverse(e) THEN Undeployed ELSE Deployed]

\* With a mistake: an undeployment asks for an addition.
BuildMessage_AlwaysAdds(svc, e) ==
  [svc |-> svc, step |-> e.state, def |-> e.def, err |-> FALSE, action |-> "add"]

BuildMessage(svc, e) ==
  [svc |-> svc, step |-> e.state, def |-> e.def, err |-> FALSE,
   action |-> IF isReverse(e) THEN "delete" ELSE "add"]

\* With a mistake: a deployed service is never as wanted.
isStateAsWanted_Undeployed(e, action) ==
  e.expected = Undeployed /\ e.state = Undeployed /\ action = "delete"

isStateAsWanted(e, action) ==
  /\ e.expected = e.state
  /\ \/ e.state = Deployed /\ action = "add"
     \/ e.state = Undeployed /\ action = "delete"

\* SetTargetWeight rebuilds the targets of each message in the random order of a
\* map, and counts how often each was given.  An extension sends each of them back
\* once, so that the weights of its answer are all 1.  Whether the targets of
\* such a message are listed as those of an entry with its definition.
SetTargetWeight(msg) ==
  IF msg.step \in Provisioners /\ msg.def \in Weighted THEN {FALSE}
  ELSE IF msg.def \in Reordered THEN BOOLEAN
  ELSE {TRUE}

\* The possible answers, for the comparison is sensitive to order and weights.
IsSameThan(def, msg) == IF def = msg.def THEN SetTargetWeight(msg) ELSE {FALSE}

serviceNeedUpdate(msg) ==
  IF table[msg.svc] = Nil THEN {TRUE}
  ELSE LET e == heap[table[msg.svc]]
       IN  {~(same /\ isStateAsWanted(e, msg.action)) :
              same \in IsSameThan(e.def, msg)}

-----------------------------------------------------------------------------
(* Who holds what. *)

Tasks == [entry : Entries, msg : Message]
Jobs == [msg : Message, at : {"check", "merge", "skip"}]

ASSUME NilAssumption == Nil \notin Tasks \cup Jobs \cup Message

Busy(h) == running[h] # Nil \/ sending[h] # Nil

\* The messages that exist: each is held by exactly one of these.
InFlight ==
  Cardinality({h \in Handlers : Busy(h)})
  + Cardinality({x \in Extensions : listener[x] # Nil})
  + Cardinality({q \in Provisioners : ext[q] # Nil})
  + (IF forwarding = Nil THEN 0 ELSE 1)

\* A cell the table or a handler refers to.  The others are free: their content
\* is the same whatever they held (the garbage collector's part).
Referenced(c) ==
  \/ \E s \in Services : table[s] = c
  \/ \E h \in Handlers : running[h] # Nil /\ running[h].entry = c

FreeCell == makeNewFlowEntry

Collected(cells) == [c \in Entries |-> IF Referenced(c)' THEN cells[c] ELSE FreeCell]

Init ==
  /\ table = [s \in Services |-> Nil]
  /\ heap = [c \in Entries |-> FreeCell]
  /\ listener = [x \in Extensions |-> Nil]
  /\ running = [h \in Handlers |-> Nil]
  /\ sending = [h \in Handlers |-> Nil]
  /\ forwarding = Nil
  /\ ext = [q \in Provisioners |-> Nil]
  /\ provisioned = [q \in Provisioners |-> [s \in Services |-> Nil]]
  /\ crashed = FALSE

-----------------------------------------------------------------------------
(* The listener of each extension: extensionListener and mergeMessage. *)

\* The extension's blocking send reaches its listener, which tags the sender.
Receive(x, msg) ==
  /\ listener[x] = Nil
  /\ listener' = [listener EXCEPT ![x] = [msg |-> [msg EXCEPT !.step = x], at |-> "check"]]

\* A provider announces a service, or that it is gone (with its name only).
ProviderMessages(p) ==
  [svc : Services, step : {p}, action : {"add"}, def : Defs,
   err : IF p \in ErrorAdds THEN BOOLEAN ELSE {FALSE}]
  \cup [svc : Services, step : {p}, action : {"delete"}, def : {NoDef}, err : {FALSE}]

ProviderSend(p, msg) ==
  /\ ~crashed
  /\ InFlight < Cardinality(Handlers)
  /\ Receive(p, msg)
  /\ UNCHANGED <<table, heap, running, sending, forwarding, ext, provisioned, crashed>>

\* serviceNeedUpdate reads the table without its lock.
Check(x) ==
  /\ ~crashed
  /\ listener[x] # Nil
  /\ listener[x].at = "check"
  /\ \E need \in serviceNeedUpdate(listener[x].msg) :
       listener' = [listener EXCEPT ![x].at = IF need THEN "merge" ELSE "skip"]
  /\ UNCHANGED <<table, heap, running, sending, forwarding, ext, provisioned, crashed>>

\* Nothing to do: note the time on the entry, which may have gone meanwhile.
Skip(x) ==
  /\ ~crashed
  /\ listener[x] # Nil
  /\ listener[x].at = "skip"
  /\ crashed' = (table[listener[x].msg.svc] = Nil)
  /\ listener' = [listener EXCEPT ![x] = Nil]
  /\ UNCHANGED <<table, heap, running, sending, forwarding, ext, provisioned>>

\* With a mistake: the listener runs the transition itself, so that it waits while
\* a request is blocked.
Spawn_Inline(x, c, e) ==
  LET msg == listener[x].msg
  IN  /\ \A h \in Handlers : ~Busy(h)
      /\ table' = [table EXCEPT ![msg.svc] = c]
      /\ heap' = [heap EXCEPT ![c] = updateService(e, msg)]
      /\ \E h \in Handlers : running' = [running EXCEPT ![h] = [entry |-> c, msg |-> msg]]
      /\ listener' = [listener EXCEPT ![x] = Nil]
      /\ UNCHANGED <<sending, forwarding, ext, provisioned, crashed>>

\* Update the entry, found or new, and spawn a goroutine for the message.
Spawn(x, c, e) ==
  LET msg == listener[x].msg
  IN  /\ table' = [table EXCEPT ![msg.svc] = c]
      /\ heap' = [heap EXCEPT ![c] = updateService(e, msg)]
      /\ \E h \in Handlers :
           /\ ~Busy(h)
           /\ running' = [running EXCEPT ![h] = [entry |-> c, msg |-> msg]]
      /\ listener' = [listener EXCEPT ![x] = Nil]
      /\ UNCHANGED <<sending, forwarding, ext, provisioned, crashed>>

\* With a mistake: a new service may be given the entry of another.
Merge_SharedEntry(x) ==
  /\ ~crashed
  /\ listener[x] # Nil
  /\ listener[x].at = "merge"
  /\ LET c == table[listener[x].msg.svc]
     IN  \/ c # Nil /\ Spawn(x, c, heap[c])
         \/ c = Nil /\ \E new \in Entries : Spawn(x, new, makeNewFlowEntry)

\* All of it under the lock of the table, which the housekeeper takes as well: here
\* the wait for it may take any time, or not end (Interlook has the lock).
Merge(x) ==
  /\ ~crashed
  /\ listener[x] # Nil
  /\ listener[x].at = "merge"
  /\ LET c == table[listener[x].msg.svc]
     IN  \/ c # Nil /\ Spawn(x, c, heap[c])
         \/ c = Nil /\ \E new \in Entries : ~Referenced(new) /\ Spawn(x, new, makeNewFlowEntry)

-----------------------------------------------------------------------------
(* The transitions a handler runs. *)

\* The handler leaves its entry as e and ends.
Finish(h, e) ==
  /\ running' = [running EXCEPT ![h] = Nil]
  /\ UNCHANGED <<table, listener, sending, forwarding, ext, provisioned>>
  /\ heap' = Collected([heap EXCEPT ![running[h].entry] = e])

sendToExtension(h, e) ==
  /\ running' = [running EXCEPT ![h] = Nil]
  /\ sending' = [sending EXCEPT ![h] = BuildMessage(running[h].msg.svc, e)]
  /\ UNCHANGED <<table, listener, forwarding, ext, provisioned>>
  /\ heap' = Collected([heap EXCEPT ![running[h].entry] = [e EXCEPT !.wip = TRUE]])

\* Run the transition of the step e was just moved to.
Proceed(h, e) ==
  IF e.state \in EndStates THEN Finish(h, close(e, running[h].msg.err))
                           ELSE sendToExtension(h, e)

Runs(h, kinds, action) ==
  /\ ~crashed
  /\ running[h] # Nil
  /\ running[h].msg.step \in kinds
  /\ running[h].msg.action \in action

\* providerState, then providerAddState.
stillUnderDeployment(e) == ~e.closed /\ ~e.error /\ e.state \notin ProviderSteps

ExecuteAdd(h) ==
  /\ Runs(h, ProviderSteps, {"add"})
  /\ LET e == setState([heap[running[h].entry] EXCEPT !.expected = Deployed],
                        running[h].msg)
     IN  IF stillUnderDeployment(e) THEN Finish(h, e)
                                    ELSE Proceed(h, setNextStep(e))
  /\ UNCHANGED crashed

\* providerState, then providerDeleteState: the entry it turns back.
TurnBack(e) ==
  [(IF e.wip THEN setNextStep(e) ELSE e) EXCEPT !.expected = Undeployed]

ExecuteDelete(h) ==
  LET e == TurnBack(heap[running[h].entry])
  IN  /\ Runs(h, ProviderSteps, {"delete"})
      /\ HasNextStep(e.state, TRUE)
      /\ Proceed(h, setNextStep(e))
      /\ UNCHANGED crashed

\* There is no step behind "undeployed": setNextStep leaves the transition as
\* it is, providerDeleteState calls itself without end, the stack overflows.
RecurseDelete(h) ==
  LET e == TurnBack(heap[running[h].entry])
  IN  /\ Runs(h, ProviderSteps, {"delete"})
      /\ ~HasNextStep(e.state, TRUE)
      /\ Finish(h, e)
      /\ crashed' = TRUE

\* With a mistake: the error of an answer is not kept.
Failed_NoError(e) == [e EXCEPT !.wip = FALSE]

\* An extension answered with an error.
Failed(e) == [e EXCEPT !.wip = FALSE, !.error = TRUE]

\* provisionerState: the answer of an extension.
ExecuteReply(h) ==
  LET e == heap[running[h].entry]
      msg == running[h].msg
      next == setNextStep(updateService(e, msg))
  IN  /\ Runs(h, Provisioners, Actions)
      /\ \/ e.wip /\ msg.step # e.state /\ Finish(h, e)
         \/ e.wip /\ msg.step = e.state /\ msg.err /\ Finish(h, Failed(e))
         \/ e.wip /\ msg.step = e.state /\ ~msg.err
            /\ IF isLastStep(next.state, isReverse(next))
               THEN Finish(h, close(next, msg.err))
               ELSE sendToExtension(h, next)
         \/ ~e.wip /\ sendToExtension(h, e)
      /\ UNCHANGED crashed

Execute(h) == ExecuteAdd(h) \/ ExecuteDelete(h) \/ RecurseDelete(h) \/ ExecuteReply(h)

-----------------------------------------------------------------------------
(* Requests: messageSender and the provisioners. *)

\* messageSender takes the request of any of the blocked handlers.
TakeRequest(h) ==
  /\ ~crashed
  /\ sending[h] # Nil
  /\ forwarding = Nil
  /\ forwarding' = sending[h]
  /\ sending' = [sending EXCEPT ![h] = Nil]
  /\ UNCHANGED <<table, heap, listener, running, ext, provisioned, crashed>>

\* The destination's channel takes the request when its extension is idle; a
\* request to a step that is no extension is logged and lost.
Forward ==
  /\ ~crashed
  /\ forwarding # Nil
  /\ LET q == forwarding.step
     IN  \/ q \in Provisioners /\ ext[q] = Nil /\ ext' = [ext EXCEPT ![q] = forwarding]
         \/ q \in EndStates /\ UNCHANGED ext
  /\ forwarding' = Nil
  /\ UNCHANGED <<table, heap, listener, running, sending, provisioned, crashed>>

\* The action of the answer to a request.
ReplyAction(q, req) ==
  IF <<q, req.action>> \in KeepsAction THEN req.action ELSE "update"

Applied(req) == IF req.action = "delete" THEN Nil ELSE req.def

\* With a mistake: the extension answers, and answers the same request again.
Reply_Again(q) ==
  /\ ~crashed
  /\ ext[q] # Nil
  /\ Receive(q, [ext[q] EXCEPT !.action = ReplyAction(q, ext[q])])
  /\ provisioned' = [provisioned EXCEPT ![q][ext[q].svc] = Applied(ext[q])]
  /\ UNCHANGED <<table, heap, running, sending, forwarding, ext, crashed>>

\* What a provisioner may hold of a service.
Contents == Defs \cup {NoDef, Nil}

\* Extension q has done its work, or failed, which may leave anything of the service.
Reply(q) ==
  /\ ~crashed
  /\ ext[q] # Nil
  /\ LET req == ext[q]
     IN  \E failed \in {req.err, TRUE}, left \in Contents :
           /\ failed \/ left = Applied(req)
           /\ Receive(q, [req EXCEPT !.action = ReplyAction(q, req), !.err = failed])
           /\ provisioned' = [provisioned EXCEPT ![q][req.svc] = left]
  /\ ext' = [ext EXCEPT ![q] = Nil]
  /\ UNCHANGED <<table, heap, running, sending, forwarding, crashed>>

\* One alias failed: its error is sent at once, and the work goes on.  The bound:
\* one alias of a request fails.
ReplyAliasError(q) ==
  /\ ~crashed
  /\ q \in MultiReply
  /\ ext[q] # Nil
  /\ ext[q].action = "add"
  /\ ~ext[q].err
  /\ InFlight < Cardinality(Handlers)
  /\ Receive(q, [ext[q] EXCEPT !.action = ReplyAction(q, ext[q]), !.err = TRUE])
  /\ ext' = [ext EXCEPT ![q].err = TRUE]
  /\ UNCHANGED <<table, heap, running, sending, forwarding, provisioned, crashed>>

-----------------------------------------------------------------------------
(* The housekeeper's work on one entry; its clocks may have expired at any  *)
(* time.                                                                    *)

TimeOut(s) ==
  /\ ~crashed
  /\ table[s] # Nil
  /\ heap[table[s]].wip
  /\ heap' = [heap EXCEPT ![table[s]] = close(@, TRUE)]
  /\ UNCHANGED <<table, listener, running, sending, forwarding, ext, provisioned, crashed>>

\* With a mistake: a deployed entry is removed too.
Removable_Closed(e) == e.state = e.expected /\ ~e.wip

Removable(e) == e.state = e.expected /\ ~e.wip /\ e.state = Undeployed

Remove(s) ==
  /\ ~crashed
  /\ table[s] # Nil
  /\ Removable(heap[table[s]])
  /\ table' = [table EXCEPT ![s] = Nil]
  /\ UNCHANGED <<listener, running, sending, forwarding, ext, provisioned, crashed>>
  /\ heap' = Collected(heap)

-----------------------------------------------------------------------------
SomeProviderSends ==
  \E p \in ProviderSteps : \E msg \in ProviderMessages(p) : ProviderSend(p, msg)

SomeAliasFails == \E q \in Provisioners : ReplyAliasError(q)

Next ==
  \/ SomeProviderSends
  \/ \E x \in Extensions : Check(x) \/ Skip(x) \/ Merge(x)
  \/ \E h \in Handlers : Execute(h) \/ TakeRequest(h)
  \/ Forward
  \/ \E q \in Provisioners : Reply(q) \/ ReplyAliasError(q)
  \/ \E s \in Services : TimeOut(s) \/ Remove(s)

Spec == Init /\ [][Next]_vars

\* The Go scheduler runs every runnable goroutine, and the housekeeper's ticker
\* closes an entry that stays in progress.  Nothing is assumed of extensions, nor
\* of a listener that waits for the table.
Fairness ==
  /\ \A x \in Extensions : WF_vars(Check(x) \/ Skip(x))
  /\ \A h \in Handlers : WF_vars(Execute(h)) /\ WF_vars(TakeRequest(h))
  /\ WF_vars(Forward)
  /\ \A s \in Services : WF_vars(TimeOut(s))

FairSpec == Spec /\ Fairness

-----------------------------------------------------------------------------
(* Properties. *)

\* Every channel, slot and entry holds what the code can put there; an entry is
\* never at a provider's step once its handler has run (setNextStep).
TypeOK ==
  /\ table \in [Services -> Entries \cup {Nil}]
  /\ heap \in [Entries -> Resting]
  /\ listener \in [Extensions -> Jobs \cup {Nil}]
  /\ running \in [Handlers -> Tasks \cup {Nil}]
  /\ sending \in [Handlers -> Message \cup {Nil}]
  /\ forwarding \in Message \cup {Nil}
  /\ ext \in [Provisioners -> Message \cup {Nil}]
  /\ provisioned \in [Provisioners -> [Services -> Contents]]
  /\ crashed \in BOOLEAN

\* A message about service s, at step q, on its way to the entry of s.
OnItsWay(s, q) ==
  \/ \E h \in Handlers : \/ sending[h] # Nil /\ sending[h].svc = s /\ sending[h].step = q
                        \/ /\ running[h] # Nil
                           /\ running[h].entry = table[s]
                           /\ running[h].msg.step = q
  \/ forwarding # Nil /\ forwarding.svc = s /\ forwarding.step = q
  \/ q \in Provisioners /\ ext[q] # Nil /\ ext[q].svc = s
  \/ /\ q \in Extensions
     /\ listener[q] # Nil
     /\ listener[q].msg.svc = s
     /\ listener[q].at # "skip"

\* The entry of s is at an end, or in error, or a handler is about to run for it,
\* or it is in progress and the request of its step, or the answer, exists.
WorkIsKept(s) ==
  LET e == heap[table[s]]
  IN  \/ e.state \in EndStates
      \/ e.wip /\ OnItsWay(s, e.state)
      \/ ~e.wip /\ (e.error \/ \E h \in Handlers :
                                 running[h] # Nil /\ running[h].entry = table[s])

\* Work on a service is never lost, whichever messages cross (sendToExtension
\* sets the entry in progress before its request can be forwarded, and only the
\* answer to the request moves the entry on).
NoLostWork == \A s \in Services : table[s] # Nil => WorkIsKept(s)

\* Nothing is mixed up between services: no two share an entry, the goroutine of a
\* message about s that works on the entry in the table works on that of s, and
\* it has not sent a request yet; what a listener holds bears the listener's name
\* (an entry is removed, and the service announced again, while goroutines still
\* hold the old one).
NoMixUp ==
  /\ \A s1, s2 \in Services : table[s1] = table[s2] /\ table[s1] # Nil => s1 = s2
  /\ \A h \in Handlers : running[h] # Nil =>
       /\ \A s \in Services : running[h].entry = table[s] => running[h].msg.svc = s
       /\ sending[h] = Nil
  /\ \A x \in Extensions : listener[x] # Nil => listener[x].msg.step = x

\* An entry that is closed is where it was meant to go, whichever requests and
\* answers crossed on the way: "deployed" and "undeployed" are never reached
\* while the opposite is expected, and only close() reaches them.
ClosedAsExpected ==
  ~crashed => \A s \in Services : table[s] # Nil =>
    LET e == heap[table[s]]
    IN  /\ e.closed <=> e.state \in EndStates
        /\ e.closed => e.state = e.expected

\* The engine answers each message with at most one request: the messages in
\* flight become more only when a provider speaks, or an alias fails.
NoAmplification ==
  [][InFlight' > InFlight => SomeProviderSends \/ SomeAliasFails]_vars

\* Once the providers are silent and aliases stop failing, no entry stays in
\* progress, as long as the housekeeper runs: it closes what an extension never
\* answers, or a listener never merges (src/docs/docs/configuration.md:24, "close
\* the entry in error if work in progress for longer than"), and late answers die
\* out.  An alias that fails at every attempt would restart the work for ever.
ComesToRest ==
  <>[][~SomeProviderSends /\ ~SomeAliasFails]_vars =>
    <>[](crashed \/ \A s \in Services : table[s] = Nil \/ ~heap[table[s]].wip)

\* When nothing is in flight, a service deployed without error is provisioned
\* at every step with the definition its entry holds (src/README.md:19, the core
\* "ensures the relevant tasks are performed by the different provisioners").
DeployedIsProvisioned ==
  InFlight = 0 /\ ~crashed => \A s \in Services : table[s] # Nil =>
    LET e == heap[table[s]]
    IN  e.state = Deployed /\ ~e.wip /\ ~e.error =>
          \A q \in Provisioners : provisioned[q][s] = e.def

\* When nothing is in flight, nothing is left of a service that was undeployed
\* without error, nor of one that is no longer tracked.
UndeployedIsGone ==
  InFlight = 0 /\ ~crashed => \A s \in Services :
    (table[s] # Nil => /\ heap[table[s]].state = Undeployed
                      /\ ~heap[table[s]].wip
                      /\ ~heap[table[s]].error)
      => \A q \in Provisioners : provisioned[q][s] = Nil

\* The hypothesis of the runs without faults: extensions succeed, in time.
Calm ==
  /\ \A q \in Provisioners : listener'[q] # Nil => ~listener'[q].msg.err
  /\ \A s \in Services : ~TimeOut(s)
=============================================================================
