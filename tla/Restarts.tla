------------------------------- MODULE Restarts -------------------------------
(***************************************************************************)
(* The engine across the ends of its process (run, save and load in          *)
(* src/core): after a signal the housekeeper and then the extensions are     *)
(* stopped, each when it comes back to its channel, and the table is written *)
(* to its file; the process may also be killed, or crash, at any moment.     *)
(* What was loaded goes on from where the entries stood, without the         *)
(* requests and the answers that were under way.                             *)
(***************************************************************************)
EXTENDS EngineLifecycle

VARIABLES
  stage,     \* "up", or what the shutdown has come to
  down,      \* the extensions that are stopped
  file,      \* the entries a start would load from the file
  lost,      \* history: the process ended without saving its table, or before a
             \* handler it did not wait for had begun
  disturbed  \* history: something failed, was not waited for, or was cut

\* So that a start finds out which services the image holds.
ASSUME ImageAssumption == Nil \notin Entry

own == <<stage, down, file>>
history == <<lost, disturbed>>
allVars == <<vars, own, history>>

Images == [Services -> Resting \cup {Nil}]

NoEntries == [s \in Services |-> Nil]

\* With a mistake: the error is not among the fields written.
Image_ErrorOmitted == [s \in Services |->
  IF table[s] = Nil THEN Nil ELSE [heap[table[s]] EXCEPT !.error = FALSE]]

\* With a mistake: an entry on which work is in progress is not written.
Image_InProgressOmitted == [s \in Services |->
  IF table[s] = Nil THEN Nil ELSE IF heap[table[s]].wip THEN Nil ELSE heap[table[s]]]

\* The fields of every entry but its transition, which the next message sets.
Image == [s \in Services |-> IF table[s] = Nil THEN Nil ELSE heap[table[s]]]

RestartsInit ==
  /\ Init
  /\ stage = "up"
  /\ down = {}
  /\ file = NoEntries
  /\ lost = FALSE
  /\ disturbed = FALSE

-----------------------------------------------------------------------------
(* The engine's steps, which go on during a shutdown as far as they can.    *)

Undisturbed == UNCHANGED <<own, history>>

Disturbed == disturbed' = TRUE /\ UNCHANGED <<own, lost>>

\* A provider says again that a service is gone that is being undeployed: the entry
\* is turned round once more.
SaysAgain(msg) ==
  /\ msg.action = "delete"
  /\ table[msg.svc] # Nil
  /\ heap[table[msg.svc]].wip
  /\ isReverse(heap[table[msg.svc]])

Provide(p) ==
  /\ p \notin down
  /\ \E msg \in ProviderMessages(p) :
       /\ ProviderSend(p, msg)
       /\ IF SaysAgain(msg) THEN Disturbed ELSE Undisturbed

Listen(x) == (Check(x) \/ Skip(x) \/ Merge(x)) /\ Undisturbed

Handle(h) == Execute(h) /\ Undisturbed

Request(h) == TakeRequest(h) /\ Undisturbed

\* An extension that is stopped takes no request.
ForwardToRunning == Forward /\ forwarding.step \notin down /\ Undisturbed

Provision(q) ==
  /\ Reply(q) \/ ReplyAliasError(q)
  /\ IF listener'[q].msg.err THEN Disturbed ELSE Undisturbed

\* The housekeeper works until it has taken the request to stop.
HousekeeperRuns == stage \in {"up", "signalled"}

Close(s) == HousekeeperRuns /\ TimeOut(s) /\ Disturbed

Clean(s) == HousekeeperRuns /\ Remove(s) /\ Undisturbed

-----------------------------------------------------------------------------
(* The end of the process, and its start. *)

\* The signal is noticed: the request to stop waits for the housekeeper.
Signal ==
  /\ ~crashed
  /\ stage = "up"
  /\ stage' = "signalled"
  /\ UNCHANGED <<vars, down, file, history>>

\* The housekeeper, back at its select, takes the request; nothing is stopped before.
StopHousekeeper ==
  /\ ~crashed
  /\ stage = "signalled"
  /\ stage' = "stopping"
  /\ UNCHANGED <<vars, down, file, history>>

\* With a mistake: what is being forwarded is waited for.
StopExtension_Drains(x) ==
  /\ ~crashed
  /\ stage = "stopping"
  /\ x \notin down
  /\ x \in Provisioners => ext[x] = Nil
  /\ forwarding = Nil
  /\ \A h \in Handlers : sending[h] = Nil
  /\ down' = down \cup {x}
  /\ UNCHANGED <<vars, stage, file, history>>

\* With a mistake: an extension is stopped in the middle of its work.
StopExtension_Busy(x) ==
  /\ ~crashed
  /\ stage = "stopping"
  /\ x \notin down
  /\ down' = down \cup {x}
  /\ UNCHANGED <<vars, stage, file, history>>

\* Stop sends to a channel that the extension reads between two messages.
StopExtension(x) ==
  /\ ~crashed
  /\ stage = "stopping"
  /\ x \notin down
  /\ x \in Provisioners => ext[x] = Nil
  /\ down' = down \cup {x}
  /\ UNCHANGED <<vars, stage, file, history>>

\* coreWG counts neither the handlers nor the requests, and a listener's message
\* only once the listener goes on with it: save starts while they may still be there.
Truncate ==
  /\ ~crashed
  /\ stage = "stopping"
  /\ down = Extensions
  /\ \A x \in Extensions : listener[x] # Nil => listener[x].at = "check"
  /\ stage' = "saving"
  /\ file' = NoEntries
  /\ UNCHANGED <<vars, down, history>>

\* A process starts: it loads the image, and has no messages.
Start(image) ==
  /\ \E cell \in [Services -> Entries \cup {Nil}] :
       /\ \A s \in Services : cell[s] = Nil <=> image[s] = Nil
       /\ \A s1, s2 \in Services : cell[s1] = cell[s2] /\ cell[s1] # Nil => s1 = s2
       /\ table' = cell
       /\ heap' = [c \in Entries |->
            IF \E s \in Services : cell[s] = c
            THEN image[CHOOSE s \in Services : cell[s] = c] ELSE FreeCell]
  /\ listener' = [x \in Extensions |-> Nil]
  /\ running' = [h \in Handlers |-> Nil]
  /\ sending' = [h \in Handlers |-> Nil]
  /\ forwarding' = Nil
  /\ ext' = [q \in Provisioners |-> Nil]
  /\ crashed' = FALSE
  /\ stage' = "up"
  /\ down' = {}

Unbegun == \E h \in Handlers : running[h] # Nil

Unheard == \E q \in Provisioners : listener[q] # Nil

InProgress == \E s \in Services : table[s] # Nil /\ heap[table[s]].wip

\* The file is written, the process ends, and is started again.  A definition that
\* was merged is written as if the handler had brought it to the extensions; a
\* message a listener has not merged is as if it had not been sent.
Write ==
  /\ ~crashed
  /\ stage = "saving"
  /\ file' = Image
  /\ Start(Image)
  /\ lost' = (lost \/ Unbegun)
  /\ disturbed' = (disturbed \/ Unbegun \/ Unheard \/ InProgress)
  /\ UNCHANGED provisioned

\* The process is killed, or has crashed, or cannot write its file, and is started
\* again; what each extension was working on is left in any state.
Kill ==
  /\ Start(file)
  /\ \E left \in [Provisioners -> Contents] :
       provisioned' = [q \in Provisioners |->
         IF ext[q] # Nil THEN [provisioned[q] EXCEPT ![ext[q].svc] = left[q]]
                         ELSE provisioned[q]]
  /\ lost' = TRUE
  /\ disturbed' = TRUE
  /\ UNCHANGED file

-----------------------------------------------------------------------------
RestartsNext ==
  \/ \E p \in ProviderSteps : Provide(p)
  \/ \E x \in Extensions : Listen(x) \/ StopExtension(x)
  \/ \E h \in Handlers : Handle(h) \/ Request(h)
  \/ ForwardToRunning
  \/ \E q \in Provisioners : Provision(q)
  \/ \E s \in Services : Close(s) \/ Clean(s)
  \/ Signal \/ StopHousekeeper \/ Truncate \/ Write \/ Kill

RestartsSpec == RestartsInit /\ [][RestartsNext]_allVars

\* What the process does by itself, and the answers of extensions at work.
Progress ==
  \/ \E x \in Extensions : Listen(x)
  \/ \E h \in Handlers : Handle(h) \/ Request(h)
  \/ ForwardToRunning
  \/ \E q \in Provisioners : Provision(q)

ShutdownStep == (\E x \in Extensions : StopExtension(x)) \/ Truncate \/ Write

\* The process does not stand still where it can move, the housekeeper's ticker
\* closes an entry that stays in progress, and a shutdown goes on once the
\* housekeeper is stopped.  That it comes back to its select to be told so is not
\* assumed: the circle of Interlook may keep it.  An extension is taken to answer:
\* nothing else would end its work.
RestartsFairness ==
  /\ WF_allVars(Progress)
  /\ WF_allVars(ShutdownStep)
  /\ \A s \in Services : WF_allVars(Close(s))

FairRestarts == RestartsSpec /\ RestartsFairness

-----------------------------------------------------------------------------
(* Who holds a message about service s. *)

Hears(x, s) == listener[x] # Nil /\ listener[x].msg.svc = s
Carries(h, s) == running[h] # Nil /\ running[h].msg.svc = s
Sends(h, s) == sending[h] # Nil /\ sending[h].svc = s
Forwards(s) == forwarding # Nil /\ forwarding.svc = s
WorksOn(q, s) == ext[q] # Nil /\ ext[q].svc = s

Holders(s) ==
  {<<"listener", x>> : x \in {x \in Extensions : Hears(x, s)}}
  \cup {<<"handler", h>> : h \in {h \in Handlers : Carries(h, s) \/ Sends(h, s)}}
  \cup {<<"extension", q>> : q \in {q \in Provisioners : WorksOn(q, s)}}
  \cup {<<"sender", 0>> : f \in {f \in {forwarding} : Forwards(s)}}

\* The messages about a service do not cross: its provider speaks when the engine is
\* done with what was said before, and no alias fails.  Those about different
\* services go on side by side.
OneAtATime == \A s \in Services : \A a, b \in Holders(s) : a = b

\* Every provider stands before the provisioners in the workflow, as in
\* src/docs/docs/configuration.md:17: an announcement goes on from the provider's
\* step, and would never come to a provisioner before it.
ProvidersFirst == \A p \in ProviderSteps : \A q \in Provisioners : p < q

-----------------------------------------------------------------------------
(* Properties. *)

\* The parts this module adds hold what the code puts there; the extensions are only
\* stopped after the housekeeper, each between two messages, and all of them before
\* the file is written.
RestartsTypeOK ==
  /\ TypeOK
  /\ stage \in {"up", "signalled", "stopping", "saving"}
  /\ down \in SUBSET Extensions
  /\ file \in Images
  /\ lost \in BOOLEAN
  /\ disturbed \in BOOLEAN
  /\ HousekeeperRuns => down = {}
  /\ \A x \in down \cap Provisioners : ext[x] = Nil
  /\ stage = "saving" => down = Extensions

\* Whatever failed, timed out or was cut by a shutdown, a service that is shown as
\* deployed without error is provisioned as its entry says, unless a process
\* ended without saving (src/README.md:19, the core "ensures the relevant tasks
\* are performed by the different provisioners").
DeployedSurvives == ~lost => DeployedIsProvisioned

\* Nothing is left of a service that is forgotten or shown as undeployed without
\* error, across shutdowns, if nothing failed, the provider did not repeat itself
\* during an undeployment and no shutdown cut the work on an entry or lost an answer
\* (a service that is being updated is undeployed from the step the update had come
\* to; a late answer brings back an entry the housekeeper has removed).
UndeployedSurvives == ~disturbed => UndeployedIsGone

\* A reader of the table cannot tell that the process was stopped and started, even
\* with work in progress: a service goes through the phases of its lifecycle, and
\* only a process that is killed takes it out of them (save and load of core/).
LifecycleSurvives == [][~Kill => Lifecycle!Next \/ UNCHANGED phase]_allVars

\* A shutdown that has got past the housekeeper ends, and the process is started
\* again with its table, whatever requests were under way: nobody waits for what an
\* extension that is stopped would have to do.
ShutdownEnds == stage \in {"stopping", "saving"} ~> stage = "up" \/ crashed

\* An entry loaded while its request was lost comes to rest as well, once nobody
\* speaks and nobody stops the process (its timeout is loaded with it).
LoadedComesToRest ==
  <>[][~(\E p \in ProviderSteps : Provide(p)) /\ ~Signal /\ ~Kill]_allVars =>
    <>[](crashed \/ \A s \in Services : table[s] = Nil \/ ~heap[table[s]].wip)
=============================================================================
