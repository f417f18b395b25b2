--------------------------- MODULE InterlookProofs ---------------------------
(***************************************************************************)
(* Theorems about the engine with its providers and its housekeeper, for any *)
(* platforms, workflows and services: they drive the engine as its module    *)
(* supposes, so that its theorems hold of them, and a service that is        *)
(* deployed as its platforms run it is left alone.                           *)
(***************************************************************************)
EXTENDS Interlook, WorkflowEngineProofs

-----------------------------------------------------------------------------
(* What the providers say. *)

LEMMA AddMessageType ==
  ASSUME InterlookTypeOK, NEW p \in ProviderSteps, NEW s \in Services,
         platform[p][s] # Nil
  PROVE  AddMessage(p, s) \in ProviderMessages(p)
<1>1. platform[p][s] \in Defs
  BY DEF InterlookTypeOK
<1> QED
  BY <1>1 DEF AddMessage, ProviderMessages

LEMMA BareMessageType ==
  ASSUME NEW p \in ProviderSteps, NEW s \in Services, NEW err \in BOOLEAN,
         p \in ErrorAdds
  PROVE  BareMessage(p, s, err) \in ProviderMessages(p)
<1>1. Bare \in Defs
  BY InterlookAssumption
<1> QED
  BY <1>1 DEF BareMessage, ProviderMessages

LEMMA DeleteMessageType ==
  ASSUME NEW p \in ProviderSteps, NEW s \in Services
  PROVE  DeleteMessage(p, s) \in ProviderMessages(p)
BY DEF DeleteMessage, ProviderMessages

LEMMA AnnouncementsType ==
  ASSUME InterlookTypeOK, NEW p \in ProviderSteps, NEW s \in Services,
         NEW msg \in Announcements(p, s)
  PROVE  msg \in ProviderMessages(p) \cup {Nil}
BY AddMessageType, BareMessageType DEF Announcements

LEMMA RefreshedType ==
  ASSUME InterlookTypeOK, NEW p \in ProviderSteps, NEW s \in Services,
         NEW msg \in Refreshed(p, s)
  PROVE  msg \in ProviderMessages(p)
BY AddMessageType, BareMessageType, DeleteMessageType DEF Refreshed

-----------------------------------------------------------------------------
(* Type correctness, with that of the engine. *)

LEMMA LoopsType ==
  ASSUME InterlookTypeOK, NEW p \in ProviderSteps
  PROVE  /\ loop[p] \in Loops(p)
         /\ loop[p].todo \subseteq Services
         /\ loop[p].out \in ProviderMessages(p) \cup {Nil}
BY DEF InterlookTypeOK, Loops

\* One provider's loop changes, to one of its values.
LEMMA LoopChange ==
  ASSUME InterlookTypeOK, NEW p \in ProviderSteps, NEW new \in Loops(p),
         loop' = [loop EXCEPT ![p] = new]
  PROVE  /\ loop' = [r \in ProviderSteps |-> loop'[r]]
         /\ \A r \in ProviderSteps : loop'[r] \in Loops(r)
<1>1. loop' = [r \in ProviderSteps |-> IF r = p THEN new ELSE loop[r]]
  BY DEF InterlookTypeOK
<1> QED
  BY <1>1 DEF InterlookTypeOK

\* A provider's own steps.
LEMMA ProviderType ==
  ASSUME InterlookTypeOK, NEW p \in ProviderSteps,
         Poll(p) \/ PollNext(p) \/ LoopSend(p) \/ RefreshTaken(p)
  PROVE  InterlookTypeOK'
<1>1. CASE Poll(p)
  <2>1. PICK found \in SUBSET Services : loop' = [loop EXCEPT ![p].todo = found]
    BY <1>1 DEF Poll
  <2>2. [loop[p] EXCEPT !.todo = found] \in Loops(p)
    BY LoopsType DEF Loops
  <2>3. loop' = [loop EXCEPT ![p] = [loop[p] EXCEPT !.todo = found]]
    BY <2>1 DEF InterlookTypeOK
  <2> QED
    BY <1>1, <2>2, <2>3, LoopChange DEF Poll, InterlookTypeOK, vars
<1>2. CASE PollNext(p)
  <2> PICK s \in loop[p].todo :
        \E msg \in Announcements(p, s) :
          loop' = [loop EXCEPT ![p] = [todo |-> @.todo \ {s}, out |-> msg]]
    BY <1>2 DEF PollNext
  <2>1. PICK msg \in Announcements(p, s) :
          loop' = [loop EXCEPT ![p] = [todo |-> @.todo \ {s}, out |-> msg]]
    OBVIOUS
  <2>2. [todo |-> loop[p].todo \ {s}, out |-> msg] \in Loops(p)
    BY LoopsType, AnnouncementsType DEF Loops
  <2>3. loop' = [loop EXCEPT ![p] = [todo |-> loop[p].todo \ {s}, out |-> msg]]
    BY <2>1 DEF InterlookTypeOK
  <2> QED
    BY <1>2, <2>2, <2>3, LoopChange DEF PollNext, InterlookTypeOK, vars
<1>3. CASE LoopSend(p)
  <2>1. [loop[p] EXCEPT !.out = Nil] \in Loops(p)
    BY LoopsType DEF Loops
  <2>2. loop' = [loop EXCEPT ![p] = [loop[p] EXCEPT !.out = Nil]]
    BY <1>3 DEF LoopSend, InterlookTypeOK
  <2> QED
    BY <1>3, <2>1, <2>2, LoopChange DEF LoopSend, ProviderSend, InterlookTypeOK
<1>4. CASE RefreshTaken(p)
  <2>1. visit \in Visits /\ visit.svc \in Services
    BY <1>4 DEF RefreshTaken, InterlookTypeOK, Visits
  <2>2. PICK msg \in Refreshed(p, visit.svc) : loop' = [loop EXCEPT ![p].out = msg]
    BY <1>4 DEF RefreshTaken, RefreshService
  <2>3. [loop[p] EXCEPT !.out = msg] \in Loops(p)
    BY <2>1, LoopsType, RefreshedType DEF Loops
  <2>4. loop' = [loop EXCEPT ![p] = [loop[p] EXCEPT !.out = msg]]
    BY <2>2 DEF InterlookTypeOK
  <2>5. visit' \in Visits
    BY <1>4, <2>1 DEF RefreshTaken, Visits
  <2> QED
    BY <1>4, <2>3, <2>4, <2>5, LoopChange DEF RefreshTaken, InterlookTypeOK, vars
<1> QED
  BY <1>1, <1>2, <1>3, <1>4

\* The housekeeper's.
LEMMA SweepType ==
  ASSUME TypeOK, InterlookTypeOK, StartSweep \/ Sweep
  PROVE  InterlookTypeOK'
<1> USE DEF InterlookTypeOK
<1>1. CASE StartSweep
  BY <1>1 DEF StartSweep, vars
<1>2. CASE EndSweep
  BY <1>2 DEF EndSweep, vars
<1>3. ASSUME NEW s \in Services, VisitRemove(s) PROVE InterlookTypeOK'
  <2>1. \A t \in Services \ {s} : table'[t] = table[t]
    BY <1>3 DEF VisitRemove, Remove, TypeOK
  <2> QED
    BY <1>3, <2>1 DEF VisitRemove, Remove
<1>4. ASSUME NEW s \in Services, VisitRefresh(s) PROVE InterlookTypeOK'
  BY <1>4 DEF VisitRefresh, Visits, vars
<1>5. ASSUME NEW s \in Services, VisitTimeOut(s) PROVE InterlookTypeOK'
  BY <1>5 DEF VisitTimeOut, TimeOut
<1>6. ASSUME NEW s \in Services, VisitDone(s) PROVE InterlookTypeOK'
  BY <1>6 DEF VisitDone, vars
<1> QED
  BY <1>1, <1>2, <1>3, <1>4, <1>5, <1>6 DEF Sweep

\* The engine's: none takes an entry away.
LEMMA EngineStepType ==
  ASSUME TypeOK, InterlookTypeOK, UNCHANGED own, crashed => crashed',
         \A s \in Services : table[s] # Nil => table'[s] # Nil
  PROVE  InterlookTypeOK'
BY DEF InterlookTypeOK, own

LEMMA MergeKeepsEntries ==
  ASSUME TypeOK, NEW x \in Extensions, Merge(x)
  PROVE  \A s \in Services : table[s] # Nil => table'[s] # Nil
<1>1. listener[x].msg.svc \in Services
  BY DEF Merge, TypeOK, Jobs, Message
<1>2. PICK c \in Entries : table' = [table EXCEPT ![listener[x].msg.svc] = c]
  BY <1>1 DEF Merge, Spawn, TypeOK
<1>3. c # Nil
  BY EngineAssumption
<1> QED
  BY <1>1, <1>2, <1>3 DEF TypeOK

LEMMA InterlookStepType ==
  TypeOK /\ InterlookTypeOK /\ [InterlookNext]_allVars => InterlookTypeOK'
<1> SUFFICES ASSUME TypeOK, InterlookTypeOK, [InterlookNext]_allVars
             PROVE  InterlookTypeOK'
  OBVIOUS
<1>1. CASE \E p \in ProviderSteps : Poll(p) \/ Provide(p)
  BY <1>1, ProviderType DEF Provide
<1>2. ASSUME NEW p \in ProviderSteps, NEW s \in Services, PlatformChange(p, s)
      PROVE  InterlookTypeOK'
  BY <1>2 DEF PlatformChange, InterlookTypeOK, vars
<1>3. CASE StartSweep \/ Sweep
  BY <1>3, SweepType
<1>4. ASSUME NEW x \in Extensions, LockedMerge(x) PROVE InterlookTypeOK'
  BY <1>4, MergeKeepsEntries, EngineStepType DEF LockedMerge, Merge
<1>5. ASSUME NEW x \in Extensions, Listen(x) PROVE InterlookTypeOK'
  BY <1>5, EngineStepType DEF Listen, Check, Skip
<1>6. ASSUME NEW h \in Handlers, Handle(h) PROVE InterlookTypeOK'
  <2>1. ASSUME NEW e, Finish(h, e) \/ sendToExtension(h, e) PROVE UNCHANGED table
    BY <2>1 DEF Finish, sendToExtension
  <2>2. ASSUME ExecuteAdd(h) PROVE UNCHANGED table /\ ~crashed
    BY <2>1, <2>2 DEF ExecuteAdd, Runs, Proceed
  <2>3. ASSUME ExecuteDelete(h) \/ RecurseDelete(h) PROVE UNCHANGED table /\ ~crashed
    BY <2>1, <2>3 DEF ExecuteDelete, RecurseDelete, Runs, Proceed
  <2>4. ASSUME ExecuteReply(h) PROVE UNCHANGED table /\ ~crashed
    BY <2>1, <2>4 DEF ExecuteReply, Runs
  <2>5. ASSUME TakeRequest(h) PROVE UNCHANGED table /\ ~crashed
    BY <2>5 DEF TakeRequest
  <2>6. table' = table /\ (crashed => crashed')
    BY <1>6, <2>2, <2>3, <2>4, <2>5 DEF Handle, Execute
  <2> QED
    BY <1>6, <2>6, EngineStepType DEF Handle
<1>7. CASE ForwardRequest
  BY <1>7, EngineStepType DEF ForwardRequest, Forward
<1>8. ASSUME NEW q \in Provisioners, Provision(q) PROVE InterlookTypeOK'
  BY <1>8, EngineStepType DEF Provision, Reply, ReplyAliasError
<1>9. CASE UNCHANGED allVars
  BY <1>9 DEF allVars, own, vars, InterlookTypeOK
<1> QED
  BY <1>1, <1>2, <1>3, <1>4, <1>5, <1>6, <1>7, <1>8, <1>9 DEF InterlookNext

-----------------------------------------------------------------------------
(* Interlook implements WorkflowEngine. *)

LEMMA EngineStep == InterlookTypeOK /\ [InterlookNext]_allVars => [Next]_vars
<1> SUFFICES ASSUME InterlookTypeOK, [InterlookNext]_allVars PROVE [Next]_vars
  OBVIOUS
<1>1. ASSUME NEW p \in ProviderSteps, LoopSend(p) PROVE Next
  <2>1. loop[p].out \in ProviderMessages(p)
    BY <1>1, LoopsType DEF LoopSend
  <2> QED
    BY <1>1, <2>1 DEF LoopSend, SomeProviderSends, Next
<1>2. ASSUME NEW p \in ProviderSteps, Poll(p) \/ PollNext(p) \/ RefreshTaken(p)
      PROVE  UNCHANGED vars
  BY <1>2 DEF Poll, PollNext, RefreshTaken, vars
<1>3. ASSUME NEW p \in ProviderSteps, NEW s \in Services, PlatformChange(p, s)
      PROVE  UNCHANGED vars
  BY <1>3 DEF PlatformChange, vars
<1>4. CASE StartSweep \/ EndSweep
  BY <1>4 DEF StartSweep, EndSweep, vars
<1>5. ASSUME NEW s \in Services, VisitRemove(s) \/ VisitTimeOut(s) PROVE Next
  BY <1>5 DEF VisitRemove, VisitTimeOut, Next
<1>6. ASSUME NEW s \in Services, VisitRefresh(s) \/ VisitDone(s) PROVE UNCHANGED vars
  BY <1>6 DEF VisitRefresh, VisitDone, vars
<1>7. ASSUME NEW x \in Extensions, LockedMerge(x) \/ Listen(x) PROVE Next
  BY <1>7 DEF LockedMerge, Listen, Next
<1>8. ASSUME NEW h \in Handlers, Handle(h) PROVE Next
  BY <1>8 DEF Handle, Next
<1>9. CASE ForwardRequest
  BY <1>9 DEF ForwardRequest, Next
<1>10. ASSUME NEW q \in Provisioners, Provision(q) PROVE Next
  BY <1>10 DEF Provision, Next
<1>11. CASE UNCHANGED allVars
  BY <1>11 DEF allVars
<1> QED
  BY <1>1, <1>2, <1>3, <1>4, <1>5, <1>6, <1>7, <1>8, <1>9, <1>10, <1>11
  DEF InterlookNext, Provide, Sweep

Types == TypeOK /\ InterlookTypeOK

LEMMA InitTypes == InterlookInit => Types
<1> SUFFICES ASSUME InterlookInit PROVE Types
  OBVIOUS
<1>1. TypeOK
  BY InitType DEF InterlookInit
<1>2. InterlookTypeOK
  BY DEF InterlookInit, InterlookTypeOK, IdleLoop, Loops
<1> QED
  BY <1>1, <1>2 DEF Types

LEMMA AlwaysTypes == InterlookSpec => []Types
<1>1. Types /\ [InterlookNext]_allVars => Types'
  BY EngineStep, StepType, InterlookStepType DEF Types
<1> QED
  BY InitTypes, <1>1, PTL DEF InterlookSpec

\* The providers' goroutines and the housekeeper hold what the code puts there:
\* in particular a sweep visits entries of the table only, with its lock.
THEOREM InterlookTypes == InterlookSpec => []InterlookTypeOK
BY AlwaysTypes, PTL DEF Types

\* Polls, refreshes and sweeps are nothing the engine does not already suppose of
\* its environment: the theorems about WorkflowEngine hold of Interlook.
THEOREM InterlookImplementsEngine == InterlookSpec => ImplementsEngine
<1>1. InterlookInit => Init
  BY DEF InterlookInit
<1>2. Types /\ [InterlookNext]_allVars => [Next]_vars
  BY EngineStep DEF Types
<1> QED
  BY <1>1, <1>2, AlwaysTypes, PTL DEF InterlookSpec, ImplementsEngine, Spec

\* Whatever providers poll and the housekeeper sweeps, services are not mixed up and an
\* entry short of its end keeps its request, its answer or its error.
THEOREM InterlookKeepsWork == InterlookSpec => [](NoMixUp /\ NoLostWork)
BY InterlookImplementsEngine, Unmixed, WorkIsNeverLost, PTL DEF ImplementsEngine

\* A reader of the table sees a service go through the phases of its lifecycle and only
\* those, and entries closed only where they were meant to go, with whatever providers
\* announce, repeat and retract and whatever the housekeeper refreshes, closes and forgets.
THEOREM InterlookImplementsLifecycle ==
  ASSUME EndsWithProvisioner
  PROVE  InterlookSpec => ImplementsLifecycle /\ []ClosedAsExpected
BY InterlookImplementsEngine, EngineImplementsLifecycle, ClosedWhereExpected, PTL
   DEF ImplementsEngine

\* No sweep, refresh or answer adds to the messages: only what a provider's loop sends,
\* and the error of an alias.
THEOREM InterlookAnswersOnce ==
  ASSUME IsFiniteSet(Handlers)
  PROVE  InterlookSpec => NoAmplification
BY InterlookImplementsEngine, AnsweredOnce, PTL DEF ImplementsEngine
-----------------------------------------------------------------------------
(* A service that is deployed as its platforms run it is left alone.         *)

\* Such a service has a definition, and one of its platforms runs it.
LEMMA QuietRuns ==
  ASSUME TypeOK, NEW s \in Services, Quiet(s)
  PROVE  \E p \in ProviderSteps : platform[p][s] # Nil
<1>1. table[s] \in Entries /\ heap[table[s]] \in Entry
  BY RestingEntry DEF TypeOK, Quiet
<1>2. heap[table[s]].def # Nil
  BY <1>1, InterlookAssumption DEF Entry
<1> QED
  BY <1>2 DEF Quiet

\* The table and what the engine's goroutines hold are the same, but for listeners.
QuietSame == UNCHANGED <<table, heap, running, sending, forwarding, ext>>

\* Nothing new about service s, in the table or in anybody's hands, but
\* announcements that say what its entry holds.
LEMMA QuietFrame ==
  ASSUME NEW s \in Services, Quiet(s), UNCHANGED platform,
         table'[s] = table[s],
         heap'[table[s]] = heap[table[s]],
         \A p \in ProviderSteps :
           /\ loop'[p].out \in {loop[p].out, Nil} \/ Confirms(loop'[p].out, s)
           /\ s \in loop'[p].todo => platform[p][s] # Nil,
         \A x \in Extensions :
           \/ listener'[x] \in {listener[x], Nil}
           \/ /\ Confirms(listener'[x].msg, s)
              /\ listener'[x].msg.svc = s => listener'[x].at # "merge",
         \A h \in Handlers :
           /\ running'[h] \in {running[h], Nil} \/ running'[h].msg.svc # s
           /\ sending'[h] \in {sending[h], Nil} \/ sending'[h].svc # s,
         forwarding' \in {forwarding, Nil} \/ forwarding'.svc # s,
         \A q \in Provisioners : ext'[q] \in {ext[q], Nil} \/ ext'[q].svc # s
  PROVE  Quiet(s)'
<1>1. \A msg : Confirms(msg, s) => (msg.svc = s => msg.action = "add" /\ ~msg.err
                                      /\ msg.def = heap'[table'[s]].def)
  BY DEF Confirms
<1>2. /\ table'[s] # Nil
      /\ LET e == heap'[table'[s]]
         IN  /\ e.state = Deployed /\ e.expected = Deployed /\ ~e.wip
             /\ \E p \in ProviderSteps : platform'[p][s] = e.def
             /\ \A p \in ProviderSteps : platform'[p][s] \in {e.def, Nil}
  BY DEF Quiet
<1>3. \A p \in ProviderSteps :
        /\ loop'[p].out # Nil => Confirms(loop'[p].out, s)
        /\ s \in loop'[p].todo => platform'[p][s] # Nil
  BY DEF Quiet
<1>4. \A x \in Extensions : listener'[x] # Nil =>
        /\ Confirms(listener'[x].msg, s)
        /\ listener'[x].msg.svc = s => listener'[x].at # "merge"
  BY DEF Quiet
<1>5. /\ \A h \in Handlers : /\ running'[h] # Nil => running'[h].msg.svc # s
                             /\ sending'[h] # Nil => sending'[h].svc # s
      /\ forwarding' # Nil => forwarding'.svc # s
      /\ \A q \in Provisioners : ext'[q] # Nil => ext'[q].svc # s
  BY DEF Quiet
<1> QED
  BY <1>1, <1>2, <1>3, <1>4, <1>5 DEF Quiet, Confirms

\* A provider takes up the next service of its poll, or an answer to a request: what
\* it says of s is what its platform runs, unless it is misled.
LEMMA SayingQuiet ==
  ASSUME TypeOK, InterlookTypeOK, NEW s \in Services, Quiet(s), UNCHANGED platform,
         NEW p \in ProviderSteps, ~Misled(p), loop[p].out = Nil,
         NEW t \in Services, NEW msg \in Announcements(p, t) \cup Refreshed(p, t),
         t = s => s \in loop[p].todo \/ msg \in Refreshed(p, t),
         loop'[p].out = msg, loop'[p].todo \subseteq loop[p].todo,
         \A r \in ProviderSteps \ {p} : loop'[r] = loop[r],
         UNCHANGED vars
  PROVE  Quiet(s)'
<1>1. Confirms(msg, s) \/ msg = Nil
  <2>1. CASE msg = AddMessage(p, t)
    <3>1. platform[p][s] \in {heap[table[s]].def, Nil}
      BY DEF Quiet
    <3>2. t = s => platform[p][s] # Nil
      <4>1. t = s /\ s \in loop[p].todo => platform[p][s] # Nil
        BY DEF Quiet
      <4>2. msg \in Refreshed(p, t) => platform[p][t] # Nil
        BY <2>1 DEF Refreshed, BareMessage, DeleteMessage, AddMessage
      <4> QED
        BY <4>1, <4>2
    <3> QED
      BY <2>1, <3>1, <3>2 DEF Confirms, AddMessage, Provisioners
  <2>2. ASSUME NEW err \in BOOLEAN, msg = BareMessage(p, t, err), msg # Nil
        PROVE  Confirms(msg, s)
    <3>1. ~err /\ msg.def = platform[p][t]
      BY <2>2 DEF Misled, BareMessage
    <3>2. platform[p][s] \in {heap[table[s]].def, Nil}
      BY DEF Quiet
    <3>3. platform[p][s] = Nil /\ t = s => FALSE
      <4>1. t = s /\ s \in loop[p].todo => platform[p][s] # Nil
        BY DEF Quiet
      <4>2. msg \in Refreshed(p, t) => platform[p][t] # Nil
        BY <2>2 DEF Refreshed, BareMessage, DeleteMessage, AddMessage
      <4> QED
        BY <4>1, <4>2
    <3> QED
      BY <2>2, <3>1, <3>2, <3>3 DEF Confirms, BareMessage, Provisioners
  <2>3. ASSUME msg = DeleteMessage(p, t), msg # Nil PROVE Confirms(msg, s)
    <3>1. \A r \in ProviderSteps : platform[r][t] = Nil
      BY <2>3 DEF Misled, DeleteMessage
    <3>2. t # s
      BY <3>1, QuietRuns
    <3> QED
      BY <2>3, <3>2 DEF Confirms, DeleteMessage
  <2> QED
    BY <2>1, <2>2, <2>3 DEF Announcements, Refreshed
<1>2. \A r \in ProviderSteps : /\ loop'[r].out = loop[r].out \/ Confirms(loop'[r].out, s)
                               /\ s \in loop'[r].todo => platform[r][s] # Nil
  BY <1>1 DEF Quiet
<1> QED
  BY <1>2, QuietFrame DEF vars

\* A provider's own steps.
LEMMA ProviderQuiet ==
  ASSUME TypeOK, InterlookTypeOK, NEW s \in Services, Quiet(s), UNCHANGED platform,
         NEW p \in ProviderSteps, ~Misled(p),
         Poll(p) \/ PollNext(p) \/ LoopSend(p) \/ RefreshTaken(p)
  PROVE  Quiet(s)'
<1>1. CASE Poll(p)
  <2>1. loop' = [loop EXCEPT ![p].todo = {t \in Services : platform[p][t] # Nil}]
    BY <1>1 DEF Poll
  <2>2. \A r \in ProviderSteps : /\ loop'[r].out = loop[r].out
                                 /\ s \in loop'[r].todo => platform[r][s] # Nil
    BY <2>1, LoopsType DEF InterlookTypeOK, Quiet, Loops
  <2> QED
    BY <1>1, <2>2, QuietFrame DEF Poll, vars
<1>2. CASE PollNext(p)
  <2> PICK t \in loop[p].todo :
        \E msg \in Announcements(p, t) :
          loop' = [loop EXCEPT ![p] = [todo |-> @.todo \ {t}, out |-> msg]]
    BY <1>2 DEF PollNext
  <2>1. PICK msg \in Announcements(p, t) :
          loop' = [loop EXCEPT ![p] = [todo |-> @.todo \ {t}, out |-> msg]]
    OBVIOUS
  <2>2. loop' = [loop EXCEPT ![p] = [todo |-> loop[p].todo \ {t}, out |-> msg]]
    BY <2>1 DEF InterlookTypeOK
  <2>3. loop[p].out = Nil /\ UNCHANGED vars /\ t \in Services
    BY <1>2, LoopsType DEF PollNext
  <2>4. /\ loop'[p].out = msg /\ loop'[p].todo \subseteq loop[p].todo
        /\ \A r \in ProviderSteps \ {p} : loop'[r] = loop[r]
    BY <2>2 DEF InterlookTypeOK
  <2> QED
    BY <2>3, <2>4, SayingQuiet
<1>3. CASE LoopSend(p)
  <2>1. loop' = [loop EXCEPT ![p] = [loop[p] EXCEPT !.out = Nil]]
    BY <1>3 DEF LoopSend, InterlookTypeOK
  <2>2. /\ loop'[p].out = Nil /\ loop'[p].todo = loop[p].todo
        /\ \A r \in ProviderSteps \ {p} : loop'[r] = loop[r]
    BY <2>1, LoopsType DEF InterlookTypeOK, Loops
  <2>3. listener' = [listener EXCEPT ![p] =
                       [msg |-> [loop[p].out EXCEPT !.step = p], at |-> "check"]]
    BY <1>3 DEF LoopSend, ProviderSend, Receive
  <2>4. p \in Extensions /\ loop[p].out \in Message
    BY <1>3, StepSets, LoopsType, ProviderMessagesType DEF LoopSend
  <2>5. Confirms(loop[p].out, s)
    BY <1>3 DEF LoopSend, Quiet
  <2>6. Confirms(listener'[p].msg, s) /\ listener'[p].at = "check"
    BY <2>3, <2>4, <2>5 DEF Confirms, TypeOK, Message, Provisioners
  <2>7. \A x \in Extensions \ {p} : listener'[x] = listener[x]
    BY <2>3 DEF TypeOK
  <2>8. \A r \in ProviderSteps :
          /\ loop'[r].out \in {loop[r].out, Nil}
          /\ s \in loop'[r].todo => platform[r][s] # Nil
    BY <2>2 DEF Quiet
  <2>9. QuietSame
    BY <1>3 DEF QuietSame, LoopSend, ProviderSend
  <2> QED
    BY <2>6, <2>7, <2>8, <2>9, QuietFrame DEF QuietSame
<1>4. CASE RefreshTaken(p)
  <2>1. visit \in Visits /\ visit.svc \in Services
    BY <1>4 DEF RefreshTaken, InterlookTypeOK, Visits
  <2>2. PICK msg \in Refreshed(p, visit.svc) : loop' = [loop EXCEPT ![p].out = msg]
    BY <1>4 DEF RefreshTaken, RefreshService
  <2>3. loop[p].out = Nil /\ loop[p].todo = {} /\ UNCHANGED vars
    BY <1>4 DEF RefreshTaken, IdleLoop
  <2>4. [loop[p] EXCEPT !.out = msg] = [todo |-> {}, out |-> msg]
    BY <1>4 DEF RefreshTaken, IdleLoop
  <2>5. loop' = [loop EXCEPT ![p] = [loop[p] EXCEPT !.out = msg]]
    BY <2>2 DEF InterlookTypeOK
  <2>6. loop' = [loop EXCEPT ![p] = [todo |-> {}, out |-> msg]]
    BY <2>4, <2>5
  <2>7. /\ loop'[p].out = msg /\ loop'[p].todo = {}
        /\ \A r \in ProviderSteps \ {p} : loop'[r] = loop[r]
    BY <2>6 DEF InterlookTypeOK
  <2> QED
    BY <2>1, <2>3, <2>7, SayingQuiet
<1> QED
  BY <1>1, <1>2, <1>3, <1>4

\* The engine's goroutine of another service leaves the entry of s alone.
LEMMA HandlerQuiet ==
  ASSUME TypeOK, NoMixUp, NEW s \in Services, Quiet(s), UNCHANGED own,
         NEW h \in Handlers, Execute(h)
  PROVE  Quiet(s)'
<1>1. running[h] # Nil
  BY DEF Execute, ExecuteAdd, ExecuteDelete, RecurseDelete, ExecuteReply, Runs
<1>2. running[h].msg.svc # s /\ running[h].entry # table[s]
  BY <1>1 DEF Quiet, NoMixUp
<1>3. ASSUME NEW e, Finish(h, e) \/ sendToExtension(h, e) PROVE Quiet(s)'
  <2>1. table' = table /\ table[s] \in Entries
    BY <1>3 DEF Finish, sendToExtension, TypeOK, Quiet
  <2>2. Referenced(table[s])'
    BY <2>1 DEF Referenced
  <2>3. heap'[table[s]] = heap[table[s]]
    BY <1>2, <1>3, <2>1, <2>2 DEF Finish, sendToExtension, Collected, TypeOK
  <2>4. \A g \in Handlers :
          /\ running'[g] \in {running[g], Nil}
          /\ sending'[g] = sending[g] \/ sending'[g].svc # s
    BY <1>2, <1>3 DEF Finish, sendToExtension, TypeOK, BuildMessage
  <2>5. UNCHANGED <<listener, forwarding, ext, platform, loop>>
    BY <1>3 DEF Finish, sendToExtension, own
  <2>6. \A p \in ProviderSteps : s \in loop[p].todo => platform[p][s] # Nil
    BY DEF Quiet
  <2> QED
    BY <2>1, <2>3, <2>4, <2>5, <2>6, QuietFrame
<1> QED
  BY <1>3 DEF Execute, ExecuteAdd, ExecuteDelete, RecurseDelete, ExecuteReply, Proceed

\* Its listeners: an announcement of what the entry of s holds is passed over.
LEMMA ListenerQuiet ==
  ASSUME TypeOK, NoMixUp, Reordered = {}, NEW s \in Services, Quiet(s), UNCHANGED own,
         NEW x \in Extensions, Check(x) \/ Skip(x) \/ Merge(x)
  PROVE  Quiet(s)'
<1>1. \A p \in ProviderSteps : s \in loop[p].todo => platform[p][s] # Nil
  BY DEF Quiet
<1>2. UNCHANGED <<platform, loop>>
  BY DEF own
<1>3. listener[x] # Nil /\ listener[x] \in Jobs
  BY DEF Check, Skip, Merge, TypeOK
<1>4. Confirms(listener[x].msg, s)
  BY <1>3 DEF Quiet
<1>5. CASE Check(x)
  <2>1. PICK need \in serviceNeedUpdate(listener[x].msg) :
          listener' = [listener EXCEPT ![x].at = IF need THEN "merge" ELSE "skip"]
    BY <1>5 DEF Check
  <2>2. listener[x].msg.svc = s => ~need
    BY <1>4 DEF serviceNeedUpdate, IsSameThan, SetTargetWeight, isStateAsWanted,
                Confirms, Quiet
  <2>3. listener'[x].msg = listener[x].msg
        /\ listener'[x].at = IF need THEN "merge" ELSE "skip"
    BY <1>3, <2>1 DEF TypeOK, Jobs
  <2>4. \A y \in Extensions \ {x} : listener'[y] = listener[y]
    BY <2>1 DEF TypeOK
  <2>5. UNCHANGED <<table, heap, running, sending, forwarding, ext>>
    BY <1>5 DEF Check
  <2> QED
    BY <1>1, <1>2, <1>4, <2>2, <2>3, <2>4, <2>5, QuietFrame
<1>6. CASE Skip(x)
  <2>1. \A y \in Extensions : listener'[y] \in {listener[y], Nil}
    BY <1>6 DEF Skip, TypeOK
  <2>2. UNCHANGED <<table, heap, running, sending, forwarding, ext>>
    BY <1>6 DEF Skip
  <2> QED
    BY <1>1, <1>2, <2>1, <2>2, QuietFrame
<1>7. CASE Merge(x)
  <2> DEFINE msg == listener[x].msg
  <2>1. msg.svc \in Services /\ msg.svc # s
    BY <1>3, <1>7 DEF Merge, Quiet, Jobs, Message
  <2>2. PICK c \in Entries, e \in {heap[d] : d \in Entries} \cup {makeNewFlowEntry} :
          /\ Spawn(x, c, e)
          /\ c = table[msg.svc] \/ ~Referenced(c)
    <3>1. table[msg.svc] # Nil => table[msg.svc] \in Entries
      BY <2>1 DEF TypeOK
    <3> QED
      BY <1>7, <3>1 DEF Merge
  <2>3. table[s] # c /\ table[s] \in Entries
    BY <2>1, <2>2 DEF NoMixUp, Referenced, Quiet, TypeOK
  <2>4. table'[s] = table[s] /\ heap'[table[s]] = heap[table[s]]
    BY <2>1, <2>2, <2>3 DEF Spawn, TypeOK
  <2>5. \A y \in Extensions : listener'[y] \in {listener[y], Nil}
    BY <2>2 DEF Spawn, TypeOK
  <2>6. PICK g \in Handlers : running' = [running EXCEPT ![g] = [entry |-> c, msg |-> msg]]
    BY <2>2 DEF Spawn
  <2>7. \A h \in Handlers : running'[h] = running[h] \/ running'[h].msg.svc # s
    BY <2>1, <2>6 DEF TypeOK
  <2>8. UNCHANGED <<sending, forwarding, ext>>
    BY <2>2 DEF Spawn
  <2> QED
    BY <1>1, <1>2, <2>4, <2>5, <2>7, <2>8, QuietFrame
<1> QED
  BY <1>5, <1>6, <1>7

\* Requests and their answers, which are for other services.
LEMMA RequestQuiet ==
  ASSUME TypeOK, NEW s \in Services, Quiet(s), UNCHANGED own,
         \/ Forward
         \/ \E h \in Handlers : TakeRequest(h)
         \/ \E q \in Provisioners : Reply(q) \/ ReplyAliasError(q)
  PROVE  Quiet(s)'
<1>1. \A p \in ProviderSteps : s \in loop[p].todo => platform[p][s] # Nil
  BY DEF Quiet
<1>2. UNCHANGED <<platform, loop>>
  BY DEF own
<1>3. CASE Forward
  <2>1. \A q \in Provisioners : ext'[q] = ext[q] \/ (ext'[q] = forwarding /\ forwarding # Nil)
    BY <1>3 DEF Forward, TypeOK
  <2>2. \A q \in Provisioners : ext'[q] = ext[q] \/ ext'[q].svc # s
    BY <2>1 DEF Quiet
  <2>3. UNCHANGED <<table, heap, listener, running, sending>> /\ forwarding' = Nil
    BY <1>3 DEF Forward
  <2> QED
    BY <1>1, <1>2, <2>2, <2>3, QuietFrame
<1>4. ASSUME NEW h \in Handlers, TakeRequest(h) PROVE Quiet(s)'
  <2>1. forwarding' = sending[h] /\ sending[h].svc # s
    BY <1>4 DEF TakeRequest, Quiet
  <2>2. \A g \in Handlers : sending'[g] \in {sending[g], Nil}
    BY <1>4 DEF TakeRequest, TypeOK
  <2>3. UNCHANGED <<table, heap, listener, running, ext>>
    BY <1>4 DEF TakeRequest
  <2> QED
    BY <1>1, <1>2, <2>1, <2>2, <2>3, QuietFrame
<1>5. ASSUME NEW q \in Provisioners, Reply(q) \/ ReplyAliasError(q) PROVE Quiet(s)'
  <2>1. ext[q] # Nil /\ ext[q].svc # s /\ ext[q] \in Message
    BY <1>5 DEF Reply, ReplyAliasError, Quiet, TypeOK
  <2>2. PICK msg \in Message : Receive(q, msg) /\ msg.svc = ext[q].svc
    BY <1>5, ReplyMessage
  <2>3. q \in Extensions
    BY StepSets
  <2>4. listener'[q].msg.svc # s /\ \A y \in Extensions \ {q} : listener'[y] = listener[y]
    BY <2>1, <2>2, <2>3 DEF Receive, TypeOK, Message
  <2>5. \A y \in Extensions :
          \/ listener'[y] = listener[y]
          \/ /\ Confirms(listener'[y].msg, s)
             /\ listener'[y].msg.svc = s => listener'[y].at # "merge"
    BY <2>4 DEF Confirms
  <2>6. \A r \in Provisioners : ext'[r] \in {ext[r], Nil} \/ ext'[r].svc # s
    <3>1. \A r \in Provisioners \ {q} : ext'[r] = ext[r]
      BY <1>5 DEF Reply, ReplyAliasError, TypeOK
    <3>2. ext'[q] = Nil \/ ext'[q] = [ext[q] EXCEPT !.err = TRUE]
      BY <1>5 DEF Reply, ReplyAliasError, TypeOK
    <3>3. [ext[q] EXCEPT !.err = TRUE].svc = ext[q].svc
      BY <2>1 DEF Message
    <3> QED
      BY <2>1, <3>1, <3>2, <3>3
  <2>7. UNCHANGED <<table, heap, running, sending, forwarding>>
    BY <1>5 DEF Reply, ReplyAliasError
  <2> QED
    BY <1>1, <1>2, <2>5, <2>6, <2>7, QuietFrame
<1> QED
  BY <1>3, <1>4, <1>5

\* The housekeeper: the entry is neither in progress nor removable.
LEMMA SweepQuiet ==
  ASSUME TypeOK, NoMixUp, NEW s \in Services, Quiet(s), StartSweep \/ Sweep
  PROVE  Quiet(s)'
<1>1. \A p \in ProviderSteps : s \in loop[p].todo => platform[p][s] # Nil
  BY DEF Quiet
<1>2. table[s] \in Entries /\ table[s] # Nil
  BY DEF Quiet, TypeOK
<1>3. ASSUME NEW t \in Services, TimeOut(t) \/ Remove(t), UNCHANGED <<platform, loop>>
      PROVE  Quiet(s)'
  <2>1. t # s
    BY <1>3, StepSets DEF TimeOut, Remove, Removable, Quiet
  <2>2. table'[s] = table[s] /\ table[t] # table[s]
    BY <1>3, <2>1 DEF TimeOut, Remove, TypeOK, NoMixUp
  <2>3. Referenced(table[s])'
    BY <2>2 DEF Referenced
  <2>4. heap'[table[s]] = heap[table[s]]
    BY <1>2, <1>3, <2>2, <2>3 DEF TimeOut, Remove, Collected, TypeOK
  <2>5. UNCHANGED <<listener, running, sending, forwarding, ext>>
    BY <1>3 DEF TimeOut, Remove
  <2> QED
    BY <1>1, <1>3, <2>2, <2>4, <2>5, QuietFrame
<1>4. CASE UNCHANGED <<vars, platform, loop>>
  BY <1>1, <1>4, QuietFrame DEF vars
<1> QED
  BY <1>3, <1>4 DEF StartSweep, Sweep, EndSweep, VisitRemove, VisitRefresh, VisitTimeOut,
                    VisitDone

LEMMA StepQuiet ==
  ASSUME TypeOK, NoMixUp, InterlookTypeOK, Reordered = {}, [InterlookNext]_allVars,
         UNCHANGED platform, ~(\E p \in ProviderSteps : Misled(p)),
         NEW s \in Services, Quiet(s)
  PROVE  Quiet(s)'
<1>1. CASE \E p \in ProviderSteps : Poll(p) \/ Provide(p)
  BY <1>1, ProviderQuiet DEF Provide
<1>2. CASE UNCHANGED <<vars, platform, loop>>
  <2>1. \A p \in ProviderSteps : s \in loop[p].todo => platform[p][s] # Nil
    BY DEF Quiet
  <2> QED
    BY <1>2, <2>1, QuietFrame DEF vars
<1>3. CASE \E p \in ProviderSteps, t \in Services : PlatformChange(p, t)
  BY <1>2, <1>3 DEF PlatformChange
<1>4. CASE StartSweep \/ Sweep
  BY <1>4, SweepQuiet
<1>5. CASE \E x \in Extensions : LockedMerge(x) \/ Listen(x)
  BY <1>5, ListenerQuiet DEF LockedMerge, Listen
<1>6. CASE \E h \in Handlers : Handle(h)
  BY <1>6, HandlerQuiet, RequestQuiet DEF Handle
<1>7. CASE ForwardRequest
  BY <1>7, RequestQuiet DEF ForwardRequest
<1>8. CASE \E q \in Provisioners : Provision(q)
  BY <1>8, RequestQuiet DEF Provision
<1>9. CASE UNCHANGED allVars
  BY <1>2, <1>9 DEF allVars, own
<1> QED
  BY <1>1, <1>3, <1>4, <1>5, <1>6, <1>7, <1>8, <1>9 DEF InterlookNext

\* Where the order of targets does not vary, no poll, refresh or sweep disturbs a
\* service that is deployed as its platforms run it.
THEOREM DeployedIsLeftAlone ==
  ASSUME Reordered = {}
  PROVE  InterlookSpec => StaysQuiet
<1> DEFINE Left == UNCHANGED platform /\ ~(\E p \in ProviderSteps : Misled(p)) =>
                     \A s \in Services : Quiet(s) => Quiet(s)'
<1>1. Types /\ NoMixUp /\ [InterlookNext]_allVars => [Left]_allVars
  BY StepQuiet DEF Types
<1>2. InterlookSpec => []NoMixUp
  BY InterlookImplementsEngine, Unmixed, PTL DEF ImplementsEngine
<1> QED
  BY <1>1, <1>2, AlwaysTypes, PTL DEF InterlookSpec, StaysQuiet
=============================================================================
