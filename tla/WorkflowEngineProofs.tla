------------------------ MODULE WorkflowEngineProofs ------------------------
(***************************************************************************)
(* Theorems about the workflow engine, for every workflow, any services and  *)
(* any number of handlers and entries: its type invariant, that nothing is   *)
(* mixed up between services, that work on a service is never lost and no    *)
(* message answered twice; and, for workflows in which a provisioner comes    *)
(* after each provider, that an entry is closed only where it was meant to    *)
(* go and that the engine implements the lifecycle of a service.             *)
(***************************************************************************)
EXTENDS EngineLifecycle, TLAPS, WellFoundedInduction, FiniteSetTheorems

-----------------------------------------------------------------------------
(* What getNextStep returns, for every workflow. *)

\* A nonempty set of step ids has a least element (that of the loop over them).
LEMMA MinOfSteps ==
  ASSUME NEW S, S \subseteq Nat, S # {}
  PROVE  Min(S) \in S /\ \A i \in S : Min(S) <= i
<1>1. PICK m \in S : \A i \in S : ~(<<i, m>> \in OpToRel(<, Nat))
  BY NatLessThanWellFounded, WFMin
<1>2. \A i \in S : ~(i < m)
  BY <1>1, Zenon DEF OpToRel
<1>3. \A i \in S : m <= i
  BY <1>2
<1> QED
  BY <1>3 DEF Min

\* And a greatest one, found by reflecting them at the end of the workflow.
LEMMA MaxOfSteps ==
  ASSUME NEW S, S \subseteq StepIds, S # {}
  PROVE  Max(S) \in S /\ \A i \in S : Max(S) >= i
<1> DEFINE T == {j \in Nat : Deployed - j \in S}
<1>0. NSteps \in Nat
  BY StepsAssumption
<1>1. T \subseteq Nat /\ T # {}
  <2>1. PICK i \in S : TRUE
    OBVIOUS
  <2>2. Deployed - i \in Nat /\ Deployed - (Deployed - i) = i
    BY <1>0, <2>1, SMT DEF StepIds, Deployed
  <2> QED
    BY <2>1, <2>2
<1>2. PICK m \in T : \A j \in T : ~(<<j, m>> \in OpToRel(<, Nat))
  BY <1>1, NatLessThanWellFounded, WFMin
<1>3. \A j \in T : m <= j
  <2>1. \A j \in T : ~(j < m)
    BY <1>2, Zenon DEF OpToRel
  <2> QED
    BY <1>1, <2>1
<1>4. \A i \in S : Deployed - m >= i
  <2> TAKE i \in S
  <2>1. i \in 0..(NSteps + 1)
    BY DEF StepIds
  <2>2. Deployed - i \in Nat /\ Deployed - (Deployed - i) = i
    BY <1>0, <2>1, SMT DEF Deployed
  <2>3. Deployed - i \in T
    BY <2>2
  <2>4. m <= Deployed - i
    BY <1>3, <2>3
  <2>5. m \in Nat
    BY <1>2
  <2> QED
    BY <1>0, <2>1, <2>4, <2>5, SMT DEF Deployed
<1>5. Deployed - m \in S
  BY <1>2
<1> QED
  BY <1>4, <1>5 DEF Max

\* The next step is a provisioner or an end state, and lies in the direction of
\* the walk: a service is never sent to a provider, and always moves on.
LEMMA NextStepIsAhead ==
  ASSUME NEW i \in StepIds, NEW r \in BOOLEAN, HasNextStep(i, r)
  PROVE  /\ getNextStep(i, r) \in StepIds \ ProviderSteps
         /\ r => getNextStep(i, r) < i
         /\ ~r => getNextStep(i, r) > i
<1> DEFINE S == StepsAhead(i, r)
<1>1. S \subseteq StepIds /\ S \subseteq Nat /\ S # {}
  BY StepsAssumption DEF StepsAhead, HasNextStep, StepIds
<1>2. getNextStep(i, r) \in S
  <2>1. CASE r
    <3>1. Max(S) \in S
      BY <1>1, MaxOfSteps
    <3> QED
      BY <2>1, <3>1 DEF getNextStep
  <2>2. CASE ~r
    <3>1. Min(S) \in S
      BY <1>1, MinOfSteps
    <3> QED
      BY <2>2, <3>1 DEF getNextStep
  <2> QED
    BY <2>1, <2>2
<1> QED
  BY <1>2 DEF StepsAhead

\* No step that a service could stop at is passed over.
LEMMA NextStepIsNearest ==
  ASSUME NEW i \in StepIds, NEW r \in BOOLEAN, NEW j \in StepsAhead(i, r)
  PROVE  /\ r => j <= getNextStep(i, r)
         /\ ~r => getNextStep(i, r) <= j
<1>1. StepsAhead(i, r) \subseteq StepIds /\ StepsAhead(i, r) \subseteq Nat /\ StepsAhead(i, r) # {}
  BY StepsAssumption DEF StepsAhead, StepIds
<1>2. Min(StepsAhead(i, r)) <= j
  BY <1>1, MinOfSteps
<1>3. Max(StepsAhead(i, r)) >= j /\ Max(StepsAhead(i, r)) \in StepsAhead(i, r)
  BY <1>1, MaxOfSteps
<1>4. j <= Max(StepsAhead(i, r))
  BY <1>1, <1>3
<1> QED
  BY <1>2, <1>4 DEF getNextStep

\* Every extension has a next step in both directions; only an end has none.
LEMMA NextStepExists ==
  ASSUME NEW i \in StepIds, NEW r \in BOOLEAN
  PROVE  HasNextStep(i, r) \/ i = (IF r THEN Undeployed ELSE Deployed)
<1>1. Undeployed \in StepIds \ ProviderSteps /\ Deployed \in StepIds \ ProviderSteps
  BY StepsAssumption, SMT DEF Undeployed, Deployed, StepIds
<1>2. CASE r /\ i # Undeployed
  <2>1. Undeployed < i
    BY <1>2, StepsAssumption, SMT DEF Undeployed, StepIds
  <2>2. Undeployed \in StepsAhead(i, r)
    BY <1>1, <1>2, <2>1 DEF StepsAhead
  <2> QED
    BY <2>2 DEF HasNextStep
<1>3. CASE ~r /\ i # Deployed
  <2>1. Deployed > i
    BY <1>3, StepsAssumption, SMT DEF Deployed, StepIds
  <2>2. Deployed \in StepsAhead(i, r)
    BY <1>1, <1>3, <2>1 DEF StepsAhead
  <2> QED
    BY <2>2 DEF HasNextStep
<1> QED
  BY <1>2, <1>3

-----------------------------------------------------------------------------
(* The operators on entries and messages. *)

LEMMA StepSets ==
  /\ Extensions \subseteq StepIds
  /\ Provisioners \subseteq Extensions
  /\ ProviderSteps \subseteq Extensions
  /\ EndStates \subseteq StepIds
  /\ Undeployed \in EndStates /\ Deployed \in EndStates
  /\ Extensions \cap EndStates = {}
  /\ Undeployed # Deployed
<1>1. NSteps \in Nat /\ NSteps > 0 /\ ProviderSteps \subseteq 1..NSteps
  BY StepsAssumption
<1> QED
  BY <1>1, SMT DEF Extensions, StepIds, Provisioners, EndStates, Undeployed, Deployed

LEMMA ReverseType == ASSUME NEW e PROVE isReverse(e) \in BOOLEAN
BY DEF isReverse

LEMMA RestingEntry == Resting \subseteq Entry
BY DEF Resting

LEMMA SetNextStepType ==
  ASSUME NEW e \in Entry
  PROVE  setNextStep(e) \in Resting
<1>1. e.state \in StepIds
  BY DEF Entry
<1>2. CASE HasNextStep(e.state, isReverse(e))
  <2>1. getNextStep(e.state, isReverse(e)) \in StepIds \ ProviderSteps
    BY <1>1, <1>2, NextStepIsAhead, ReverseType
  <2> QED
    BY <1>2, <2>1 DEF setNextStep, Entry, Resting
<1>3. CASE ~HasNextStep(e.state, isReverse(e))
  <2>1. e.state \in EndStates
    BY <1>1, <1>3, NextStepExists, ReverseType, StepSets
  <2> QED
    BY <1>3, <2>1, StepSets DEF setNextStep, Resting
<1> QED
  BY <1>2, <1>3

LEMMA NewEntryType == makeNewFlowEntry \in Resting
<1>1. [state |-> Undeployed, expected |-> Deployed, wip |-> FALSE,
       error |-> FALSE, closed |-> FALSE, def |-> NoDef] \in Entry
  BY StepSets DEF Entry
<1> QED
  BY <1>1, SetNextStepType, RestingEntry DEF makeNewFlowEntry

LEMMA NewEntryIdle == makeNewFlowEntry.wip = FALSE
<1> DEFINE e == [state |-> Undeployed, expected |-> Deployed, wip |-> FALSE,
                 error |-> FALSE, closed |-> FALSE, def |-> NoDef]
           r == isReverse(e)
           next == getNextStep(e.state, r)
<1>1. e.wip = FALSE
  OBVIOUS
<1>2. [e EXCEPT !.state = next, !.wip = FALSE, !.closed = FALSE].wip = FALSE
  OBVIOUS
<1>3. makeNewFlowEntry \in {e, [e EXCEPT !.state = next, !.wip = FALSE, !.closed = FALSE]}
  BY Zenon DEF makeNewFlowEntry, setNextStep
<1> QED
  BY <1>1, <1>2, <1>3

LEMMA CloseType ==
  ASSUME NEW e \in Entry, NEW b \in BOOLEAN
  PROVE  close(e, b) \in Resting
BY StepSets DEF close, Entry, Resting

LEMMA TurnBackType ==
  ASSUME NEW e \in Resting
  PROVE  TurnBack(e) \in Resting
<1>1. setNextStep(e) \in Resting
  BY SetNextStepType, RestingEntry
<1> QED
  BY <1>1, StepSets DEF TurnBack, Entry, Resting

LEMMA EntryTypes ==
  ASSUME NEW e \in Resting, NEW msg \in Message, NEW b \in BOOLEAN
  PROVE  /\ setState(e, msg) \in Entry
         /\ setState([e EXCEPT !.expected = Deployed], msg) \in Entry
         /\ updateService(e, msg) \in Resting
         /\ [e EXCEPT !.wip = b] \in Resting
         /\ Failed(e) \in Resting
<1>0. e \in Entry
  BY DEF Resting
<1>1. \A f \in Entry : setState(f, msg) \in Entry
  BY DEF setState, Entry, Message
<1>2. updateService(e, msg) \in Resting
  BY DEF updateService, Entry, Resting, Message
<1>3. [e EXCEPT !.wip = b] \in Resting /\ Failed(e) \in Resting
  BY DEF Entry, Resting, Failed
<1>4. [e EXCEPT !.expected = Deployed] \in Entry
  BY <1>0, StepSets DEF Entry
<1> QED
  BY <1>0, <1>1, <1>2, <1>3, <1>4

LEMMA BuildMessageType ==
  ASSUME NEW s \in Services, NEW e \in Resting
  PROVE  BuildMessage(s, e) \in Message
BY DEF BuildMessage, Message, Entry, Resting, Actions

LEMMA ProviderMessagesType ==
  ASSUME NEW p \in ProviderSteps, NEW msg \in ProviderMessages(p)
  PROVE  msg \in Message
<1>1. p \in StepIds
  BY StepSets
<1> QED
  BY <1>1 DEF ProviderMessages, Message, Actions

-----------------------------------------------------------------------------
(* Type correctness. *)

\* What Finish and sendToExtension do to the entry keeps the types.
LEMMA FinishType ==
  ASSUME TypeOK, crashed' \in BOOLEAN,
         NEW h \in Handlers, running[h] # Nil, NEW e \in Resting,
         Finish(h, e)
  PROVE  TypeOK'
<1>1. running[h] \in Tasks
  BY DEF TypeOK
<1>2. [heap EXCEPT ![running[h].entry] = e] \in [Entries -> Resting]
  BY DEF TypeOK
<1>3. heap' \in [Entries -> Resting]
  BY <1>2, NewEntryType DEF Finish, Collected, FreeCell
<1>4. running' \in [Handlers -> Tasks \cup {Nil}]
  BY DEF TypeOK, Finish
<1> QED
  BY <1>3, <1>4 DEF TypeOK, Finish

LEMMA SendType ==
  ASSUME TypeOK, crashed' \in BOOLEAN,
         NEW h \in Handlers, running[h] # Nil, NEW e \in Resting,
         sendToExtension(h, e)
  PROVE  TypeOK'
<1>1. running[h] \in Tasks /\ running[h].msg.svc \in Services
  BY DEF TypeOK, Tasks, Message
<1>2. [heap EXCEPT ![running[h].entry] = [e EXCEPT !.wip = TRUE]] \in [Entries -> Resting]
  BY DEF TypeOK, Entry, Resting
<1>3. heap' \in [Entries -> Resting]
  BY <1>2, NewEntryType DEF sendToExtension, Collected, FreeCell
<1>4. running' \in [Handlers -> Tasks \cup {Nil}]
  BY DEF TypeOK, sendToExtension
<1>5. sending' \in [Handlers -> Message \cup {Nil}]
  BY <1>1, BuildMessageType DEF TypeOK, sendToExtension
<1> QED
  BY <1>3, <1>4, <1>5 DEF TypeOK, sendToExtension

\* What a handler has in hand when it runs.
LEMMA TaskTypes ==
  ASSUME TypeOK, NEW h \in Handlers, running[h] # Nil
  PROVE  /\ running[h].entry \in Entries
         /\ running[h].msg \in Message
         /\ heap[running[h].entry] \in Resting
         /\ running[h].msg.err \in BOOLEAN
BY DEF TypeOK, Tasks, Message

LEMMA ProceedType ==
  ASSUME TypeOK, crashed' \in BOOLEAN,
         NEW h \in Handlers, running[h] # Nil, NEW e \in Resting,
         Proceed(h, e)
  PROVE  TypeOK'
<1>1. close(e, running[h].msg.err) \in Resting
  BY TaskTypes, CloseType, RestingEntry
<1> QED
  BY <1>1, FinishType, SendType DEF Proceed

\* An announcement is never ignored: the entry is put at the provider's step just
\* before it is asked whether it is past it (providerState, providerAddState).
LEMMA NeverIgnored ==
  ASSUME NEW h \in Handlers, ExecuteAdd(h), heap[running[h].entry] \in Resting
  PROVE  Proceed(h, setNextStep(setState([heap[running[h].entry] EXCEPT !.expected = Deployed],
                                         running[h].msg)))
<1> DEFINE f == setState([heap[running[h].entry] EXCEPT !.expected = Deployed], running[h].msg)
<1>1. f.state = running[h].msg.step
  BY DEF setState, Entry, Resting
<1>2. ~stillUnderDeployment(f)
  BY <1>1 DEF stillUnderDeployment, ExecuteAdd, Runs
<1> QED
  BY <1>2 DEF ExecuteAdd

LEMMA ExecuteType ==
  ASSUME TypeOK, NEW h \in Handlers, Execute(h)
  PROVE  TypeOK'
<1> DEFINE e == heap[running[h].entry]
           msg == running[h].msg
<1>1. crashed' \in BOOLEAN
  BY DEF Execute, ExecuteAdd, ExecuteDelete, RecurseDelete, ExecuteReply, TypeOK
<1>2. running[h] # Nil
  BY DEF Execute, ExecuteAdd, ExecuteDelete, RecurseDelete, ExecuteReply, Runs
<1>3. e \in Resting /\ msg \in Message /\ msg.err \in BOOLEAN
  BY <1>2, TaskTypes
<1>4. CASE ExecuteAdd(h)
  <2> DEFINE f == setState([e EXCEPT !.expected = Deployed], msg)
  <2>1. f \in Entry
    BY <1>3, EntryTypes
  <2>2. setNextStep(f) \in Resting
    BY <2>1, SetNextStepType, RestingEntry
  <2>3. Proceed(h, setNextStep(f))
    BY <1>3, <1>4, NeverIgnored
  <2> QED
    BY <1>1, <1>2, <2>2, <2>3, ProceedType
<1>5. CASE ExecuteDelete(h) \/ RecurseDelete(h)
  <2>1. TurnBack(e) \in Resting
    BY <1>3, TurnBackType
  <2>2. setNextStep(TurnBack(e)) \in Resting
    BY <2>1, SetNextStepType, RestingEntry
  <2>3. Finish(h, TurnBack(e)) \/ Proceed(h, setNextStep(TurnBack(e)))
    BY <1>5 DEF ExecuteDelete, RecurseDelete
  <2> QED
    BY <1>1, <1>2, <2>1, <2>2, <2>3, FinishType, ProceedType
<1>6. CASE ExecuteReply(h)
  <2> DEFINE next == setNextStep(updateService(e, msg))
             failed == Failed(e)
  <2>1. next \in Resting
    <3>1. updateService(e, msg) \in Entry
      BY <1>3, EntryTypes DEF Resting
    <3> QED
      BY <3>1, SetNextStepType, RestingEntry
  <2>2. close(next, msg.err) \in Resting
    BY <1>3, <2>1, CloseType, RestingEntry DEF Resting
  <2>3. failed \in Resting
    BY <1>3, EntryTypes
  <2>4. \/ Finish(h, e) \/ Finish(h, failed) \/ Finish(h, close(next, msg.err))
        \/ sendToExtension(h, next) \/ sendToExtension(h, e)
    BY <1>6 DEF ExecuteReply
  <2> QED
    BY <1>1, <1>2, <1>3, <2>1, <2>2, <2>3, <2>4, FinishType, SendType
<1> QED
  BY <1>4, <1>5, <1>6 DEF Execute

\* A message that reaches a listener.
LEMMA ReceiveType ==
  ASSUME TypeOK, NEW x \in Extensions, NEW msg \in Message, Receive(x, msg)
  PROVE  listener' \in [Extensions -> Jobs \cup {Nil}]
<1>1. x \in StepIds
  BY StepSets
<1>2. [msg EXCEPT !.step = x] \in Message
  BY <1>1 DEF Message
<1>3. [msg |-> [msg EXCEPT !.step = x], at |-> "check"] \in Jobs
  BY <1>2 DEF Jobs
<1> QED
  BY <1>3 DEF TypeOK, Receive

LEMMA ListenerType ==
  ASSUME TypeOK, NEW x \in Extensions, Check(x) \/ Skip(x)
  PROVE  TypeOK'
<1>1. CASE Check(x)
  <2>1. listener[x] \in Jobs
    BY <1>1 DEF Check, TypeOK
  <2>2. PICK place \in {"merge", "skip"} : listener' = [listener EXCEPT ![x].at = place]
    BY <1>1 DEF Check
  <2>3. [listener[x] EXCEPT !.at = place] \in Jobs
    BY <2>1 DEF Jobs
  <2>4. listener' = [listener EXCEPT ![x] = [listener[x] EXCEPT !.at = place]]
    BY <2>2 DEF TypeOK
  <2>5. listener' \in [Extensions -> Jobs \cup {Nil}]
    BY <2>3, <2>4 DEF TypeOK
  <2> QED
    BY <1>1, <2>5 DEF Check, TypeOK
<1>2. CASE Skip(x)
  BY <1>2 DEF Skip, TypeOK
<1> QED
  BY <1>1, <1>2

LEMMA MergeType ==
  ASSUME TypeOK, NEW x \in Extensions, Merge(x)
  PROVE  TypeOK'
<1>1. listener[x] \in Jobs
  BY DEF Merge, TypeOK
<1>2. listener[x].msg \in Message /\ listener[x].msg.svc \in Services
  BY <1>1 DEF Jobs, Message
<1>3. PICK c \in Entries, e \in Resting : Spawn(x, c, e)
  <2>1. CASE table[listener[x].msg.svc] # Nil /\ Spawn(x, table[listener[x].msg.svc], heap[table[listener[x].msg.svc]])
    <3>1. table[listener[x].msg.svc] \in Entries
      BY <1>2, <2>1 DEF TypeOK
    <3>2. heap[table[listener[x].msg.svc]] \in Resting
      BY <3>1 DEF TypeOK
    <3> QED
      BY <2>1, <3>1, <3>2
  <2>2. CASE \E new \in Entries : Spawn(x, new, makeNewFlowEntry)
    BY <2>2, NewEntryType
  <2> QED
    BY <2>1, <2>2 DEF Merge
<1>4. table' \in [Services -> Entries \cup {Nil}]
  BY <1>2, <1>3 DEF Spawn, TypeOK
<1>5. updateService(e, listener[x].msg) \in Resting
  BY <1>2, EntryTypes
<1>6. heap' \in [Entries -> Resting]
  BY <1>3, <1>5 DEF Spawn, TypeOK
<1>7. running' \in [Handlers -> Tasks \cup {Nil}]
  <2>1. [entry |-> c, msg |-> listener[x].msg] \in Tasks
    BY <1>2 DEF Tasks
  <2>2. PICK h \in Handlers : running' = [running EXCEPT ![h] = [entry |-> c, msg |-> listener[x].msg]]
    BY <1>3 DEF Spawn
  <2> QED
    BY <2>1, <2>2 DEF TypeOK
<1>8. listener' \in [Extensions -> Jobs \cup {Nil}]
  BY <1>3 DEF Spawn, TypeOK
<1> QED
  BY <1>3, <1>4, <1>6, <1>7, <1>8 DEF Spawn, TypeOK

LEMMA RequestTypes ==
  ASSUME TypeOK, Forward \/ \E h \in Handlers : TakeRequest(h)
  PROVE  TypeOK'
<1>1. CASE Forward
  <2>1. ext' \in [Provisioners -> Message \cup {Nil}]
    BY <1>1 DEF Forward, TypeOK
  <2> QED
    BY <1>1, <2>1 DEF Forward, TypeOK
<1>2. CASE \E h \in Handlers : TakeRequest(h)
  BY <1>2 DEF TakeRequest, TypeOK
<1> QED
  BY <1>1, <1>2

LEMMA ReplyTypes ==
  ASSUME TypeOK, NEW q \in Provisioners, Reply(q) \/ ReplyAliasError(q)
  PROVE  TypeOK'
<1>1. q \in Extensions
  BY StepSets
<1>2. ext[q] \in Message
  BY DEF TypeOK, Reply, ReplyAliasError
<1>3. ReplyAction(q, ext[q]) \in Actions
  BY <1>2 DEF ReplyAction, Message, Actions
<1>4. CASE Reply(q)
  <2>1. PICK failed \in {ext[q].err, TRUE}, left \in Contents :
          /\ Receive(q, [ext[q] EXCEPT !.action = ReplyAction(q, ext[q]), !.err = failed])
          /\ provisioned' = [provisioned EXCEPT ![q][ext[q].svc] = left]
    BY <1>4 DEF Reply
  <2>2. [ext[q] EXCEPT !.action = ReplyAction(q, ext[q]), !.err = failed] \in Message
    BY <1>2, <1>3 DEF Message
  <2>3. listener' \in [Extensions -> Jobs \cup {Nil}]
    BY <1>1, <2>1, <2>2, ReceiveType
  <2>4. left \in Contents
    OBVIOUS
  <2>5. ext[q].svc \in Services
    BY <1>2 DEF Message
  <2>6. provisioned' \in [Provisioners -> [Services -> Contents]]
    <3>1. provisioned \in [Provisioners -> [Services -> Contents]]
      BY DEF TypeOK
    <3>2. [provisioned[q] EXCEPT ![ext[q].svc] = left]
            \in [Services -> Contents]
      BY <2>4, <2>5, <3>1
    <3>3. provisioned' = [provisioned EXCEPT
              ![q] = [provisioned[q] EXCEPT ![ext[q].svc] = left]]
      BY <2>1, <3>1
    <3> QED
      BY <3>1, <3>2, <3>3
  <2>7. ext' \in [Provisioners -> Message \cup {Nil}]
    BY <1>4 DEF Reply, TypeOK
  <2>8. UNCHANGED <<table, heap, running, sending, forwarding, crashed>>
    BY <1>4 DEF Reply
  <2> QED
    BY <2>3, <2>6, <2>7, <2>8 DEF TypeOK
<1>5. CASE ReplyAliasError(q)
  <2>1. [ext[q] EXCEPT !.action = ReplyAction(q, ext[q]), !.err = TRUE] \in Message
    BY <1>2, <1>3 DEF Message
  <2>2. listener' \in [Extensions -> Jobs \cup {Nil}]
    BY <1>1, <1>5, <2>1, ReceiveType DEF ReplyAliasError
  <2>3. [ext[q] EXCEPT !.err = TRUE] \in Message
    BY <1>2 DEF Message
  <2>4. ext' = [ext EXCEPT ![q] = [ext[q] EXCEPT !.err = TRUE]]
    BY <1>5 DEF ReplyAliasError, TypeOK
  <2>5. ext' \in [Provisioners -> Message \cup {Nil}]
    BY <2>3, <2>4 DEF TypeOK
  <2> QED
    BY <1>5, <2>2, <2>5 DEF ReplyAliasError, TypeOK
<1> QED
  BY <1>4, <1>5

LEMMA HousekeeperTypes ==
  ASSUME TypeOK, NEW s \in Services, TimeOut(s) \/ Remove(s)
  PROVE  TypeOK'
<1>1. CASE TimeOut(s)
  <2>1. table[s] \in Entries /\ heap[table[s]] \in Resting
    BY <1>1 DEF TimeOut, TypeOK
  <2>2. close(heap[table[s]], TRUE) \in Resting
    BY <2>1, CloseType, RestingEntry
  <2>3. heap' = [heap EXCEPT ![table[s]] = close(heap[table[s]], TRUE)]
    BY <1>1 DEF TimeOut
  <2>4. heap' \in [Entries -> Resting]
    BY <2>2, <2>3 DEF TypeOK
  <2> QED
    BY <1>1, <2>4 DEF TimeOut, TypeOK
<1>2. CASE Remove(s)
  <2>1. heap' \in [Entries -> Resting]
    BY <1>2, NewEntryType DEF Remove, Collected, FreeCell, TypeOK
  <2> QED
    BY <1>2, <2>1 DEF Remove, TypeOK
<1> QED
  BY <1>1, <1>2

LEMMA InitType == Init => TypeOK
BY NewEntryType DEF Init, TypeOK, FreeCell, Contents

LEMMA StepType == TypeOK /\ [Next]_vars => TypeOK'
<1> SUFFICES ASSUME TypeOK, [Next]_vars PROVE TypeOK'
  OBVIOUS
<1>1. CASE SomeProviderSends
  <2>1. PICK p \in ProviderSteps : \E msg \in ProviderMessages(p) : ProviderSend(p, msg)
    BY <1>1 DEF SomeProviderSends
  <2> PICK msg \in ProviderMessages(p) : ProviderSend(p, msg)
    BY <2>1
  <2>2. p \in Extensions /\ msg \in Message
    BY StepSets, ProviderMessagesType
  <2>3. listener' \in [Extensions -> Jobs \cup {Nil}]
    BY <2>2, ReceiveType DEF ProviderSend
  <2> QED
    BY <2>3 DEF ProviderSend, TypeOK
<1>2. CASE \E x \in Extensions : Check(x) \/ Skip(x) \/ Merge(x)
  BY <1>2, ListenerType, MergeType
<1>3. CASE \E h \in Handlers : Execute(h)
  BY <1>3, ExecuteType
<1>4. CASE Forward \/ \E h \in Handlers : TakeRequest(h)
  BY <1>4, RequestTypes
<1>5. CASE \E q \in Provisioners : Reply(q) \/ ReplyAliasError(q)
  BY <1>5, ReplyTypes
<1>6. CASE \E s \in Services : TimeOut(s) \/ Remove(s)
  BY <1>6, HousekeeperTypes
<1>7. CASE UNCHANGED vars
  BY <1>7 DEF vars, TypeOK
<1> QED
  BY <1>1, <1>2, <1>3, <1>4, <1>5, <1>6, <1>7 DEF Next

\* Type correctness of the engine: every slot of the table, channel, goroutine
\* and entry of core/workflow.go holds a value of its type, always.
THEOREM TypeCorrect == Spec => []TypeOK
<1>1. Init => TypeOK
  BY InitType
<1>2. TypeOK /\ [Next]_vars => TypeOK'
  BY StepType
<1> QED
  BY <1>1, <1>2, PTL DEF Spec

-----------------------------------------------------------------------------
(* Nothing is mixed up between services. *)

LEMMA ReceiveTags ==
  ASSUME NoMixUp, TypeOK, NEW x \in Extensions, NEW msg \in Message, Receive(x, msg)
  PROVE  \A y \in Extensions : listener'[y] # Nil => listener'[y].msg.step = y
<1> SUFFICES ASSUME NEW y \in Extensions, listener'[y] # Nil
             PROVE  listener'[y].msg.step = y
  OBVIOUS
<1>1. CASE y = x
  <2>1. listener'[y].msg = [msg EXCEPT !.step = x]
    BY <1>1 DEF Receive, TypeOK
  <2>2. [msg EXCEPT !.step = x].step = x
    BY DEF Message
  <2> QED
    BY <1>1, <2>1, <2>2
<1>2. CASE y # x
  BY <1>2 DEF Receive, NoMixUp, TypeOK
<1> QED
  BY <1>1, <1>2

\* A step that gives no entry to a service and no task to a handler, and keeps
\* the tags of the listeners, mixes nothing up.
LEMMA NoNewTask ==
  ASSUME TypeOK, NoMixUp,
         \A s \in Services : table'[s] \in {table[s], Nil},
         \A h \in Handlers : running'[h] \in {running[h], Nil},
         \A h \in Handlers : running'[h] # Nil => sending'[h] \in {sending[h], Nil},
         \A y \in Extensions : listener'[y] # Nil => listener'[y].msg.step = y
  PROVE  NoMixUp'
<1>1. \A s1, s2 \in Services : table'[s1] = table'[s2] /\ table'[s1] # Nil => s1 = s2
  BY DEF NoMixUp
<1>2. ASSUME NEW h \in Handlers, running'[h] # Nil
      PROVE  /\ \A s \in Services : running'[h].entry = table'[s] => running'[h].msg.svc = s
             /\ sending'[h] = Nil
  <2>1. running'[h] = running[h] /\ running[h].entry \in Entries
    BY <1>2 DEF TypeOK, Tasks
  <2>2. running[h].entry # Nil
    BY <2>1, EngineAssumption
  <2> QED
    BY <1>2, <2>1, <2>2 DEF NoMixUp
<1> QED
  BY <1>1, <1>2 DEF NoMixUp

LEMMA FinishUnmixed ==
  ASSUME TypeOK, NoMixUp, NEW h \in Handlers, NEW e,
         Finish(h, e) \/ sendToExtension(h, e)
  PROVE  NoMixUp'
<1>1. \A g \in Handlers : running'[g] \in {running[g], Nil}
  BY DEF Finish, sendToExtension, TypeOK
<1>2. \A g \in Handlers : running'[g] # Nil => sending'[g] \in {sending[g], Nil}
  BY DEF Finish, sendToExtension, TypeOK
<1>3. table' = table /\ listener' = listener
  BY DEF Finish, sendToExtension
<1> QED
  BY <1>1, <1>2, <1>3, NoNewTask DEF NoMixUp

LEMMA MergeUnmixed ==
  ASSUME TypeOK, NoMixUp, NEW x \in Extensions, Merge(x)
  PROVE  NoMixUp'
<1> DEFINE msg == listener[x].msg
<1>1. msg.svc \in Services
  BY DEF Merge, TypeOK, Jobs, Message
<1>2. PICK c \in Entries, e \in Resting :
        /\ Spawn(x, c, e)
        /\ \/ c = table[msg.svc]
           \/ table[msg.svc] = Nil /\ ~Referenced(c)
  <2>1. table[msg.svc] # Nil => table[msg.svc] \in Entries /\ heap[table[msg.svc]] \in Resting
    BY <1>1 DEF TypeOK
  <2> QED
    BY <2>1, NewEntryType DEF Merge
<1>3. PICK g \in Handlers : ~Busy(g) /\ running' = [running EXCEPT ![g] = [entry |-> c, msg |-> msg]]
  BY <1>2 DEF Spawn
<1>4. table' = [table EXCEPT ![msg.svc] = c]
  BY <1>2 DEF Spawn
<1>5. ASSUME NEW s \in Services, s # msg.svc PROVE table[s] # c
  <2>1. c # Nil
    BY EngineAssumption
  <2> QED
    BY <1>1, <1>2, <1>5, <2>1 DEF Referenced, NoMixUp
<1>6. \A s1, s2 \in Services : table'[s1] = table'[s2] /\ table'[s1] # Nil => s1 = s2
  BY <1>1, <1>4, <1>5 DEF NoMixUp, TypeOK
<1>7. ASSUME NEW h \in Handlers, running'[h] # Nil
      PROVE  /\ \A s \in Services : running'[h].entry = table'[s] => running'[h].msg.svc = s
             /\ sending'[h] = Nil
  <2>0. sending' = sending
    BY <1>2 DEF Spawn
  <2>1. CASE h = g
    <3>1. running'[h].entry = c /\ running'[h].msg = msg
      BY <1>3, <2>1 DEF TypeOK
    <3>2. sending[h] = Nil
      BY <1>3, <2>1 DEF Busy
    <3>3. ASSUME NEW s \in Services, c = table'[s] PROVE msg.svc = s
      BY <1>1, <1>4, <1>5, <3>3 DEF TypeOK
    <3> QED
      BY <2>0, <3>1, <3>2, <3>3
  <2>2. CASE h # g
    <3>1. running'[h] = running[h] /\ running[h] # Nil
      BY <1>3, <1>7, <2>2 DEF TypeOK
    <3>2. ASSUME NEW s \in Services, running[h].entry = table'[s] PROVE running[h].msg.svc = s
      <4>1. CASE s # msg.svc \/ c = table[msg.svc]
        <5>1. table'[s] = table[s]
          BY <1>1, <1>4, <4>1 DEF TypeOK
        <5> QED
          BY <3>1, <3>2, <5>1 DEF NoMixUp
      <4>2. CASE s = msg.svc /\ ~Referenced(c)
        <5>1. running[h].entry = c
          BY <1>1, <1>4, <3>2, <4>2 DEF TypeOK
        <5> QED
          BY <3>1, <4>2, <5>1 DEF Referenced
      <4> QED
        BY <1>2, <4>1, <4>2
    <3> QED
      BY <2>0, <3>1, <3>2 DEF NoMixUp
  <2> QED
    BY <2>1, <2>2
<1>8. \A y \in Extensions : listener'[y] # Nil => listener'[y].msg.step = y
  BY <1>2 DEF Spawn, NoMixUp, TypeOK
<1> QED
  BY <1>6, <1>7, <1>8 DEF NoMixUp

LEMMA ReplyMessage ==
  ASSUME TypeOK, NEW q \in Provisioners, Reply(q) \/ ReplyAliasError(q)
  PROVE  \E msg \in Message : Receive(q, msg) /\ msg.svc = ext[q].svc
<1>1. ext[q] \in Message
  BY DEF TypeOK, Reply, ReplyAliasError
<1>2. ReplyAction(q, ext[q]) \in Actions
  BY <1>1 DEF ReplyAction, Message, Actions
<1>3. PICK failed \in BOOLEAN :
        Receive(q, [ext[q] EXCEPT !.action = ReplyAction(q, ext[q]), !.err = failed])
  <2>1. ext[q].err \in BOOLEAN
    BY <1>1 DEF Message
  <2> QED
    BY <2>1 DEF Reply, ReplyAliasError
<1> DEFINE msg == [ext[q] EXCEPT !.action = ReplyAction(q, ext[q]), !.err = failed]
<1>4. msg \in Message /\ msg.svc = ext[q].svc
  BY <1>1, <1>2 DEF Message
<1> QED
  BY <1>3, <1>4

LEMMA StepUnmixed == TypeOK /\ NoMixUp /\ [Next]_vars => NoMixUp'
<1> SUFFICES ASSUME TypeOK, NoMixUp, [Next]_vars PROVE NoMixUp'
  OBVIOUS
<1>1. CASE SomeProviderSends
  <2>1. PICK p \in ProviderSteps : \E msg \in ProviderMessages(p) : ProviderSend(p, msg)
    BY <1>1 DEF SomeProviderSends
  <2> PICK msg \in ProviderMessages(p) : ProviderSend(p, msg)
    BY <2>1
  <2>2. p \in Extensions /\ msg \in Message /\ Receive(p, msg)
    BY StepSets, ProviderMessagesType DEF ProviderSend
  <2>3. \A y \in Extensions : listener'[y] # Nil => listener'[y].msg.step = y
    BY <2>2, ReceiveTags
  <2> QED
    BY <2>3, NoNewTask DEF ProviderSend
<1>2. ASSUME NEW x \in Extensions, Check(x) PROVE NoMixUp'
  <2>1. \A y \in Extensions : listener'[y] # Nil => listener[y] # Nil /\ listener'[y].msg = listener[y].msg
    <3>1. PICK place \in {"merge", "skip"} : listener' = [listener EXCEPT ![x].at = place]
      BY <1>2 DEF Check
    <3>2. listener[x] \in Jobs
      BY <1>2 DEF Check, TypeOK
    <3>3. [listener[x] EXCEPT !.at = place].msg = listener[x].msg
      BY <3>2 DEF Jobs
    <3> QED
      BY <1>2, <3>1, <3>3 DEF Check, TypeOK
  <2> QED
    BY <1>2, <2>1, NoNewTask DEF Check, NoMixUp
<1>3. ASSUME NEW x \in Extensions, Skip(x) PROVE NoMixUp'
  BY <1>3, NoNewTask DEF Skip, NoMixUp, TypeOK
<1>4. CASE \E x \in Extensions : Merge(x)
  BY <1>4, MergeUnmixed
<1>5. CASE \E h \in Handlers : Execute(h)
  BY <1>5, FinishUnmixed DEF Execute, ExecuteAdd, ExecuteDelete, RecurseDelete, ExecuteReply, Proceed
<1>6. ASSUME NEW h \in Handlers, TakeRequest(h) PROVE NoMixUp'
  <2>1. \A g \in Handlers : sending'[g] \in {sending[g], Nil}
    BY <1>6 DEF TakeRequest, TypeOK
  <2> QED
    BY <1>6, <2>1, NoNewTask DEF TakeRequest, NoMixUp
<1>7. CASE Forward
  BY <1>7, NoNewTask DEF Forward, NoMixUp
<1>8. ASSUME NEW q \in Provisioners, Reply(q) \/ ReplyAliasError(q) PROVE NoMixUp'
  <2>1. \A y \in Extensions : listener'[y] # Nil => listener'[y].msg.step = y
    BY <1>8, StepSets, ReplyMessage, ReceiveTags
  <2> QED
    BY <1>8, <2>1, NoNewTask DEF Reply, ReplyAliasError
<1>9. CASE \E s \in Services : TimeOut(s) \/ Remove(s)
  <2>1. \A t \in Services : table'[t] \in {table[t], Nil}
    BY <1>9 DEF TimeOut, Remove, TypeOK
  <2> QED
    BY <1>9, <2>1, NoNewTask DEF TimeOut, Remove, NoMixUp
<1>10. CASE UNCHANGED vars
  BY <1>10, NoNewTask DEF vars, NoMixUp
<1> QED
  BY <1>1, <1>2, <1>3, <1>4, <1>5, <1>6, <1>7, <1>8, <1>9, <1>10 DEF Next

\* Entries, goroutines and listeners never serve another service than their own,
\* however often a service is removed and announced again (mergeMessage,
\* extensionListener and the housekeeper of core/).
THEOREM Unmixed == Spec => []NoMixUp
<1>1. Init => NoMixUp
  BY DEF Init, NoMixUp
<1>2. TypeOK /\ NoMixUp /\ [Next]_vars => NoMixUp'
  BY StepUnmixed
<1> QED
  BY <1>1, <1>2, TypeCorrect, PTL DEF Spec

-----------------------------------------------------------------------------
(* Work on a service is never lost. *)

\* A step that leaves the entry of s as it is, ends no handler of it, and loses
\* no message on its way to it.
LEMMA SameEntry ==
  ASSUME NEW s \in Services, table'[s] = table[s], WorkIsKept(s),
         heap'[table[s]].state = heap[table[s]].state,
         heap'[table[s]].wip = heap[table[s]].wip,
         heap'[table[s]].error = heap[table[s]].error,
         heap[table[s]].wip /\ OnItsWay(s, heap[table[s]].state)
           => OnItsWay(s, heap[table[s]].state)',
         \A h \in Handlers : running[h] # Nil /\ running[h].entry = table[s]
           => (~heap[table[s]].wip
                => \E g \in Handlers : running'[g] # Nil /\ running'[g].entry = table[s])
  PROVE  WorkIsKept(s)'
BY DEF WorkIsKept

\* The entry a handler leaves is the one the table will hold: of another
\* service, nothing changes.
LEMMA OtherEntries ==
  ASSUME TypeOK, NoMixUp, NEW h \in Handlers, running[h] # Nil, NEW e,
         Finish(h, e) \/ sendToExtension(h, e),
         NEW s \in Services, table[s] # Nil, table[s] # running[h].entry, WorkIsKept(s)
  PROVE  WorkIsKept(s)'
<1>1. table' = table /\ table[s] \in Entries
  BY DEF Finish, sendToExtension, TypeOK
<1>2. Referenced(table[s])'
  BY <1>1 DEF Referenced
<1>3. heap'[table[s]] = heap[table[s]]
  BY <1>1, <1>2 DEF Finish, sendToExtension, Collected, TypeOK
<1>4. sending[h] = Nil
  BY DEF NoMixUp
<1>5. \A g \in Handlers : running[g] # Nil /\ running[g].entry = table[s] => running'[g] = running[g]
  BY DEF Finish, sendToExtension, TypeOK
<1>6. \A g \in Handlers : sending[g] # Nil => sending'[g] = sending[g]
  BY <1>4 DEF Finish, sendToExtension, TypeOK
<1>7. forwarding' = forwarding /\ ext' = ext /\ listener' = listener
  BY DEF Finish, sendToExtension
<1>8. OnItsWay(s, heap[table[s]].state) => OnItsWay(s, heap[table[s]].state)'
  BY <1>1, <1>3, <1>5, <1>6, <1>7 DEF OnItsWay
<1> QED
  BY <1>1, <1>3, <1>5, <1>8, SameEntry

\* A handler's own entry, when it sends a request: the request is the proof.
LEMMA SendKeeps ==
  ASSUME TypeOK, NoMixUp, NoLostWork, NEW h \in Handlers, running[h] # Nil, NEW e \in Resting,
         sendToExtension(h, e)
  PROVE  NoLostWork'
<1> SUFFICES ASSUME NEW s \in Services, table'[s] # Nil PROVE WorkIsKept(s)'
  BY DEF NoLostWork
<1>1. table' = table /\ WorkIsKept(s)
  BY DEF sendToExtension, NoLostWork
<1>2. CASE table[s] # running[h].entry
  BY <1>1, <1>2, OtherEntries
<1>3. CASE table[s] = running[h].entry
  <2>1. table[s] \in Entries /\ running[h].msg.svc = s
    BY <1>1, <1>3 DEF TypeOK, NoMixUp
  <2>2. Referenced(table[s])'
    BY <1>1 DEF Referenced
  <2>3. heap'[table[s]] = [e EXCEPT !.wip = TRUE]
    BY <1>1, <1>3, <2>1, <2>2 DEF sendToExtension, Collected, TypeOK
  <2>4. heap'[table[s]].wip /\ heap'[table[s]].state = e.state
    BY <2>3 DEF Entry, Resting
  <2>5. sending'[h] = BuildMessage(s, e)
    BY <2>1 DEF sendToExtension, TypeOK
  <2>6. sending'[h] # Nil /\ sending'[h].svc = s /\ sending'[h].step = e.state
    <3>1. BuildMessage(s, e) # Nil
      BY BuildMessageType, NilAssumption
    <3> QED
      BY <2>5, <3>1 DEF BuildMessage
  <2> QED
    BY <1>1, <2>4, <2>6 DEF WorkIsKept, OnItsWay
<1> QED
  BY <1>2, <1>3

\* A handler's own entry, when it leaves it at an end, or in error.
LEMMA EndKeeps ==
  ASSUME TypeOK, NoMixUp, NoLostWork, NEW h \in Handlers, running[h] # Nil, NEW e \in Resting,
         Finish(h, e), e.state \in EndStates \/ (~e.wip /\ e.error)
  PROVE  NoLostWork'
<1> SUFFICES ASSUME NEW s \in Services, table'[s] # Nil PROVE WorkIsKept(s)'
  BY DEF NoLostWork
<1>1. table' = table /\ WorkIsKept(s)
  BY DEF Finish, NoLostWork
<1>2. CASE table[s] # running[h].entry
  BY <1>1, <1>2, OtherEntries
<1>3. CASE table[s] = running[h].entry
  <2>1. table[s] \in Entries
    BY <1>1, <1>3 DEF TypeOK
  <2>2. Referenced(table[s])'
    BY <1>1 DEF Referenced
  <2>3. heap'[table[s]] = e
    BY <1>1, <1>3, <2>1, <2>2 DEF Finish, Collected, TypeOK
  <2> QED
    BY <1>1, <2>3 DEF WorkIsKept
<1> QED
  BY <1>2, <1>3

\* An answer that comes for another step is dropped: it was not on its way.
LEMMA DropKeeps ==
  ASSUME TypeOK, NoMixUp, NoLostWork, NEW h \in Handlers, running[h] # Nil,
         Finish(h, heap[running[h].entry]), heap[running[h].entry].wip,
         running[h].msg.step # heap[running[h].entry].state
  PROVE  NoLostWork'
<1> SUFFICES ASSUME NEW s \in Services, table'[s] # Nil PROVE WorkIsKept(s)'
  BY DEF NoLostWork
<1>1. table' = table /\ WorkIsKept(s) /\ table[s] \in Entries
  BY DEF Finish, NoLostWork, TypeOK
<1>2. CASE table[s] # running[h].entry
  BY <1>1, <1>2, OtherEntries
<1>3. CASE table[s] = running[h].entry
  <2>1. Referenced(table[s])'
    BY <1>1 DEF Referenced
  <2>2. heap'[table[s]] = heap[table[s]]
    BY <1>1, <1>3, <2>1 DEF Finish, Collected, TypeOK
  <2>3. \A g \in Handlers : g # h => running'[g] = running[g]
    BY DEF Finish, TypeOK
  <2>4. /\ sending' = sending /\ forwarding' = forwarding
        /\ ext' = ext /\ listener' = listener
    BY DEF Finish
  <2>5. OnItsWay(s, heap[table[s]].state) => OnItsWay(s, heap[table[s]].state)'
    BY <1>1, <1>3, <2>2, <2>3, <2>4 DEF OnItsWay
  <2> QED
    BY <1>1, <1>3, <2>2, <2>5, SameEntry
<1> QED
  BY <1>2, <1>3

LEMMA ProceedKeeps ==
  ASSUME TypeOK, NoMixUp, NoLostWork, NEW h \in Handlers, running[h] # Nil, NEW e \in Resting,
         Proceed(h, e)
  PROVE  NoLostWork'
<1>1. close(e, running[h].msg.err) \in Resting
  BY TaskTypes, CloseType, RestingEntry
<1>2. close(e, running[h].msg.err).state \in EndStates
  BY StepSets DEF close, Entry, Resting
<1> QED
  BY <1>1, <1>2, EndKeeps, SendKeeps DEF Proceed

LEMMA ExecuteKeeps ==
  ASSUME TypeOK, NoMixUp, NoLostWork, NEW h \in Handlers, Execute(h)
  PROVE  NoLostWork'
<1> DEFINE e == heap[running[h].entry]
           msg == running[h].msg
<1>1. running[h] # Nil
  BY DEF Execute, ExecuteAdd, ExecuteDelete, RecurseDelete, ExecuteReply, Runs
<1>2. e \in Resting /\ msg \in Message /\ msg.err \in BOOLEAN
  BY <1>1, TaskTypes
<1>3. CASE ExecuteAdd(h)
  <2> DEFINE f == setState([e EXCEPT !.expected = Deployed], msg)
  <2>1. f \in Entry /\ setNextStep(f) \in Resting
    BY <1>2, EntryTypes, SetNextStepType, RestingEntry
  <2>2. Proceed(h, setNextStep(f))
    BY <1>2, <1>3, NeverIgnored
  <2> QED
    BY <1>1, <2>1, <2>2, ProceedKeeps
<1>4. CASE ExecuteDelete(h)
  <2>1. TurnBack(e) \in Resting /\ setNextStep(TurnBack(e)) \in Resting
    BY <1>2, TurnBackType, SetNextStepType, RestingEntry
  <2> QED
    BY <1>1, <1>4, <2>1, ProceedKeeps DEF ExecuteDelete
<1>5. CASE RecurseDelete(h)
  <2>1. TurnBack(e) \in Resting
    BY <1>2, TurnBackType
  <2>2. TurnBack(e).state = Undeployed
    <3>1. TurnBack(e).state \in StepIds
      BY <2>1 DEF Entry, Resting
    <3> QED
      BY <1>5, <3>1, NextStepExists DEF RecurseDelete
  <2> QED
    BY <1>1, <1>5, <2>1, <2>2, StepSets, EndKeeps DEF RecurseDelete
<1>6. CASE ExecuteReply(h)
  <2> DEFINE next == setNextStep(updateService(e, msg))
             failed == Failed(e)
  <2>1. next \in Resting /\ close(next, msg.err) \in Resting
    <3>1. updateService(e, msg) \in Entry
      BY <1>2, EntryTypes DEF Resting
    <3>2. next \in Resting
      BY <3>1, SetNextStepType, RestingEntry
    <3> QED
      BY <1>2, <3>2, CloseType, RestingEntry DEF Resting
  <2>2. close(next, msg.err).state \in EndStates
    BY <2>1, StepSets DEF close, Entry, Resting
  <2>3. failed \in Resting /\ ~failed.wip /\ failed.error
    BY <1>2, EntryTypes DEF Failed, Entry, Resting
  <2>4. CASE e.wip /\ msg.step # e.state /\ Finish(h, e)
    BY <1>1, <2>4, DropKeeps
  <2>5. CASE Finish(h, failed) \/ Finish(h, close(next, msg.err))
    BY <1>1, <2>1, <2>2, <2>3, <2>5, EndKeeps
  <2>6. CASE sendToExtension(h, next) \/ sendToExtension(h, e)
    BY <1>1, <1>2, <2>1, <2>6, SendKeeps
  <2> QED
    BY <1>6, <2>4, <2>5, <2>6 DEF ExecuteReply
<1> QED
  BY <1>3, <1>4, <1>5, <1>6 DEF Execute

\* A step of the channels: entries and handlers' tasks stay as they are.
LEMMA ChannelsKeep ==
  ASSUME NoLostWork, table' = table, heap' = heap, running' = running,
         \A s \in Services : table[s] # Nil /\ heap[table[s]].state \notin EndStates =>
           (OnItsWay(s, heap[table[s]].state) => OnItsWay(s, heap[table[s]].state)')
  PROVE  NoLostWork'
<1> SUFFICES ASSUME NEW s \in Services, table[s] # Nil PROVE WorkIsKept(s)'
  BY DEF NoLostWork
<1> QED
  BY DEF NoLostWork, WorkIsKept

\* A listener passes over an announcement only when the entry is at an end.
LEMMA CheckKeeps ==
  ASSUME TypeOK, NoLostWork, NEW x \in Extensions, Check(x)
  PROVE  NoLostWork'
<1> DEFINE msg == listener[x].msg
<1>1. listener[x] \in Jobs /\ msg.svc \in Services
  BY DEF Check, TypeOK, Jobs, Message
<1>2. PICK need \in serviceNeedUpdate(msg) :
        listener' = [listener EXCEPT ![x].at = IF need THEN "merge" ELSE "skip"]
  BY DEF Check
<1>3. \A y \in Extensions : y # x => listener'[y] = listener[y]
  BY <1>2 DEF TypeOK
<1>4. listener'[x] \in Jobs /\ listener'[x].msg = msg
  BY <1>1, <1>2 DEF TypeOK, Jobs
<1>5. need => listener'[x].at = "merge"
  BY <1>1, <1>2 DEF TypeOK, Jobs
<1>6. listener'[x] # Nil
  BY <1>4, NilAssumption
<1>7. ~need /\ table[msg.svc] # Nil => heap[table[msg.svc]].state \in EndStates
  BY StepSets DEF serviceNeedUpdate, isStateAsWanted
<1>8. ASSUME NEW s \in Services, table[s] # Nil, heap[table[s]].state \notin EndStates,
             OnItsWay(s, heap[table[s]].state)
      PROVE  OnItsWay(s, heap[table[s]].state)'
  <2>1. s = msg.svc => need
    BY <1>7, <1>8
  <2>2. \A y \in Extensions :
          listener[y] # Nil /\ listener[y].msg.svc = s /\ listener[y].at # "skip" =>
          listener'[y] # Nil /\ listener'[y].msg.svc = s /\ listener'[y].at # "skip"
    BY <1>3, <1>4, <1>5, <1>6, <2>1
  <2> QED
    BY <1>8, <2>2 DEF Check, OnItsWay
<1> QED
  BY <1>8, ChannelsKeep DEF Check

LEMMA ArrivalKeeps ==
  ASSUME TypeOK, NoLostWork, NEW x \in Extensions, NEW msg \in Message, Receive(x, msg),
         table' = table, heap' = heap, running' = running, sending' = sending,
         forwarding' = forwarding,
         \A q \in Provisioners : ext[q] # Nil =>
           \/ ext'[q] # Nil /\ ext'[q].svc = ext[q].svc
           \/ q = x /\ msg.svc = ext[q].svc
  PROVE  NoLostWork'
<1>1. \A y \in Extensions : listener[y] # Nil => listener'[y] = listener[y]
  BY DEF Receive, TypeOK
<1>2. listener'[x] # Nil /\ listener'[x].msg.svc = msg.svc /\ listener'[x].at = "check"
  <2>1. listener' \in [Extensions -> Jobs \cup {Nil}]
    BY ReceiveType
  <2>2. listener'[x] = [msg |-> [msg EXCEPT !.step = x], at |-> "check"]
    BY DEF Receive, TypeOK
  <2>3. [msg |-> [msg EXCEPT !.step = x], at |-> "check"] \in Jobs
    BY StepSets DEF Jobs, Message
  <2> QED
    BY <2>2, <2>3, NilAssumption DEF Message
<1>3. ASSUME NEW s \in Services, OnItsWay(s, heap[table[s]].state)
      PROVE  OnItsWay(s, heap[table[s]].state)'
  BY <1>1, <1>2, <1>3 DEF OnItsWay
<1> QED
  BY <1>3, ChannelsKeep

\* Requests: from the handler to the forwarder, to the extension.
LEMMA RequestsKeep ==
  ASSUME TypeOK, NoLostWork, Forward \/ \E h \in Handlers : TakeRequest(h)
  PROVE  NoLostWork'
<1>1. ASSUME NEW h \in Handlers, TakeRequest(h) PROVE NoLostWork'
  <2>1. \A g \in Handlers : g # h => sending'[g] = sending[g]
    BY <1>1 DEF TakeRequest, TypeOK
  <2>2. ASSUME NEW s \in Services, OnItsWay(s, heap[table[s]].state)
        PROVE  OnItsWay(s, heap[table[s]].state)'
    BY <1>1, <2>1, <2>2 DEF TakeRequest, OnItsWay
  <2> QED
    BY <1>1, <2>2, ChannelsKeep DEF TakeRequest
<1>2. CASE Forward
  <2>1. \A q \in Provisioners : ext[q] # Nil => ext'[q] = ext[q]
    BY <1>2 DEF Forward, TypeOK
  <2>2. forwarding.step \notin EndStates =>
          /\ forwarding.step \in Provisioners
          /\ ext'[forwarding.step] = forwarding
    BY <1>2 DEF Forward, TypeOK
  <2>3. ASSUME NEW s \in Services, heap[table[s]].state \notin EndStates,
               OnItsWay(s, heap[table[s]].state)
        PROVE  OnItsWay(s, heap[table[s]].state)'
    BY <1>2, <2>1, <2>2, <2>3 DEF Forward, OnItsWay
  <2> QED
    BY <1>2, <2>3, ChannelsKeep DEF Forward
<1> QED
  BY <1>1, <1>2

\* The listener turns a message into a task, of the entry in the table or of a
\* new one.
LEMMA MergeKeeps ==
  ASSUME TypeOK, NoMixUp, NoMixUp', NoLostWork, NEW x \in Extensions, Merge(x)
  PROVE  NoLostWork'
<1> DEFINE msg == listener[x].msg
<1>1. msg \in Message /\ msg.svc \in Services /\ msg.step = x
  BY DEF Merge, TypeOK, Jobs, Message, NoMixUp
<1>2. PICK c \in Entries, e \in Resting :
        /\ Spawn(x, c, e)
        /\ \/ table[msg.svc] # Nil /\ c = table[msg.svc] /\ e = heap[c]
           \/ table[msg.svc] = Nil /\ e = makeNewFlowEntry
  <2>1. table[msg.svc] # Nil => table[msg.svc] \in Entries /\ heap[table[msg.svc]] \in Resting
    BY <1>1 DEF TypeOK
  <2> QED
    BY <2>1, NewEntryType DEF Merge
<1>3. PICK g \in Handlers : ~Busy(g) /\ running' = [running EXCEPT ![g] = [entry |-> c, msg |-> msg]]
  BY <1>2 DEF Spawn
<1>4. \A h \in Handlers : running[h] # Nil => running'[h] = running[h]
  BY <1>3 DEF Busy, TypeOK
<1>5. /\ running'[g] = [entry |-> c, msg |-> msg]
      /\ [entry |-> c, msg |-> msg] # Nil
  <2>1. [entry |-> c, msg |-> msg] \in Tasks
    BY <1>1 DEF Tasks
  <2> QED
    BY <1>3, <2>1, NilAssumption DEF TypeOK
<1>6. /\ table' = [table EXCEPT ![msg.svc] = c]
      /\ heap' = [heap EXCEPT ![c] = updateService(e, msg)]
      /\ listener' = [listener EXCEPT ![x] = Nil]
      /\ sending' = sending /\ forwarding' = forwarding /\ ext' = ext
  BY <1>2 DEF Spawn
<1>7. updateService(e, msg).state = e.state /\ updateService(e, msg).wip = e.wip
      /\ updateService(e, msg).error = e.error
  BY DEF updateService, Entry, Resting
<1>8. heap'[c] = updateService(e, msg) /\ table'[msg.svc] = c
  BY <1>1, <1>6 DEF TypeOK
<1> SUFFICES ASSUME NEW s \in Services, table'[s] # Nil PROVE WorkIsKept(s)'
  BY DEF NoLostWork
<1>9. CASE s # msg.svc
  <2>1. table'[s] = table[s] /\ table[s] \in Entries /\ WorkIsKept(s)
    BY <1>1, <1>6, <1>9 DEF TypeOK, NoLostWork
  <2>2. table[s] # c
    BY <1>1, <1>8, <1>9, <2>1 DEF NoMixUp
  <2>3. heap'[table[s]] = heap[table[s]]
    BY <1>6, <2>1, <2>2 DEF TypeOK
  <2>4. \A y \in Extensions : listener[y] # Nil /\ listener[y].msg.svc = s => listener'[y] = listener[y]
    BY <1>6, <1>9 DEF TypeOK
  <2>5. ASSUME OnItsWay(s, heap[table[s]].state) PROVE OnItsWay(s, heap[table[s]].state)'
    <3> DEFINE q == heap[table[s]].state
    <3>1. q' = q /\ table'[s] = table[s]
      BY <2>1, <2>3
    <3>2. ASSUME NEW h \in Handlers,
                 sending[h] # Nil /\ sending[h].svc = s /\ sending[h].step = q
          PROVE  OnItsWay(s, q)'
      BY <1>6, <3>1, <3>2 DEF OnItsWay
    <3>3. ASSUME NEW h \in Handlers,
                 running[h] # Nil /\ running[h].entry = table[s] /\ running[h].msg.step = q
          PROVE  OnItsWay(s, q)'
      BY <1>4, <3>1, <3>3 DEF OnItsWay
    <3>4. CASE forwarding # Nil /\ forwarding.svc = s /\ forwarding.step = q
      BY <1>6, <3>1, <3>4 DEF OnItsWay
    <3>5. CASE q \in Provisioners /\ ext[q] # Nil /\ ext[q].svc = s
      BY <1>6, <3>1, <3>5 DEF OnItsWay
    <3>6. CASE q \in Extensions /\ listener[q] # Nil /\ listener[q].msg.svc = s
                 /\ listener[q].at # "skip"
      BY <2>4, <3>1, <3>6 DEF OnItsWay
    <3> QED
      BY <2>5, <3>2, <3>3, <3>4, <3>5, <3>6 DEF OnItsWay
  <2> QED
    BY <1>4, <2>1, <2>3, <2>5, SameEntry
<1>10. CASE s = msg.svc /\ table[s] = Nil
  <2>1. ~e.wip
    BY <1>2, <1>10, NewEntryIdle
  <2>2. heap'[table'[s]].wip = e.wip /\ table'[s] = c /\ running'[g] # Nil /\ running'[g].entry = c
    BY <1>5, <1>7, <1>8, <1>10
  <2> QED
    BY <2>1, <2>2 DEF WorkIsKept
<1>11. CASE s = msg.svc /\ table[s] # Nil
  <2>1. c = table[s] /\ e = heap[table[s]] /\ WorkIsKept(s) /\ table'[s] = table[s]
    BY <1>2, <1>8, <1>11 DEF NoLostWork
  <2>2. \A y \in Extensions : y # x => listener'[y] = listener[y]
    BY <1>6 DEF TypeOK
  <2>3. ASSUME OnItsWay(s, heap[table[s]].state) PROVE OnItsWay(s, heap[table[s]].state)'
    <3> DEFINE q == heap[table[s]].state
    <3>1. q' = q /\ table'[s] = table[s]
      BY <1>7, <1>8, <2>1
    <3>2. ASSUME NEW h \in Handlers,
                 sending[h] # Nil /\ sending[h].svc = s /\ sending[h].step = q
          PROVE  OnItsWay(s, q)'
      BY <1>6, <3>1, <3>2 DEF OnItsWay
    <3>3. ASSUME NEW h \in Handlers,
                 running[h] # Nil /\ running[h].entry = table[s] /\ running[h].msg.step = q
          PROVE  OnItsWay(s, q)'
      BY <1>4, <3>1, <3>3 DEF OnItsWay
    <3>4. CASE forwarding # Nil /\ forwarding.svc = s /\ forwarding.step = q
      BY <1>6, <3>1, <3>4 DEF OnItsWay
    <3>5. CASE q \in Provisioners /\ ext[q] # Nil /\ ext[q].svc = s
      BY <1>6, <3>1, <3>5 DEF OnItsWay
    <3>6. CASE q \in Extensions /\ listener[q] # Nil /\ listener[q].msg.svc = s
                 /\ listener[q].at # "skip"
      <4>1. CASE q = x
        <5>1. running'[g].entry = table'[s] /\ running'[g].msg.step = q
          BY <1>1, <1>5, <1>8, <1>11, <3>1, <4>1
        <5> QED
          BY <1>5, <3>1, <5>1 DEF OnItsWay
      <4>2. CASE q # x
        BY <2>2, <3>1, <3>6, <4>2 DEF OnItsWay
      <4> QED
        BY <4>1, <4>2
    <3> QED
      BY <2>3, <3>2, <3>3, <3>4, <3>5, <3>6 DEF OnItsWay
  <2> QED
    BY <1>4, <1>7, <1>8, <2>1, <2>3, SameEntry
<1> QED
  BY <1>9, <1>10, <1>11

LEMMA HousekeeperKeeps ==
  ASSUME TypeOK, NoMixUp, NoLostWork, NEW t \in Services, TimeOut(t) \/ Remove(t)
  PROVE  NoLostWork'
<1> SUFFICES ASSUME NEW s \in Services, table'[s] # Nil PROVE WorkIsKept(s)'
  BY DEF NoLostWork
<1>1. CASE TimeOut(t)
  <2>1. table[s] \in Entries /\ table[t] \in Entries /\ WorkIsKept(s) /\ table' = table
    BY <1>1 DEF TimeOut, TypeOK, NoLostWork
  <2>2. CASE table[s] = table[t]
    <3>1. heap'[table[s]] = close(heap[table[t]], TRUE)
      BY <1>1, <2>1, <2>2 DEF TimeOut, TypeOK
    <3>2. close(heap[table[t]], TRUE).state \in EndStates
      BY <2>1, StepSets DEF close, Entry, Resting, TypeOK
    <3> QED
      BY <2>1, <3>1, <3>2 DEF WorkIsKept
  <2>3. CASE table[s] # table[t]
    <3>1. heap'[table[s]] = heap[table[s]]
      BY <1>1, <2>1, <2>3 DEF TimeOut, TypeOK
    <3>2. OnItsWay(s, heap[table[s]].state) => OnItsWay(s, heap[table[s]].state)'
      BY <1>1, <2>1, <3>1 DEF TimeOut, OnItsWay
    <3> QED
      BY <1>1, <2>1, <3>1, <3>2, SameEntry DEF TimeOut
  <2> QED
    BY <2>2, <2>3
<1>2. CASE Remove(t)
  <2>1. table'[s] = table[s] /\ table[s] \in Entries /\ WorkIsKept(s)
    BY <1>2 DEF Remove, TypeOK, NoLostWork
  <2>2. Referenced(table[s])'
    BY <2>1 DEF Referenced
  <2>3. heap'[table[s]] = heap[table[s]]
    BY <1>2, <2>1, <2>2 DEF Remove, Collected
  <2>4. OnItsWay(s, heap[table[s]].state) => OnItsWay(s, heap[table[s]].state)'
    BY <1>2, <2>1, <2>3 DEF Remove, OnItsWay
  <2> QED
    BY <1>2, <2>1, <2>3, <2>4, SameEntry DEF Remove
<1> QED
  BY <1>1, <1>2

LEMMA StepKeeps ==
  TypeOK /\ NoMixUp /\ NoMixUp' /\ NoLostWork /\ [Next]_vars => NoLostWork'
<1> SUFFICES ASSUME TypeOK, NoMixUp, NoMixUp', NoLostWork, [Next]_vars PROVE NoLostWork'
  OBVIOUS
<1>1. CASE SomeProviderSends
  <2>1. PICK p \in ProviderSteps : \E msg \in ProviderMessages(p) : ProviderSend(p, msg)
    BY <1>1 DEF SomeProviderSends
  <2> PICK msg \in ProviderMessages(p) : ProviderSend(p, msg)
    BY <2>1
  <2>2. p \in Extensions /\ msg \in Message
    BY StepSets, ProviderMessagesType
  <2> QED
    BY <2>2, ArrivalKeeps DEF ProviderSend
<1>2. ASSUME NEW x \in Extensions, Skip(x) PROVE NoLostWork'
  <2>1. \A y \in Extensions : listener[y] # Nil /\ listener[y].at # "skip" => listener'[y] = listener[y]
    BY <1>2 DEF Skip, TypeOK
  <2>2. ASSUME NEW s \in Services, OnItsWay(s, heap[table[s]].state)
        PROVE  OnItsWay(s, heap[table[s]].state)'
    BY <1>2, <2>1, <2>2 DEF Skip, OnItsWay
  <2> QED
    BY <1>2, <2>2, ChannelsKeep DEF Skip
<1>3. ASSUME NEW q \in Provisioners, Reply(q) \/ ReplyAliasError(q) PROVE NoLostWork'
  <2>1. PICK msg \in Message : Receive(q, msg) /\ msg.svc = ext[q].svc
    BY <1>3, ReplyMessage
  <2>2. \A r \in Provisioners : r # q => ext'[r] = ext[r]
    BY <1>3 DEF Reply, ReplyAliasError, TypeOK
  <2>3. q \in Extensions
    BY StepSets
  <2> QED
    BY <1>3, <2>1, <2>2, <2>3, ArrivalKeeps DEF Reply, ReplyAliasError
<1>4. CASE UNCHANGED vars
  BY <1>4, ChannelsKeep DEF vars, OnItsWay
<1> QED
  BY <1>1, <1>2, <1>3, <1>4, CheckKeeps, MergeKeeps, ExecuteKeeps, RequestsKeep, HousekeeperKeeps DEF Next

\* Work on a service is never lost: an entry short of its end is in error, or a
\* handler is about to run for it, or the request of its step or the answer to
\* it still exists, for every workflow and any number of services and
\* goroutines (sendToExtension, provisionerState and mergeMessage of core/).
THEOREM WorkIsNeverLost == Spec => []NoLostWork
<1>1. Init => NoLostWork
  BY DEF Init, NoLostWork
<1>2. TypeOK /\ NoMixUp /\ NoMixUp' /\ NoLostWork /\ [Next]_vars => NoLostWork'
  BY StepKeeps
<1> QED
  BY <1>1, <1>2, TypeCorrect, Unmixed, PTL DEF Spec

-----------------------------------------------------------------------------
(* Counting the messages. *)

Working == {h \in Handlers : Busy(h)}
Hearing == {x \in Extensions : listener[x] # Nil}
Occupied == {q \in Provisioners : ext[q] # Nil}
Held == IF forwarding = Nil THEN 0 ELSE 1

LEMMA FiniteParts ==
  ASSUME IsFiniteSet(Handlers)
  PROVE  IsFiniteSet(Working) /\ IsFiniteSet(Hearing) /\ IsFiniteSet(Occupied)
<1>1. IsFiniteSet(Extensions)
  BY StepsAssumption, FS_Interval DEF Extensions
<1>2. Working \subseteq Handlers /\ Hearing \subseteq Extensions /\ Occupied \subseteq Extensions
  BY StepSets DEF Working, Hearing, Occupied
<1> QED
  BY <1>1, <1>2, FS_Subset

LEMMA InFlightParts ==
  ASSUME IsFiniteSet(Handlers)
  PROVE  /\ InFlight = Cardinality(Working) + Cardinality(Hearing) + Cardinality(Occupied) + Held
         /\ Cardinality(Working) \in Nat /\ Cardinality(Hearing) \in Nat
         /\ Cardinality(Occupied) \in Nat /\ Held \in {0, 1}
<1>1. InFlight = Cardinality(Working) + Cardinality(Hearing) + Cardinality(Occupied) + Held
  BY DEF InFlight, Working, Hearing, Occupied, Held
<1> QED
  BY <1>1, FiniteParts, FS_CardinalityType DEF Held

\* When no message is counted nobody holds one.
LEMMA NothingInFlight ==
  ASSUME IsFiniteSet(Handlers), InFlight = 0
  PROVE  /\ \A h \in Handlers : running[h] = Nil /\ sending[h] = Nil
         /\ \A x \in Extensions : listener[x] = Nil
         /\ \A q \in Provisioners : ext[q] = Nil
         /\ forwarding = Nil
<1>1. Cardinality(Working) = 0 /\ Cardinality(Hearing) = 0 /\ Cardinality(Occupied) = 0 /\ Held = 0
  BY InFlightParts
<1>2. Working = {} /\ Hearing = {} /\ Occupied = {}
  BY <1>1, FiniteParts, FS_EmptySet
<1> QED
  BY <1>1, <1>2 DEF Working, Hearing, Occupied, Held, Busy

\* A set that gains or loses an element, at most or at least.
LEMMA NoneMore ==
  ASSUME NEW S, IsFiniteSet(S), NEW T, T \subseteq S
  PROVE  Cardinality(T) \in Nat /\ Cardinality(S) \in Nat /\ Cardinality(T) <= Cardinality(S)
BY FS_Subset, FS_CardinalityType

LEMMA OneMore ==
  ASSUME NEW S, IsFiniteSet(S), NEW x, NEW T, T \subseteq S \cup {x}
  PROVE  Cardinality(T) \in Nat /\ Cardinality(S) \in Nat /\ Cardinality(T) <= Cardinality(S) + 1
<1>1. /\ IsFiniteSet(S \cup {x})
      /\ Cardinality(S \cup {x}) = IF x \in S THEN Cardinality(S) ELSE Cardinality(S) + 1
  BY FS_AddElement
<1>2. Cardinality(S) \in Nat
  BY FS_CardinalityType
<1>3. Cardinality(T) \in Nat /\ Cardinality(T) <= Cardinality(S \cup {x})
  BY <1>1, NoneMore
<1> QED
  BY <1>1, <1>2, <1>3

LEMMA OneLess ==
  ASSUME NEW S, IsFiniteSet(S), NEW x \in S, NEW T, T \subseteq S \ {x}
  PROVE  Cardinality(T) \in Nat /\ Cardinality(S) \in Nat /\ Cardinality(T) <= Cardinality(S) - 1
<1>1. IsFiniteSet(S \ {x}) /\ Cardinality(S \ {x}) = Cardinality(S) - 1
  BY FS_RemoveElement
<1>2. Cardinality(S) \in Nat
  BY FS_CardinalityType
<1>3. Cardinality(T) \in Nat /\ Cardinality(T) <= Cardinality(S \ {x})
  BY <1>1, NoneMore
<1> QED
  BY <1>1, <1>2, <1>3

\* No part grows.
LEMMA NoneTaken ==
  ASSUME IsFiniteSet(Handlers), Working' \subseteq Working, Hearing' \subseteq Hearing,
         Occupied' \subseteq Occupied, forwarding' = forwarding
  PROVE  ~(InFlight' > InFlight)
<1>1. /\ Cardinality(Working') \in Nat /\ Cardinality(Working') <= Cardinality(Working)
      /\ Cardinality(Hearing') \in Nat /\ Cardinality(Hearing') <= Cardinality(Hearing)
      /\ Cardinality(Occupied') \in Nat /\ Cardinality(Occupied') <= Cardinality(Occupied)
  BY FiniteParts, NoneMore
<1>2. Held' = Held
  BY DEF Held
<1>3. InFlight' = Cardinality(Working') + Cardinality(Hearing') + Cardinality(Occupied') + Held'
  BY DEF InFlight, Working, Hearing, Occupied, Held
<1> QED
  BY <1>1, <1>2, <1>3, InFlightParts

\* A handler is given what a listener held.
LEMMA MergeTakes ==
  ASSUME IsFiniteSet(Handlers), TypeOK, NEW x \in Extensions, Merge(x)
  PROVE  ~(InFlight' > InFlight)
<1>1. PICK c, e : Spawn(x, c, e)
  BY DEF Merge
<1>2. PICK h \in Handlers : running' = [running EXCEPT ![h] = [entry |-> c, msg |-> listener[x].msg]]
  BY <1>1 DEF Spawn
<1>3. listener' = [listener EXCEPT ![x] = Nil] /\ listener[x] # Nil
      /\ UNCHANGED <<sending, forwarding, ext>>
  BY <1>1 DEF Spawn, Merge
<1>4. Working' \subseteq Working \cup {h}
  BY <1>2, <1>3 DEF Working, Busy, TypeOK
<1>5. x \in Hearing /\ Hearing' \subseteq Hearing \ {x}
  BY <1>3 DEF Hearing, TypeOK
<1>6. Cardinality(Working') \in Nat /\ Cardinality(Working') <= Cardinality(Working) + 1
  BY <1>4, FiniteParts, OneMore
<1>7. Cardinality(Hearing') \in Nat /\ Cardinality(Hearing') <= Cardinality(Hearing) - 1
  BY <1>5, FiniteParts, OneLess
<1>8. InFlight' = Cardinality(Working') + Cardinality(Hearing') + Cardinality(Occupied) + Held
  BY <1>3 DEF InFlight, Working, Hearing, Occupied, Held
<1> QED
  BY <1>6, <1>7, <1>8, InFlightParts

\* The sender takes the request of a handler, which has nothing else.
LEMMA RequestTaken ==
  ASSUME IsFiniteSet(Handlers), TypeOK, NoMixUp, NEW h \in Handlers, TakeRequest(h)
  PROVE  ~(InFlight' > InFlight)
<1>1. /\ sending[h] # Nil /\ running[h] = Nil /\ forwarding = Nil
      /\ sending' = [sending EXCEPT ![h] = Nil]
      /\ UNCHANGED <<running, listener, ext>>
  BY DEF TakeRequest, NoMixUp
<1>2. h \in Working /\ Working' \subseteq Working \ {h}
  BY <1>1 DEF Working, Busy, TypeOK
<1>3. Cardinality(Working') \in Nat /\ Cardinality(Working') <= Cardinality(Working) - 1
  BY <1>2, FiniteParts, OneLess
<1>4. Held = 0 /\ Held' \in {0, 1}
  BY <1>1 DEF Held
<1>5. InFlight' = Cardinality(Working') + Cardinality(Hearing) + Cardinality(Occupied) + Held'
  BY <1>1 DEF InFlight, Working, Hearing, Occupied, Held
<1> QED
  BY <1>3, <1>4, <1>5, InFlightParts

LEMMA RequestForwarded ==
  ASSUME IsFiniteSet(Handlers), TypeOK, Forward
  PROVE  ~(InFlight' > InFlight)
<1>1. forwarding # Nil /\ forwarding' = Nil /\ UNCHANGED <<running, sending, listener>>
  BY DEF Forward
<1>2. Occupied' \subseteq Occupied \cup {forwarding.step}
  BY DEF Forward, Occupied, TypeOK
<1>3. Cardinality(Occupied') \in Nat /\ Cardinality(Occupied') <= Cardinality(Occupied) + 1
  BY <1>2, FiniteParts, OneMore
<1>4. Held = 1 /\ Held' = 0
  BY <1>1 DEF Held
<1>5. InFlight' = Cardinality(Working) + Cardinality(Hearing) + Cardinality(Occupied') + Held'
  BY <1>1 DEF InFlight, Working, Hearing, Occupied, Held, Busy
<1> QED
  BY <1>3, <1>4, <1>5, InFlightParts

\* An extension that answers is idle again.
LEMMA Answers ==
  ASSUME IsFiniteSet(Handlers), TypeOK, NEW q \in Provisioners, Reply(q)
  PROVE  ~(InFlight' > InFlight)
<1>1. /\ ext[q] # Nil /\ ext' = [ext EXCEPT ![q] = Nil]
      /\ \E m : listener' = [listener EXCEPT ![q] = m]
      /\ UNCHANGED <<running, sending, forwarding>>
  BY DEF Reply, Receive
<1>2. q \in Occupied /\ Occupied' \subseteq Occupied \ {q}
  BY <1>1 DEF Occupied, TypeOK
<1>3. Hearing' \subseteq Hearing \cup {q}
  BY <1>1 DEF Hearing, TypeOK
<1>4. Cardinality(Occupied') \in Nat /\ Cardinality(Occupied') <= Cardinality(Occupied) - 1
  BY <1>2, FiniteParts, OneLess
<1>5. Cardinality(Hearing') \in Nat /\ Cardinality(Hearing') <= Cardinality(Hearing) + 1
  BY <1>3, FiniteParts, OneMore
<1>6. InFlight' = Cardinality(Working) + Cardinality(Hearing') + Cardinality(Occupied') + Held
  BY <1>1 DEF InFlight, Working, Hearing, Occupied, Held, Busy
<1> QED
  BY <1>4, <1>5, <1>6, InFlightParts

LEMMA StepTakes ==
  ASSUME IsFiniteSet(Handlers), TypeOK, NoMixUp, [Next]_vars, ~SomeProviderSends, ~SomeAliasFails
  PROVE  ~(InFlight' > InFlight)
<1>1. ASSUME NEW x \in Extensions, Check(x) \/ Skip(x) PROVE ~(InFlight' > InFlight)
  <2>1. UNCHANGED <<running, sending, forwarding, ext>>
        /\ \E m : listener' = [listener EXCEPT ![x] = m]
    BY <1>1 DEF Check, Skip
  <2>2. listener[x] # Nil
    BY <1>1 DEF Check, Skip
  <2>3. Hearing' \subseteq Hearing
    BY <2>1, <2>2 DEF Hearing, TypeOK
  <2> QED
    BY <2>1, <2>3, NoneTaken DEF Working, Occupied, Busy
<1>2. ASSUME NEW h \in Handlers, Execute(h) PROVE ~(InFlight' > InFlight)
  <2>1. /\ running[h] # Nil /\ UNCHANGED <<listener, forwarding, ext>>
        /\ running' = [running EXCEPT ![h] = Nil]
        /\ sending' = sending \/ \E m : sending' = [sending EXCEPT ![h] = m]
    BY <1>2 DEF Execute, ExecuteAdd, ExecuteDelete, RecurseDelete, ExecuteReply, Proceed, Runs,
                Finish, sendToExtension
  <2>2. Working' \subseteq Working
    BY <2>1 DEF Working, Busy, TypeOK
  <2> QED
    BY <2>1, <2>2, NoneTaken DEF Hearing, Occupied
<1>3. ASSUME NEW s \in Services, TimeOut(s) \/ Remove(s) PROVE ~(InFlight' > InFlight)
  BY <1>3, NoneTaken DEF TimeOut, Remove, Working, Hearing, Occupied, Busy
<1>4. UNCHANGED vars => ~(InFlight' > InFlight)
  BY NoneTaken DEF vars, Working, Hearing, Occupied, Busy
<1> QED
  BY <1>1, <1>2, <1>3, <1>4, MergeTakes, RequestTaken, RequestForwarded, Answers
     DEF Next, SomeAliasFails

\* However many handlers there are, every message is answered with at most one: a step
\* that adds to those in flight is a provider's word or the error of an alias
\* (mergeMessage, sendToExtension and messageSender pass one message on for one).
THEOREM AnsweredOnce ==
  ASSUME IsFiniteSet(Handlers)
  PROVE  Spec => NoAmplification
<1>1. TypeOK /\ NoMixUp /\ [Next]_vars
        => [InFlight' > InFlight => SomeProviderSends \/ SomeAliasFails]_vars
  BY StepTakes
<1> QED
  BY <1>1, TypeCorrect, Unmixed, PTL DEF Spec, NoAmplification

-----------------------------------------------------------------------------
(* The engine seen from outside: its entries and the phases of a service. *)

\* What ClosedAsExpected says of an entry.
Sound(e) == /\ e.closed <=> e.state \in EndStates
            /\ e.closed => e.state = e.expected

\* Of every entry, those the table has dropped included: a goroutine may still
\* work on one.
AllSound == ~crashed => \A c \in Entries : Sound(heap[c])

\* An entry may go from phase a to phase b.
Moves(a, b) ==
  \/ b = a \/ b = "deploying"
  \/ a = "deploying" /\ b \in {"deployed", "undeploying", "undeployed"}
  \/ a = "deployed" /\ b = "undeploying"
  \/ a = "undeploying" /\ b = "undeployed"

-----------------------------------------------------------------------------
(* Steps. *)

LEMMA StepOrder ==
  /\ Undeployed # Deployed
  /\ StepIds \ (ProviderSteps \cup EndStates) = Provisioners
  /\ \A i \in Extensions : i > Undeployed /\ i < Deployed
  /\ \A i \in StepIds : i >= Undeployed /\ i <= Deployed
  /\ StepIds \subseteq Int
<1>1. NSteps \in Nat /\ NSteps > 0 /\ ProviderSteps \subseteq 1..NSteps
  BY StepsAssumption
<1> QED
  BY <1>1, SMT DEF Extensions, StepIds, Provisioners, EndStates, Undeployed, Deployed

LEMMA SomeProvisioner ==
  ASSUME EndsWithProvisioner
  PROVE  \E q \in Provisioners : TRUE
<1>1. 1 \in Extensions
  BY StepsAssumption, SMT DEF Extensions
<1>2. CASE 1 \in ProviderSteps
  BY <1>2 DEF EndsWithProvisioner
<1>3. CASE 1 \notin ProviderSteps
  BY <1>1, <1>3 DEF Provisioners
<1> QED
  BY <1>2, <1>3

\* With a provisioner ahead, the next step is a provisioner.
LEMMA ProvisionerAhead ==
  ASSUME NEW i \in StepIds, NEW r \in BOOLEAN, NEW q \in Provisioners,
         r => q < i, ~r => i < q
  PROVE  HasNextStep(i, r) /\ getNextStep(i, r) \in Provisioners
<1>1. q \in StepsAhead(i, r)
  <2>1. q \in StepIds \ ProviderSteps /\ q \in Int /\ i \in Int
    BY StepSets, StepOrder DEF Provisioners
  <2> QED
    BY <2>1 DEF StepsAhead
<1>2. HasNextStep(i, r)
  BY <1>1 DEF HasNextStep
<1> DEFINE n == getNextStep(i, r)
<1>3. n \in StepIds \ ProviderSteps /\ (r => n < i /\ q <= n) /\ (~r => n > i /\ n <= q)
  BY <1>1, <1>2, NextStepIsAhead, NextStepIsNearest
<1>4. q \in Extensions /\ q > Undeployed /\ q < Deployed
  BY StepSets, StepOrder
<1>5. n \in Int /\ i \in Int /\ q \in Int /\ Undeployed \in Int /\ Deployed \in Int
      /\ i >= Undeployed /\ i <= Deployed
  BY <1>3, <1>4, StepOrder, StepSets
<1>6. n # Undeployed /\ n # Deployed
  BY <1>3, <1>4, <1>5
<1> QED
  BY <1>2, <1>3, <1>6, StepOrder DEF EndStates

LEMMA BetweenEnds ==
  ASSUME NEW n \in StepIds, NEW i \in StepIds, n < i
  PROVE  n # Deployed /\ i # Undeployed
<1>1. n \in Int /\ i \in Int /\ n >= Undeployed /\ i <= Deployed
  BY StepOrder
<1>2. Undeployed \in Int /\ Deployed \in Int
  BY StepOrder, StepSets
<1> QED
  BY <1>1, <1>2

\* Undeployment: whatever is not undeployed has a step behind it, and a deployed
\* service goes back to a provisioner first.
LEMMA StepBehind ==
  ASSUME EndsWithProvisioner, NEW i \in StepIds, HasNextStep(i, TRUE)
  PROVE  /\ i # Undeployed
         /\ getNextStep(i, TRUE) \in Provisioners \cup {Undeployed}
         /\ i = Deployed => getNextStep(i, TRUE) \in Provisioners
<1> DEFINE n == getNextStep(i, TRUE)
<1>1. n \in StepIds \ ProviderSteps /\ n < i
  BY NextStepIsAhead
<1>2. n # Deployed /\ i # Undeployed
  BY <1>1, BetweenEnds
<1>3. ASSUME i = Deployed PROVE n \in Provisioners
  <2>1. PICK q \in Provisioners : TRUE
    BY SomeProvisioner
  <2>2. q < i
    BY <1>3, StepOrder, StepSets
  <2> QED
    BY <2>2, ProvisionerAhead
<1> QED
  BY <1>1, <1>2, <1>3, StepOrder DEF EndStates

-----------------------------------------------------------------------------
(* Entries. *)

LEMMA Phases ==
  ASSUME NEW e
  PROVE  /\ e.state = Deployed => phaseOf(e) = "deployed"
         /\ e.state = Undeployed => phaseOf(e) = "undeployed"
         /\ e.state \notin EndStates /\ ~isReverse(e) => phaseOf(e) = "deploying"
         /\ e.state \notin EndStates /\ isReverse(e) => phaseOf(e) = "undeploying"
<1>1. Undeployed # Deployed /\ EndStates = {Undeployed, Deployed}
  BY StepOrder DEF EndStates
<1>2. CASE e.state = Deployed
  BY <1>1, <1>2 DEF phaseOf
<1>3. CASE e.state = Undeployed
  BY <1>1, <1>3 DEF phaseOf
<1>4. CASE e.state \notin EndStates /\ ~isReverse(e)
  BY <1>1, <1>4 DEF phaseOf
<1>5. CASE e.state \notin EndStates /\ isReverse(e)
  BY <1>1, <1>5 DEF phaseOf
<1> QED
  BY <1>1, <1>2, <1>3, <1>4, <1>5

\* What setNextStep changes.
LEMMA NextEntry ==
  ASSUME NEW e \in Entry, HasNextStep(e.state, isReverse(e))
  PROVE  /\ setNextStep(e).state = getNextStep(e.state, isReverse(e))
         /\ setNextStep(e).expected = e.expected
         /\ setNextStep(e).closed = FALSE
BY DEF setNextStep, Entry

LEMMA NewEntrySound ==
  ASSUME EndsWithProvisioner
  PROVE  /\ Sound(makeNewFlowEntry)
          /\ phaseOf(makeNewFlowEntry) = "deploying"
<1> DEFINE e == [state |-> Undeployed, expected |-> Deployed, wip |-> FALSE,
                 error |-> FALSE, closed |-> FALSE, def |-> NoDef]
<1>1. e \in Entry /\ e.state = Undeployed /\ e.expected = Deployed /\ isReverse(e) = FALSE
  BY StepSets DEF Entry, isReverse
<1>2. PICK q \in Provisioners : TRUE
  BY SomeProvisioner
<1>3. Undeployed \in StepIds /\ Undeployed < q
  BY StepSets, StepOrder
<1>4. HasNextStep(Undeployed, FALSE) /\ getNextStep(Undeployed, FALSE) \in Provisioners
  BY <1>3, ProvisionerAhead
<1>5. /\ makeNewFlowEntry.state \in Provisioners
      /\ makeNewFlowEntry.expected = Deployed
      /\ makeNewFlowEntry.closed = FALSE
  BY <1>1, <1>4, NextEntry DEF makeNewFlowEntry
<1>6. makeNewFlowEntry.state \notin EndStates
  BY <1>5, StepSets
<1> QED
  BY <1>5, <1>6, Phases, StepOrder DEF Sound, isReverse

\* close leaves an entry where it was meant to go.
LEMMA CloseSound ==
  ASSUME NEW e \in Entry, NEW err
  PROVE  /\ Sound(close(e, err))
         /\ phaseOf(close(e, err)) = IF isReverse(e) THEN "undeployed" ELSE "deployed"
<1> DEFINE f == close(e, err)
<1>1. /\ f.state = IF isReverse(e) THEN Undeployed ELSE Deployed
      /\ f.expected = e.expected /\ f.closed = TRUE
  BY DEF close, Entry
<1>2. e.expected \in {Undeployed, Deployed}
  BY DEF Entry, EndStates
<1> QED
  BY <1>1, <1>2, Phases, StepSets DEF Sound, isReverse

\* An entry that agrees with another in what the lifecycle looks at.
LEMMA SameSound ==
  ASSUME NEW e, NEW f, f.state = e.state, f.expected = e.expected, f.closed = e.closed
  PROVE  phaseOf(f) = phaseOf(e) /\ (Sound(e) => Sound(f))
BY DEF phaseOf, Sound, isReverse

\* An entry that is on its way.
LEMMA UnderWay ==
  ASSUME NEW e, e.state \in Provisioners, e.closed = FALSE
  PROVE  /\ Sound(e)
         /\ ~isReverse(e) => phaseOf(e) = "deploying"
         /\ isReverse(e) => phaseOf(e) = "undeploying"
BY StepSets, Phases DEF Sound

\* One more mark on an entry changes nothing of this.
LEMMA MarkedSound ==
  ASSUME NEW e \in Entry, NEW b \in BOOLEAN
  PROVE  /\ phaseOf([e EXCEPT !.wip = b]) = phaseOf(e)
         /\ phaseOf(Failed(e)) = phaseOf(e)
         /\ Sound(e) => Sound([e EXCEPT !.wip = b]) /\ Sound(Failed(e))
<1>1. /\ [e EXCEPT !.wip = b].state = e.state
      /\ [e EXCEPT !.wip = b].expected = e.expected
      /\ [e EXCEPT !.wip = b].closed = e.closed
  BY DEF Entry
<1>2. Failed(e).state = e.state /\ Failed(e).expected = e.expected /\ Failed(e).closed = e.closed
  BY DEF Entry, Failed
<1> QED
  BY <1>1, <1>2, SameSound

LEMMA UpdatedSound ==
  ASSUME NEW e \in Entry, NEW msg
  PROVE  LET u == updateService(e, msg)
         IN  /\ u.state = e.state /\ u.expected = e.expected /\ u.closed = e.closed
             /\ phaseOf(u) = phaseOf(e) /\ (Sound(e) => Sound(u))
<1>1. LET u == updateService(e, msg)
      IN  u.state = e.state /\ u.expected = e.expected /\ u.closed = e.closed
  BY DEF updateService, Entry
<1> QED
  BY <1>1, SameSound

\* Where a resting entry is.
LEMMA RestingPlace ==
  ASSUME NEW e \in Resting
  PROVE  /\ e \in Entry /\ e.state \in StepIds
         /\ e.state \in Provisioners \cup EndStates
         /\ e.expected \in EndStates
BY StepOrder DEF Resting, Entry

-----------------------------------------------------------------------------
(* What a handler does to its entry. *)

Leaves(h, f) ==
  table' = table /\ heap' = Collected([heap EXCEPT ![running[h].entry] = f])

\* Handler h leaves its entry sound, unless the process dies, and where the
\* lifecycle may take it.
LeavesWell(h) ==
  \E f \in Resting : /\ Leaves(h, f)
                     /\ ~crashed' => Sound(f)
                     /\ Moves(phaseOf(heap[running[h].entry]), phaseOf(f))

LEMMA FinishLeaves ==
  ASSUME NEW h, NEW f \in Resting, Finish(h, f), ~crashed' => Sound(f),
         Moves(phaseOf(heap[running[h].entry]), phaseOf(f))
  PROVE  LeavesWell(h)
BY DEF Finish, Leaves, LeavesWell

LEMMA SendLeaves ==
  ASSUME NEW h, NEW f \in Resting, sendToExtension(h, f), Sound(f),
         Moves(phaseOf(heap[running[h].entry]), phaseOf(f))
  PROVE  LeavesWell(h)
<1> DEFINE g == [f EXCEPT !.wip = TRUE]
<1>1. Leaves(h, g)
  BY DEF sendToExtension, Leaves
<1>2. g \in Resting
  BY DEF Resting, Entry
<1>3. phaseOf(g) = phaseOf(f) /\ Sound(g)
  BY MarkedSound, RestingEntry
<1> HIDE DEF g
<1> QED
  BY <1>1, <1>2, <1>3 DEF LeavesWell

LEMMA AddLeaves ==
  ASSUME EndsWithProvisioner, TypeOK, NEW h \in Handlers, ExecuteAdd(h)
  PROVE  LeavesWell(h)
<1> DEFINE e == heap[running[h].entry]
           msg == running[h].msg
           f == setState([e EXCEPT !.expected = Deployed], msg)
           next == setNextStep(f)
<1>1. running[h] # Nil /\ msg.step \in ProviderSteps
  BY DEF ExecuteAdd, Runs
<1>2. e \in Resting /\ msg \in Message
  BY <1>1, TaskTypes
<1>3. f \in Entry /\ f.state = msg.step /\ f.expected = Deployed
  <2>1. f \in Entry
    BY <1>2, EntryTypes
  <2> QED
    BY <1>2, <2>1 DEF setState, Entry, Resting
<1>4. isReverse(f) = FALSE
  BY <1>3, StepSets DEF isReverse
<1>5. PICK q \in Provisioners : msg.step < q
  BY <1>1 DEF EndsWithProvisioner
<1>6. msg.step \in StepIds
  BY <1>1, StepSets
<1>7. HasNextStep(msg.step, FALSE) /\ getNextStep(msg.step, FALSE) \in Provisioners
  BY <1>5, <1>6, ProvisionerAhead
<1>8. next.state \in Provisioners /\ next.expected = Deployed /\ next.closed = FALSE
  BY <1>3, <1>4, <1>7, NextEntry
<1>9. next \in Resting
  BY <1>3, SetNextStepType
<1>10. Proceed(h, next)
  BY <1>2, NeverIgnored
<1> HIDE DEF next
<1>11. sendToExtension(h, next)
  <2>1. next.state \notin EndStates
    BY <1>8, StepSets
  <2> QED
    BY <1>10, <2>1 DEF Proceed
<1>12. Sound(next) /\ phaseOf(next) = "deploying"
  BY <1>8, UnderWay, StepSets DEF isReverse
<1> QED
  BY <1>9, <1>11, <1>12, SendLeaves DEF Moves

\* A delete leaves an entry at an end there, before it goes back.
LEMMA TurnBackAtEnd ==
  ASSUME EndsWithProvisioner, NEW e \in Resting, Sound(e), e.state \in EndStates
  PROVE  TurnBack(e).state = e.state
<1>1. e \in Entry /\ e.state \in StepIds /\ e.expected = e.state
  BY RestingPlace DEF Sound
<1>2. ~HasNextStep(e.state, isReverse(e))
  <2>1. CASE e.state = Undeployed
    <3>1. isReverse(e) = TRUE
      BY <1>1, <2>1 DEF isReverse
    <3> QED
      BY <1>1, <2>1, <3>1, StepBehind
  <2>2. CASE e.state = Deployed
    <3>1. isReverse(e) = FALSE
      BY <1>1, <2>2, StepSets DEF isReverse
    <3>2. ASSUME HasNextStep(Deployed, FALSE) PROVE FALSE
      <4> DEFINE n == getNextStep(Deployed, FALSE)
      <4>1. n \in StepIds /\ n > Deployed
        BY <1>1, <2>2, <3>2, NextStepIsAhead
      <4>2. n <= Deployed /\ n \in Int /\ Deployed \in Int
        BY <4>1, StepOrder, StepSets
      <4> HIDE DEF n
      <4> QED
        BY <4>1, <4>2
    <3> QED
      BY <2>2, <3>1, <3>2
  <2> QED
    BY <2>1, <2>2 DEF EndStates
<1>3. setNextStep(e) = e
  BY <1>2 DEF setNextStep
<1> QED
  BY <1>1, <1>3 DEF TurnBack, Entry

LEMMA DeleteLeaves ==
  ASSUME EndsWithProvisioner,
         TypeOK, NEW h \in Handlers, ExecuteDelete(h) \/ RecurseDelete(h),
         Sound(heap[running[h].entry])
  PROVE  LeavesWell(h)
<1> DEFINE e == heap[running[h].entry]
           turned == TurnBack(e)
           next == setNextStep(turned)
<1>1. running[h] # Nil
  BY DEF ExecuteDelete, RecurseDelete, Runs
<1>2. e \in Resting /\ running[h].msg.err \in BOOLEAN
  BY <1>1, TaskTypes
<1>3. turned \in Resting /\ turned \in Entry /\ turned.state \in StepIds
  BY <1>2, TurnBackType, RestingPlace
<1>4. turned.expected = Undeployed /\ isReverse(turned) = TRUE
  <2>1. setNextStep(e) \in Entry
    BY <1>2, SetNextStepType, RestingEntry
  <2>2. turned.expected = Undeployed
    BY <1>2, <2>1 DEF TurnBack, Entry, Resting
  <2> QED
    BY <2>2 DEF isReverse
<1>5. e.state \in EndStates => turned.state = e.state
  BY <1>2, TurnBackAtEnd
<1>6. phaseOf(e) \in {"deployed", "undeployed", "deploying", "undeploying"}
  BY <1>2, RestingPlace, Phases DEF EndStates
<1>7. phaseOf(e) = "deployed" => e.state = Deployed
  BY <1>2, RestingPlace, Phases, StepSets DEF EndStates
<1>8. phaseOf(e) = "undeployed" => e.state = Undeployed
  BY <1>2, RestingPlace, Phases, StepSets DEF EndStates
<1>9. CASE ExecuteDelete(h)
  <2>1. HasNextStep(turned.state, TRUE) /\ Proceed(h, next)
    BY <1>9 DEF ExecuteDelete
  <2>2. /\ turned.state # Undeployed
        /\ getNextStep(turned.state, TRUE) \in Provisioners \cup {Undeployed}
        /\ turned.state = Deployed => getNextStep(turned.state, TRUE) \in Provisioners
    BY <1>3, <2>1, StepBehind
  <2>3. /\ next.state = getNextStep(turned.state, TRUE)
        /\ next.expected = Undeployed /\ next.closed = FALSE
    BY <1>3, <1>4, <2>1, NextEntry
  <2>4. next \in Resting /\ next \in Entry
    BY <1>3, SetNextStepType, RestingEntry
  <2>5. isReverse(next) = TRUE
    BY <2>3 DEF isReverse
  <2>6. phaseOf(e) # "undeployed"
    BY <1>5, <1>8, <2>2, StepSets
  <2> HIDE DEF next, turned
  <2>7. CASE next.state = Undeployed
    <3> DEFINE f == close(next, running[h].msg.err)
    <3>1. Finish(h, f)
      BY <2>1, <2>7, StepSets DEF Proceed
    <3>2. f \in Resting /\ Sound(f) /\ phaseOf(f) = "undeployed"
      BY <1>2, <2>4, <2>5, CloseType, CloseSound
    <3>3. phaseOf(e) # "deployed"
      BY <1>5, <1>7, <2>2, <2>3, <2>7, StepSets
    <3> HIDE DEF f
    <3> QED
      BY <1>6, <2>6, <3>1, <3>2, <3>3, FinishLeaves DEF Moves
  <2>8. CASE next.state \in Provisioners
    <3>1. next.state \notin EndStates
      BY <2>8, StepSets
    <3>2. sendToExtension(h, next)
      BY <2>1, <3>1 DEF Proceed
    <3>3. Sound(next) /\ phaseOf(next) = "undeploying"
      BY <2>3, <2>5, <2>8, UnderWay
    <3> QED
      BY <1>6, <2>4, <2>6, <3>2, <3>3, SendLeaves DEF Moves
  <2> QED
    BY <2>2, <2>3, <2>7, <2>8
<1>10. CASE RecurseDelete(h)
  <2>1. ~HasNextStep(turned.state, TRUE) /\ Finish(h, turned) /\ crashed'
    BY <1>10 DEF RecurseDelete
  <2>2. turned.state = Undeployed
    BY <1>3, <2>1, NextStepExists
  <2>3. phaseOf(turned) = "undeployed"
    BY <2>2, Phases
  <2>4. phaseOf(e) # "deployed"
    BY <1>5, <1>7, <2>2, StepSets
  <2> HIDE DEF turned
  <2> QED
    BY <1>3, <1>6, <2>1, <2>3, <2>4, FinishLeaves DEF Moves
<1> QED
  BY <1>9, <1>10

\* The entry an answer moves on: one step, in its direction, from a provisioner.
LEMMA NextFromProvisioner ==
  ASSUME NEW e \in Resting, e.state \in Provisioners
  PROVE  LET next == setNextStep(e)
         IN  /\ isReverse(next) = isReverse(e)
             /\ isLastStep(next.state, isReverse(next)) \/ next.state \in Provisioners
             /\ next.closed = FALSE
<1> DEFINE r == isReverse(e)
           n == getNextStep(e.state, r)
           next == setNextStep(e)
<1>1. e \in Entry /\ e.state \in StepIds /\ e.state \notin EndStates /\ r \in BOOLEAN
  BY RestingPlace, StepSets, ReverseType
<1>2. HasNextStep(e.state, r)
  BY <1>1, NextStepExists, StepSets
<1>3. n \in StepIds \ ProviderSteps /\ (r => n < e.state) /\ (~r => n > e.state)
  BY <1>1, <1>2, NextStepIsAhead
<1>4. next.state = n /\ next.expected = e.expected /\ next.closed = FALSE
  BY <1>1, <1>2, NextEntry
<1>5. isReverse(next) = r
  BY <1>4 DEF isReverse
<1>6. isLastStep(n, r) \/ n \in Provisioners
  <2>1. CASE r
    <3>1. n # Deployed
      BY <1>1, <1>3, <2>1, BetweenEnds
    <3>2. n = Undeployed => isLastStep(n, r)
      BY <2>1 DEF isLastStep
    <3> QED
      BY <1>3, <3>1, <3>2, StepOrder DEF EndStates
  <2>2. CASE ~r
    <3>1. e.state < n
      <4>1. n \in Int /\ e.state \in Int
        BY <1>1, <1>3, StepOrder
      <4> QED
        BY <1>3, <2>2, <4>1
    <3>2. n # Undeployed
      BY <1>1, <1>3, <3>1, BetweenEnds
    <3>3. n = Deployed => isLastStep(n, r)
      BY <2>2 DEF isLastStep
    <3> QED
      BY <1>3, <3>2, <3>3, StepOrder DEF EndStates
  <2> QED
    BY <2>1, <2>2
<1> QED
  BY <1>4, <1>5, <1>6

LEMMA ReplyLeaves ==
  ASSUME TypeOK, NEW h \in Handlers, ExecuteReply(h), Sound(heap[running[h].entry])
  PROVE  LeavesWell(h)
<1> DEFINE e == heap[running[h].entry]
           msg == running[h].msg
           told == updateService(e, msg)
           next == setNextStep(told)
<1>1. running[h] # Nil /\ msg.step \in Provisioners
  BY DEF ExecuteReply, Runs
<1>2. e \in Resting /\ e \in Entry /\ msg \in Message /\ msg.err \in BOOLEAN
  BY <1>1, TaskTypes, RestingEntry
<1>3. CASE Finish(h, e)
  BY <1>2, <1>3, FinishLeaves DEF Moves
<1>4. CASE Finish(h, Failed(e))
  <2>1. Failed(e) \in Resting /\ phaseOf(Failed(e)) = phaseOf(e) /\ Sound(Failed(e))
    BY <1>2, EntryTypes, MarkedSound
  <2> QED
    BY <1>4, <2>1, FinishLeaves DEF Moves
<1>5. CASE sendToExtension(h, e)
  BY <1>2, <1>5, SendLeaves DEF Moves
<1>6. CASE msg.step = e.state
           /\ IF isLastStep(next.state, isReverse(next))
              THEN Finish(h, close(next, msg.err)) ELSE sendToExtension(h, next)
  <2>1. told \in Resting /\ told.state = e.state /\ phaseOf(told) = phaseOf(e)
        /\ told.expected = e.expected
    BY <1>2, EntryTypes, UpdatedSound
  <2>2. /\ isReverse(next) = isReverse(told)
        /\ isLastStep(next.state, isReverse(next)) \/ next.state \in Provisioners
        /\ next.closed = FALSE
    BY <1>1, <1>6, <2>1, NextFromProvisioner
  <2>3. isReverse(told) = isReverse(e)
    BY <2>1 DEF isReverse
  <2>4. phaseOf(e) = IF isReverse(e) THEN "undeploying" ELSE "deploying"
    BY <1>1, <1>6, Phases, StepSets
  <2>5. next \in Resting /\ next \in Entry
    BY <2>1, SetNextStepType, RestingEntry
  <2> HIDE DEF next, told
  <2>6. CASE isLastStep(next.state, isReverse(next))
    <3> DEFINE f == close(next, msg.err)
    <3>1. Finish(h, f)
      BY <1>6, <2>6
    <3>2. f \in Resting /\ Sound(f)
      BY <1>2, <2>5, CloseType, CloseSound
    <3>3. phaseOf(f) = IF isReverse(e) THEN "undeployed" ELSE "deployed"
      BY <2>2, <2>3, <2>5, CloseSound
    <3>4. Moves(phaseOf(e), phaseOf(f))
      BY <2>4, <3>3 DEF Moves
    <3> HIDE DEF f
    <3> QED
      BY <3>1, <3>2, <3>4, FinishLeaves
  <2>7. CASE ~isLastStep(next.state, isReverse(next))
    <3>1. sendToExtension(h, next) /\ next.state \in Provisioners
      BY <1>6, <2>2, <2>7
    <3>2. /\ Sound(next)
          /\ ~isReverse(next) => phaseOf(next) = "deploying"
          /\ isReverse(next) => phaseOf(next) = "undeploying"
      BY <2>2, <3>1, UnderWay
    <3>3. phaseOf(next) = phaseOf(e)
      <4>1. CASE isReverse(e)
        BY <2>2, <2>3, <2>4, <3>2, <4>1
      <4>2. CASE ~isReverse(e)
        BY <2>2, <2>3, <2>4, <3>2, <4>2
      <4> QED
        BY <4>1, <4>2
    <3> QED
      BY <2>5, <3>1, <3>2, <3>3, SendLeaves DEF Moves
  <2> QED
    BY <2>6, <2>7
<1> QED
  BY <1>3, <1>4, <1>5, <1>6 DEF ExecuteReply

LEMMA ExecuteLeaves ==
  ASSUME EndsWithProvisioner, TypeOK, AllSound, NEW h \in Handlers, Execute(h)
  PROVE  LeavesWell(h)
<1>1. running[h] # Nil /\ ~crashed
  BY DEF Execute, ExecuteAdd, ExecuteDelete, RecurseDelete, ExecuteReply, Runs
<1>2. Sound(heap[running[h].entry])
  BY <1>1, TaskTypes DEF AllSound
<1> QED
  BY <1>2, AddLeaves, DeleteLeaves, ReplyLeaves DEF Execute

-----------------------------------------------------------------------------
(* From entries to services. *)

\* One service moves on.
LEMMA ServiceMoves ==
  ASSUME NEW s \in Services, NEW b, phase' = [phase EXCEPT ![s] = b],
         phase[s] \in Lifecycle!Phases,
         \/ Moves(phase[s], b)
         \/ phase[s] = "undeployed" /\ b = "absent"
  PROVE  [Lifecycle!Next]_phase
<1>1. CASE b = phase[s]
  <2>1. [phase EXCEPT ![s] = phase[s]] = phase
    BY DEF phase
  <2> QED
    BY <1>1, <2>1
<1>2. CASE b = "deploying"
  BY <1>2 DEF Lifecycle!Next, Lifecycle!Deploy, Lifecycle!Move
<1>3. CASE phase[s] = "undeployed" /\ b = "absent"
  BY <1>3 DEF Lifecycle!Next, Lifecycle!Forget, Lifecycle!Move
<1>4. CASE phase[s] = "deploying" /\ b \in {"deployed", "undeploying", "undeployed"}
  BY <1>4 DEF Lifecycle!Next, Lifecycle!CompleteDeploy, Lifecycle!Undeploy,
              Lifecycle!CompleteUndeploy, Lifecycle!Move
<1>5. CASE phase[s] = "deployed" /\ b = "undeploying"
  BY <1>5 DEF Lifecycle!Next, Lifecycle!Undeploy, Lifecycle!Move
<1>6. CASE phase[s] = "undeploying" /\ b = "undeployed"
  BY <1>6 DEF Lifecycle!Next, Lifecycle!CompleteUndeploy, Lifecycle!Move
<1> QED
  BY <1>1, <1>2, <1>3, <1>4, <1>5, <1>6 DEF Moves

\* The phase of a service that is tracked, and of one that is not.
LEMMA PhaseOfService ==
  ASSUME TypeOK, NEW s \in Services
  PROVE  /\ table[s] = Nil => phase[s] = "absent"
         /\ table[s] # Nil => /\ phase[s] = phaseOf(heap[table[s]])
                              /\ table[s] \in Entries
                              /\ heap[table[s]] \in Resting
         /\ phase[s] \in Lifecycle!Phases
<1>1. table[s] = Nil => phase[s] = "absent"
  BY DEF phase
<1>2. table[s] # Nil => /\ phase[s] = phaseOf(heap[table[s]])
                        /\ table[s] \in Entries
                        /\ heap[table[s]] \in Resting
  BY DEF phase, TypeOK
<1>3. \A e \in Resting : phaseOf(e) \in Lifecycle!Phases
  BY RestingPlace, Phases DEF Lifecycle!Phases, EndStates
<1> QED
  BY <1>1, <1>2, <1>3 DEF Lifecycle!Phases

\* A step that changes one entry moves the service it is of, if any.
LEMMA OneEntryMoves ==
  ASSUME TypeOK, NoMixUp, NEW c \in Entries, NEW f \in Resting, table' = table,
         LET cells == [heap EXCEPT ![c] = f] IN heap' \in {cells, Collected(cells)},
         Moves(phaseOf(heap[c]), phaseOf(f))
  PROVE  [Lifecycle!Next]_phase
<1>1. ASSUME NEW s \in Services, table[s] # Nil
      PROVE  heap'[table[s]] = IF table[s] = c THEN f ELSE heap[table[s]]
  <2>1. table[s] \in Entries /\ Referenced(table[s])'
    BY <1>1 DEF TypeOK, Referenced
  <2> QED
    BY <2>1 DEF Collected, TypeOK
<1>2. CASE \E s \in Services : table[s] = c
  <2>1. PICK s \in Services : table[s] = c
    BY <1>2
  <2>2. c # Nil
    BY EngineAssumption
  <2>3. \A t \in Services : table[t] = c => t = s
    BY <2>1, <2>2 DEF NoMixUp
  <2>4. phase' = [phase EXCEPT ![s] = phaseOf(f)]
    BY <1>1, <2>1, <2>2, <2>3 DEF phase
  <2>5. phase[s] = phaseOf(heap[c]) /\ phase[s] \in Lifecycle!Phases
    BY <2>1, <2>2, PhaseOfService
  <2> QED
    BY <2>4, <2>5, ServiceMoves
<1>3. CASE \A s \in Services : table[s] # c
  <2>1. phase' = phase
    BY <1>1, <1>3 DEF phase
  <2> QED
    BY <2>1
<1> QED
  BY <1>2, <1>3

LEMMA OneEntrySound ==
  ASSUME EndsWithProvisioner, TypeOK, AllSound, ~crashed' => ~crashed,
         NEW c \in Entries, NEW f \in Resting, ~crashed' => Sound(f),
         LET cells == [heap EXCEPT ![c] = f] IN heap' \in {cells, Collected(cells)}
  PROVE  AllSound'
<1> SUFFICES ASSUME ~crashed', NEW d \in Entries PROVE Sound(heap'[d])
  BY DEF AllSound, Sound
<1>1. heap'[d] \in {f, heap[d], FreeCell}
  BY DEF TypeOK, Collected
<1>2. Sound(heap[d]) /\ Sound(f) /\ Sound(FreeCell)
  BY NewEntrySound DEF AllSound, FreeCell
<1> QED
  BY <1>1, <1>2

\* What a step of the engine owes the lifecycle.
Keeps == AllSound' /\ [Lifecycle!Next]_phase

LEMMA StillKeeps ==
  ASSUME AllSound, ~crashed' => ~crashed, UNCHANGED <<table, heap>>
  PROVE  Keeps
BY DEF Keeps, AllSound, Sound, phase, phaseOf, isReverse

LEMMA MergeKeepsSound ==
  ASSUME EndsWithProvisioner, TypeOK, NoMixUp, AllSound, NEW x \in Extensions, Merge(x)
  PROVE  Keeps
<1> DEFINE msg == listener[x].msg
           svc == msg.svc
<1>1. msg \in Message /\ svc \in Services /\ crashed' = crashed /\ ~crashed
  BY DEF Merge, Spawn, TypeOK, Jobs, Message
<1>2. CASE table[svc] # Nil /\ Spawn(x, table[svc], heap[table[svc]])
  <2> DEFINE c == table[svc]
             f == updateService(heap[c], msg)
  <2>1. c \in Entries /\ heap[c] \in Resting
    BY <1>1, <1>2 DEF TypeOK
  <2>2. table' = table
    BY <1>1, <1>2 DEF Spawn, TypeOK
  <2>3. heap' = [heap EXCEPT ![c] = f]
    BY <1>2 DEF Spawn
  <2>4. f \in Resting
    BY <1>1, <2>1, EntryTypes
  <2>5. phaseOf(f) = phaseOf(heap[c]) /\ Sound(f)
    BY <1>1, <2>1, UpdatedSound, RestingEntry DEF AllSound
  <2> HIDE DEF f, c
  <2> QED
    BY <1>1, <2>1, <2>2, <2>3, <2>4, <2>5, OneEntryMoves, OneEntrySound DEF Keeps, Moves
<1>3. ASSUME table[svc] = Nil, NEW c \in Entries, ~Referenced(c), Spawn(x, c, makeNewFlowEntry)
      PROVE  Keeps
  <2> DEFINE f == updateService(makeNewFlowEntry, msg)
  <2>1. table' = [table EXCEPT ![svc] = c] /\ heap' = [heap EXCEPT ![c] = f]
    BY <1>3 DEF Spawn
  <2>2. f \in Resting
    BY <1>1, NewEntryType, EntryTypes
  <2>3. phaseOf(f) = "deploying" /\ Sound(f)
    BY NewEntryType, RestingEntry, NewEntrySound, UpdatedSound
  <2> HIDE DEF f
  <2>4. \A s \in Services : table[s] # c
    BY <1>3 DEF Referenced
  <2>5. phase' = [phase EXCEPT ![svc] = "deploying"]
    <3>1. c # Nil /\ heap'[c] = f
      BY <2>1, EngineAssumption DEF TypeOK
    <3>2. ASSUME NEW s \in Services
          PROVE  phase'[s] = IF s = svc THEN "deploying" ELSE phase[s]
      <4>1. CASE s = svc
        BY <1>1, <2>1, <2>3, <3>1, <4>1 DEF phase, TypeOK
      <4>2. CASE s # svc
        <5>1. table'[s] = table[s]
          BY <1>1, <2>1, <4>2 DEF TypeOK
        <5>2. table[s] # Nil => heap'[table[s]] = heap[table[s]]
          BY <2>1, <2>4 DEF TypeOK
        <5> QED
          BY <4>2, <5>1, <5>2 DEF phase
      <4> QED
        BY <4>1, <4>2
    <3> QED
      BY <1>1, <3>2 DEF phase
  <2>6. [Lifecycle!Next]_phase
    BY <1>1, <2>5, PhaseOfService, ServiceMoves DEF Moves
  <2> QED
    BY <1>1, <2>1, <2>2, <2>3, <2>6, OneEntrySound DEF Keeps
<1> QED
  BY <1>2, <1>3 DEF Merge

LEMMA TimeOutKeeps ==
  ASSUME EndsWithProvisioner, TypeOK, NoMixUp, AllSound, NEW s \in Services, TimeOut(s)
  PROVE  Keeps
<1> DEFINE c == table[s]
           e == heap[c]
           f == close(e, TRUE)
<1>1. c \in Entries /\ e \in Resting /\ e \in Entry
  BY RestingPlace DEF TimeOut, TypeOK
<1>2. /\ table' = table /\ heap' = [heap EXCEPT ![c] = f]
      /\ ~crashed /\ crashed' = crashed
  BY DEF TimeOut
<1>3. f \in Resting /\ Sound(f) /\ Sound(e)
  BY <1>1, <1>2, CloseType, CloseSound DEF AllSound
<1>4. phaseOf(f) = IF isReverse(e) THEN "undeployed" ELSE "deployed"
  BY <1>1, CloseSound
<1>5. Moves(phaseOf(e), phaseOf(f))
  <2>1. CASE e.state \notin EndStates
    BY <1>4, <2>1, Phases DEF Moves
  <2>2. CASE e.state \in EndStates
    <3>1. e.expected = e.state
      BY <1>3, <2>2 DEF Sound
    <3>2. phaseOf(e) = IF isReverse(e) THEN "undeployed" ELSE "deployed"
      BY <2>2, <3>1, Phases, StepOrder DEF isReverse, EndStates
    <3> QED
      BY <1>4, <3>2 DEF Moves
  <2> QED
    BY <2>1, <2>2
<1> HIDE DEF c, f
<1> QED
  BY <1>1, <1>2, <1>3, <1>5, OneEntryMoves, OneEntrySound DEF Keeps

LEMMA RemoveKeeps ==
  ASSUME EndsWithProvisioner, TypeOK, AllSound, NEW s \in Services, Remove(s)
  PROVE  Keeps
<1>1. /\ table[s] # Nil /\ heap[table[s]].state = Undeployed
      /\ table' = [table EXCEPT ![s] = Nil] /\ heap' = Collected(heap)
      /\ ~crashed /\ crashed' = crashed
  BY DEF Remove, Removable
<1>2. phase[s] = "undeployed" /\ phase[s] \in Lifecycle!Phases
  BY <1>1, PhaseOfService, Phases
<1>3. phase' = [phase EXCEPT ![s] = "absent"]
  <2>1. ASSUME NEW t \in Services
        PROVE  phase'[t] = IF t = s THEN "absent" ELSE phase[t]
    <3>1. CASE t = s
      BY <1>1, <3>1 DEF phase, TypeOK
    <3>2. CASE t # s
      <4>1. table'[t] = table[t]
        BY <1>1, <3>2 DEF TypeOK
      <4>2. table[t] # Nil => heap'[table[t]] = heap[table[t]]
        BY <1>1, <4>1 DEF TypeOK, Collected, Referenced
      <4> QED
        BY <3>2, <4>1, <4>2 DEF phase
    <3> QED
      BY <3>1, <3>2
  <2> QED
    BY <2>1 DEF phase
<1>4. [Lifecycle!Next]_phase
  BY <1>2, <1>3, ServiceMoves
<1>5. heap' \in {heap, Collected(heap)} /\ [heap EXCEPT ![table[s]] = heap[table[s]]] = heap
  BY <1>1 DEF TypeOK
<1>6. table[s] \in Entries /\ heap[table[s]] \in Resting /\ Sound(heap[table[s]])
  BY <1>1 DEF TypeOK, AllSound
<1>7. AllSound'
  BY <1>1, <1>5, <1>6, OneEntrySound
<1> QED
  BY <1>4, <1>7 DEF Keeps

LEMMA HandlerKeeps ==
  ASSUME EndsWithProvisioner, TypeOK, NoMixUp, AllSound, NEW h \in Handlers, Execute(h)
  PROVE  Keeps
<1>1. running[h] # Nil /\ ~crashed
  BY DEF Execute, ExecuteAdd, ExecuteDelete, RecurseDelete, ExecuteReply, Runs
<1>2. running[h].entry \in Entries
  BY <1>1, TaskTypes
<1>3. PICK f \in Resting : /\ Leaves(h, f) /\ (~crashed' => Sound(f))
                           /\ Moves(phaseOf(heap[running[h].entry]), phaseOf(f))
  BY ExecuteLeaves DEF LeavesWell
<1> QED
  BY <1>1, <1>2, <1>3, OneEntryMoves, OneEntrySound DEF Keeps, Leaves

-----------------------------------------------------------------------------
LEMMA StepKeepsSound ==
  ASSUME EndsWithProvisioner
  PROVE  TypeOK /\ NoMixUp /\ AllSound /\ [Next]_vars => Keeps
<1> SUFFICES ASSUME TypeOK, NoMixUp, AllSound, [Next]_vars PROVE Keeps
  OBVIOUS
<1>1. CASE SomeProviderSends
  BY <1>1, StillKeeps DEF SomeProviderSends, ProviderSend
<1>2. ASSUME NEW x \in Extensions, Check(x) \/ Skip(x) PROVE Keeps
  BY <1>2, StillKeeps DEF Check, Skip
<1>3. ASSUME NEW h \in Handlers, TakeRequest(h) PROVE Keeps
  BY <1>3, StillKeeps DEF TakeRequest
<1>4. CASE Forward
  BY <1>4, StillKeeps DEF Forward
<1>5. ASSUME NEW q \in Provisioners, Reply(q) \/ ReplyAliasError(q) PROVE Keeps
  BY <1>5, StillKeeps DEF Reply, ReplyAliasError
<1>6. CASE UNCHANGED vars
  BY <1>6, StillKeeps DEF vars
<1> QED
  BY <1>1, <1>2, <1>3, <1>4, <1>5, <1>6, MergeKeepsSound, HandlerKeeps, TimeOutKeeps, RemoveKeeps
  DEF Next

LEMMA InitSound ==
  ASSUME EndsWithProvisioner
  PROVE  Init => AllSound
BY NewEntrySound DEF Init, AllSound, FreeCell

LEMMA AlwaysSound ==
  ASSUME EndsWithProvisioner
  PROVE  Spec => []AllSound
<1>1. TypeOK /\ NoMixUp /\ AllSound /\ [Next]_vars => AllSound'
  BY StepKeepsSound DEF Keeps
<1> QED
  BY <1>1, InitSound, TypeCorrect, Unmixed, PTL DEF Spec

\* An entry that is closed is where it was meant to go, whichever requests and
\* answers crossed on the way (close, setNextStep and the transitions of core/).
THEOREM ClosedWhereExpected ==
  ASSUME EndsWithProvisioner
  PROVE  Spec => []ClosedAsExpected
<1>1. TypeOK /\ AllSound => ClosedAsExpected
  BY DEF TypeOK, AllSound, Sound, ClosedAsExpected
<1> QED
  BY <1>1, TypeCorrect, AlwaysSound, PTL

\* Whatever messages cross, a service goes through the phases of its lifecycle and
\* only those: the engine implements ServiceLifecycle.
THEOREM EngineImplementsLifecycle ==
  ASSUME EndsWithProvisioner
  PROVE  Spec => ImplementsLifecycle
<1>1. Init => Lifecycle!Init
  BY DEF Init, Lifecycle!Init, phase
<1>2. TypeOK /\ NoMixUp /\ AllSound /\ [Next]_vars => [Lifecycle!Next]_phase
  BY StepKeepsSound DEF Keeps
<1> QED
  BY <1>1, <1>2, TypeCorrect, Unmixed, AlwaysSound, PTL
  DEF Spec, ImplementsLifecycle, Lifecycle!Spec
=============================================================================
