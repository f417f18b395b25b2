---------------------------- MODULE RestartsProofs ----------------------------
(***************************************************************************)
(* Theorems about the engine across the ends of its process, for every       *)
(* workflow and any number of services, handlers and restarts: its types,    *)
(* that nothing is mixed up, every entry is closed where it was meant to go   *)
(* and an orderly restart leaves each service in its phase; and, as long as   *)
(* the messages about a service do not cross, that what is shown as deployed  *)
(* is provisioned and what is gone has left nothing.                          *)
(***************************************************************************)
EXTENDS Restarts, WorkflowEngineProofs

-----------------------------------------------------------------------------
(* Steps and starts. *)

\* Within a life of the process, every step is one of the engine or leaves it alone.
LEMMA EngineSteps ==
  ASSUME [RestartsNext]_allVars
  PROVE  [Next]_vars \/ Write \/ Kill
<1>1. ASSUME NEW p \in ProviderSteps, Provide(p) PROVE [Next]_vars
  BY <1>1 DEF Provide, Next, SomeProviderSends
<1>2. ASSUME NEW x \in Extensions, Listen(x) \/ StopExtension(x) PROVE [Next]_vars
  BY <1>2 DEF Listen, StopExtension, Next
<1>3. ASSUME NEW h \in Handlers, Handle(h) \/ Request(h) PROVE [Next]_vars
  BY <1>3 DEF Handle, Request, Next
<1>4. CASE ForwardToRunning
  BY <1>4 DEF ForwardToRunning, Next
<1>5. ASSUME NEW q \in Provisioners, Provision(q) PROVE [Next]_vars
  BY <1>5 DEF Provision, Next
<1>6. ASSUME NEW s \in Services, Close(s) \/ Clean(s) PROVE [Next]_vars
  BY <1>6 DEF Close, Clean, Next
<1>7. CASE Signal \/ StopHousekeeper \/ Truncate \/ UNCHANGED allVars
  BY <1>7 DEF Signal, StopHousekeeper, Truncate, allVars
<1> QED
  BY <1>1, <1>2, <1>3, <1>4, <1>5, <1>6, <1>7 DEF RestartsNext

LEMMA ImageType == TypeOK => Image \in Images
BY DEF TypeOK, Image, Images

LEMMA NoEntriesType == NoEntries \in Images
BY DEF NoEntries, Images

\* A start: the services of the image have their entries, each its own, and nobody
\* has a message.
LEMMA Started ==
  ASSUME NEW image \in Images, Start(image)
  PROVE  /\ table' \in [Services -> Entries \cup {Nil}]
         /\ heap' \in [Entries -> Resting]
         /\ \A s \in Services : table'[s] = Nil <=> image[s] = Nil
         /\ \A s \in Services : table'[s] # Nil => heap'[table'[s]] = image[s]
         /\ \A s1, s2 \in Services : table'[s1] = table'[s2] /\ table'[s1] # Nil => s1 = s2
         /\ \A c \in Entries : heap'[c] = FreeCell \/ \E s \in Services :
                                 image[s] # Nil /\ heap'[c] = image[s]
         /\ \A x \in Extensions : listener'[x] = Nil
         /\ \A h \in Handlers : running'[h] = Nil /\ sending'[h] = Nil
         /\ forwarding' = Nil
         /\ \A q \in Provisioners : ext'[q] = Nil
         /\ crashed' = FALSE /\ stage' = "up" /\ down' = {}
<1>1. PICK cell \in [Services -> Entries \cup {Nil}] :
        /\ \A s \in Services : cell[s] = Nil <=> image[s] = Nil
        /\ \A s1, s2 \in Services : cell[s1] = cell[s2] /\ cell[s1] # Nil => s1 = s2
        /\ table' = cell
        /\ heap' = [c \in Entries |->
             IF \E s \in Services : cell[s] = c
             THEN image[CHOOSE s \in Services : cell[s] = c] ELSE FreeCell]
  BY DEF Start
<1>2. ASSUME NEW s \in Services, cell[s] # Nil
      PROVE  cell[s] \in Entries /\ heap'[cell[s]] = image[s]
  <2>1. cell[s] \in Entries
    BY <1>1, <1>2
  <2> DEFINE t == CHOOSE t \in Services : cell[t] = cell[s]
  <2>2. t \in Services /\ cell[t] = cell[s]
    OBVIOUS
  <2>3. t = s
    BY <1>1, <1>2, <2>2
  <2>4. heap'[cell[s]] = image[t]
    BY <1>1, <2>1
  <2> QED
    BY <2>1, <2>3, <2>4
<1>3. ASSUME NEW c \in Entries
      PROVE  /\ heap'[c] \in Resting
             /\ heap'[c] = FreeCell \/ \E s \in Services : image[s] # Nil /\ heap'[c] = image[s]
  <2>1. CASE \E s \in Services : cell[s] = c
    <3>1. PICK s \in Services : cell[s] = c
      BY <2>1
    <3>2. c # Nil /\ image[s] # Nil /\ image[s] \in Resting
      BY <1>1, <3>1, EngineAssumption DEF Images
    <3>3. heap'[c] = image[s]
      BY <1>2, <3>1, <3>2
    <3> QED
      BY <3>2, <3>3
  <2>2. CASE ~ \E s \in Services : cell[s] = c
    <3>1. heap'[c] = FreeCell
      BY <1>1, <2>2
    <3> QED
      BY <3>1, NewEntryType DEF FreeCell
  <2> QED
    BY <2>1, <2>2
<1>4. heap' \in [Entries -> Resting]
  BY <1>1, <1>3
<1> QED
  BY <1>1, <1>2, <1>3, <1>4 DEF Start

\* What a process that is killed leaves behind at the extensions.
LEMMA KilledType ==
  ASSUME TypeOK, Kill
  PROVE  provisioned' \in [Provisioners -> [Services -> Contents]]
<1>1. PICK left \in [Provisioners -> Contents] :
        provisioned' = [q \in Provisioners |->
          IF ext[q] # Nil THEN [provisioned[q] EXCEPT ![ext[q].svc] = left[q]]
                          ELSE provisioned[q]]
  BY DEF Kill
<1>2. ASSUME NEW q \in Provisioners
      PROVE  provisioned'[q] \in [Services -> Contents]
  <2>1. provisioned[q] \in [Services -> Contents] /\ left[q] \in Contents
    BY DEF TypeOK
  <2>2. CASE ext[q] # Nil
    BY <1>1, <2>1, <2>2
  <2>3. CASE ext[q] = Nil
    BY <1>1, <2>1, <2>3
  <2> QED
    BY <2>2, <2>3
<1> QED
  BY <1>1, <1>2

LEMMA StartTypes ==
  ASSUME TypeOK, file \in Images, Write \/ Kill
  PROVE  TypeOK'
<1>1. PICK image \in Images : Start(image)
  BY ImageType DEF Write, Kill
<1>2. provisioned' \in [Provisioners -> [Services -> Contents]]
  BY KilledType DEF Write, TypeOK
<1>3. /\ listener' \in [Extensions -> Jobs \cup {Nil}]
      /\ running' \in [Handlers -> Tasks \cup {Nil}]
      /\ sending' \in [Handlers -> Message \cup {Nil}]
      /\ forwarding' \in Message \cup {Nil}
      /\ ext' \in [Provisioners -> Message \cup {Nil}]
      /\ crashed' \in BOOLEAN
  BY <1>1 DEF Start
<1> QED
  BY <1>1, <1>2, <1>3, Started DEF TypeOK

-----------------------------------------------------------------------------
(* Type correctness. *)

LEMMA EngineStepType ==
  ASSUME TypeOK, file \in Images, [RestartsNext]_allVars
  PROVE  TypeOK'
BY EngineSteps, StepType, StartTypes

\* What the steps of the engine do to the parts of this module.
LEMMA OwnParts ==
  ASSUME RestartsTypeOK, RestartsNext, ~Write, ~Kill
  PROVE  /\ stage' \in {"up", "signalled", "stopping", "saving"}
         /\ down' \in SUBSET Extensions
         /\ file' \in Images
         /\ lost' = lost
         /\ disturbed' \in BOOLEAN
         /\ disturbed => disturbed'
         /\ stage' \in {"up", "signalled"} => down' = {}
<1>1. CASE \/ UNCHANGED <<own, lost>> /\ disturbed' = TRUE
           \/ UNCHANGED <<own, history>>
  BY <1>1 DEF own, history, RestartsTypeOK, HousekeeperRuns
<1>2. CASE Signal \/ StopHousekeeper
  BY <1>2 DEF Signal, StopHousekeeper, history, RestartsTypeOK, HousekeeperRuns
<1>3. ASSUME NEW x \in Extensions, StopExtension(x)
      PROVE  /\ stage' = "stopping" /\ down' \in SUBSET Extensions
             /\ UNCHANGED <<file, history>>
  BY <1>3 DEF StopExtension, RestartsTypeOK
<1>4. CASE Truncate
  BY <1>4, NoEntriesType DEF Truncate, history, RestartsTypeOK
<1>5. \/ UNCHANGED <<own, lost>> /\ disturbed' = TRUE
      \/ UNCHANGED <<own, history>>
      \/ Signal \/ StopHousekeeper \/ Truncate \/ \E x \in Extensions : StopExtension(x)
  BY DEF RestartsNext, Provide, Listen, Handle, Request, ForwardToRunning, Provision,
         Close, Clean, Undisturbed, Disturbed
<1> QED
  BY <1>1, <1>2, <1>3, <1>4, <1>5 DEF history, RestartsTypeOK

\* An extension that is stopped stays idle.
LEMMA StoppedIdle ==
  ASSUME RestartsTypeOK, RestartsNext, ~Write, ~Kill,
         NEW x \in Provisioners, x \in down'
  PROVE  ext'[x] = Nil
<1>1. TypeOK /\ (x \in down => ext[x] = Nil)
  BY DEF RestartsTypeOK
<1>2. CASE ForwardToRunning
  <2>1. x \in down /\ forwarding.step # x
    BY <1>2 DEF ForwardToRunning, Undisturbed, own
  <2>2. ext'[x] = ext[x]
    BY <1>1, <1>2, <2>1 DEF ForwardToRunning, Forward, TypeOK
  <2> QED
    BY <1>1, <2>1, <2>2
<1>3. ASSUME NEW q \in Provisioners, Provision(q) PROVE ext'[x] = Nil
  <2>1. x \in down /\ ext[q] # Nil
    BY <1>3 DEF Provision, Reply, ReplyAliasError, Undisturbed, Disturbed, own
  <2>2. x # q
    BY <1>1, <2>1
  <2>3. ext'[x] = ext[x]
    BY <1>1, <1>3, <2>2 DEF Provision, Reply, ReplyAliasError, TypeOK
  <2> QED
    BY <1>1, <2>1, <2>3
<1>4. ASSUME NEW y \in Extensions, StopExtension(y) PROVE ext'[x] = Nil
  BY <1>1, <1>4 DEF StopExtension, vars
<1>5. CASE UNCHANGED <<ext, down>>
  BY <1>1, <1>5
<1>6. \/ UNCHANGED <<ext, down>> \/ ForwardToRunning
      \/ \E q \in Provisioners : Provision(q)
      \/ \E y \in Extensions : StopExtension(y)
  <2>1. ASSUME NEW p \in ProviderSteps, Provide(p) PROVE UNCHANGED <<ext, down>>
    BY <2>1 DEF Provide, ProviderSend, Undisturbed, Disturbed, own
  <2>2. ASSUME NEW y \in Extensions, Listen(y) PROVE UNCHANGED <<ext, down>>
    BY <2>2 DEF Listen, Check, Skip, Merge, Spawn, Undisturbed, own
  <2>3. ASSUME NEW h \in Handlers, Handle(h) PROVE UNCHANGED <<ext, down>>
    BY <2>3 DEF Handle, Execute, ExecuteAdd, ExecuteDelete, RecurseDelete, ExecuteReply,
                Proceed, Finish, sendToExtension, Undisturbed, own
  <2>4. ASSUME NEW h \in Handlers, Request(h) PROVE UNCHANGED <<ext, down>>
    BY <2>4 DEF Request, TakeRequest, Undisturbed, own
  <2>5. ASSUME NEW s \in Services, Close(s) \/ Clean(s) PROVE UNCHANGED <<ext, down>>
    BY <2>5 DEF Close, Clean, TimeOut, Remove, Undisturbed, Disturbed, own
  <2>6. CASE Signal \/ StopHousekeeper \/ Truncate
    BY <2>6 DEF Signal, StopHousekeeper, Truncate, vars
  <2> QED
    BY <2>1, <2>2, <2>3, <2>4, <2>5, <2>6 DEF RestartsNext
<1> QED
  BY <1>2, <1>3, <1>4, <1>5, <1>6

\* The file is written once every extension is stopped.
LEMMA SavingDown ==
  ASSUME RestartsTypeOK, RestartsNext, ~Write, ~Kill, stage' = "saving"
  PROVE  down' = Extensions
<1>1. CASE Truncate
  BY <1>1 DEF Truncate
<1>2. CASE Signal \/ StopHousekeeper \/ \E x \in Extensions : StopExtension(x)
  BY <1>2 DEF Signal, StopHousekeeper, StopExtension
<1>3. CASE UNCHANGED own
  BY <1>3 DEF own, RestartsTypeOK
<1> QED
  BY <1>1, <1>2, <1>3 DEF RestartsNext, Provide, Listen, Handle, Request, ForwardToRunning,
                          Provision, Close, Clean, Undisturbed, Disturbed

LEMMA RestartsStepType ==
  ASSUME RestartsTypeOK, [RestartsNext]_allVars
  PROVE  RestartsTypeOK'
<1>1. TypeOK' /\ file \in Images
  BY EngineStepType DEF RestartsTypeOK
<1>2. CASE RestartsNext /\ ~Write /\ ~Kill
  <2>1. \A x \in down' \cap Provisioners : ext'[x] = Nil
    BY <1>2, StoppedIdle
  <2> QED
    BY <1>1, <1>2, <2>1, OwnParts, SavingDown DEF RestartsTypeOK, HousekeeperRuns
<1>3. CASE Write \/ Kill
  <2>1. PICK image \in Images : Start(image)
    BY <1>1, <1>3, ImageType DEF Write, Kill, RestartsTypeOK
  <2>2. stage' = "up" /\ down' = {}
    BY <2>1, Started
  <2>3. file' \in Images
    BY <1>1, <1>3, ImageType DEF Write, Kill, RestartsTypeOK
  <2>4. lost' \in BOOLEAN /\ disturbed' \in BOOLEAN
    BY <1>3 DEF Write, Kill, RestartsTypeOK
  <2> QED
    BY <1>1, <2>2, <2>3, <2>4 DEF RestartsTypeOK, HousekeeperRuns
<1>4. CASE UNCHANGED allVars
  BY <1>1, <1>4 DEF allVars, vars, own, history, RestartsTypeOK, HousekeeperRuns
<1> QED
  BY <1>2, <1>3, <1>4

LEMMA RestartsInitType == RestartsInit => RestartsTypeOK
BY InitType, NoEntriesType DEF RestartsInit, RestartsTypeOK, HousekeeperRuns

\* The engine, its shutdown and its file hold what the code puts there, however
\* often the process is stopped, killed and started: extensions are only stopped
\* once the housekeeper is, a stopped one is idle, and all of them are stopped while
\* the table is written (run, save and load of core/).
THEOREM RestartsTypes == RestartsSpec => []RestartsTypeOK
<1>1. RestartsTypeOK /\ [RestartsNext]_allVars => RestartsTypeOK'
  BY RestartsStepType
<1> QED
  BY <1>1, RestartsInitType, PTL DEF RestartsSpec

-----------------------------------------------------------------------------
(* What holds of the engine holds across its restarts. *)

LEMMA RestartsUnmixed ==
  ASSUME RestartsTypeOK, NoMixUp, [RestartsNext]_allVars
  PROVE  NoMixUp'
<1>1. CASE [Next]_vars
  BY <1>1, StepUnmixed DEF RestartsTypeOK
<1>2. CASE Write \/ Kill
  <2>1. PICK image \in Images : Start(image)
    BY <1>2, ImageType DEF Write, Kill, RestartsTypeOK
  <2> QED
    BY <2>1, Started DEF NoMixUp
<1> QED
  BY <1>1, <1>2, EngineSteps

\* Nothing is mixed up between services, in any of the process's lives: what is
\* loaded gives every service an entry of its own (load of core/).
THEOREM RestartsMixNothing == RestartsSpec => []NoMixUp
<1>1. RestartsInit => NoMixUp
  BY DEF RestartsInit, Init, NoMixUp
<1>2. RestartsTypeOK /\ NoMixUp /\ [RestartsNext]_allVars => NoMixUp'
  BY RestartsUnmixed
<1> QED
  BY <1>1, <1>2, RestartsTypes, PTL DEF RestartsSpec

\* The entries that a start would load are sound as well.
FileSound == \A s \in Services : file[s] # Nil => Sound(file[s])

LEMMA StartSound ==
  ASSUME EndsWithProvisioner, NEW image \in Images, Start(image),
         \A s \in Services : image[s] # Nil => Sound(image[s])
  PROVE  AllSound'
<1>1. Sound(FreeCell)
  BY NewEntrySound DEF FreeCell
<1>2. \A c \in Entries : heap'[c] = FreeCell \/ \E s \in Services :
                             image[s] # Nil /\ heap'[c] = image[s]
  BY Started
<1>3. \A c \in Entries : Sound(heap'[c])
  BY <1>1, <1>2
<1> QED
  BY <1>3 DEF AllSound, Sound

LEMMA ImageSound ==
  ASSUME TypeOK, AllSound, ~crashed, NEW s \in Services, Image[s] # Nil
  PROVE  Sound(Image[s])
<1>1. table[s] \in Entries /\ Image[s] = heap[table[s]]
  BY DEF Image, TypeOK
<1> QED
  BY <1>1 DEF AllSound

LEMMA RestartsKeepSound ==
  ASSUME EndsWithProvisioner,
         RestartsTypeOK, NoMixUp, AllSound, FileSound, [RestartsNext]_allVars
  PROVE  AllSound' /\ FileSound'
<1>1. TypeOK /\ file \in Images
  BY DEF RestartsTypeOK
<1>2. CASE Write
  <2>1. \A s \in Services : Image[s] # Nil => Sound(Image[s])
    BY <1>1, <1>2, ImageSound DEF Write
  <2>2. Start(Image) /\ file' = Image
    BY <1>2 DEF Write
  <2> QED
    BY <1>1, <2>1, <2>2, ImageType, StartSound DEF FileSound, Sound
<1>3. CASE Kill
  <2>1. Start(file) /\ file' = file
    BY <1>3 DEF Kill
  <2> QED
    BY <1>1, <2>1, StartSound DEF FileSound, Sound
<1>4. CASE ~Write /\ ~Kill
  <2>1. AllSound'
    BY <1>1, <1>4, EngineSteps, StepKeepsSound DEF Keeps
  <2>2. file' = file \/ file' = NoEntries
    BY <1>4 DEF RestartsNext, Provide, Listen, Handle, Request, ForwardToRunning, Provision,
                Close, Clean, Signal, StopHousekeeper, StopExtension, Truncate,
                Undisturbed, Disturbed, own,
                allVars
  <2>3. FileSound'
    BY <2>2 DEF FileSound, NoEntries, Sound
  <2> QED
    BY <2>1, <2>3
<1> QED
  BY <1>2, <1>3, <1>4

LEMMA AlwaysSoundInFile ==
  ASSUME EndsWithProvisioner
  PROVE  RestartsSpec => [](AllSound /\ FileSound)
<1>1. RestartsInit => AllSound /\ FileSound
  BY InitSound DEF RestartsInit, FileSound, NoEntries
<1>2. RestartsTypeOK /\ NoMixUp /\ (AllSound /\ FileSound) /\ [RestartsNext]_allVars
        => (AllSound /\ FileSound)'
  BY RestartsKeepSound
<1> QED
  BY <1>1, <1>2, RestartsTypes, RestartsMixNothing, PTL DEF RestartsSpec

\* An entry that is closed is where it was meant to go, also when its work was cut
\* by a shutdown, or began in an earlier life of the process.
THEOREM RestartsCloseAsExpected ==
  ASSUME EndsWithProvisioner
  PROVE  RestartsSpec => []ClosedAsExpected
<1>1. RestartsTypeOK /\ AllSound => ClosedAsExpected
  BY DEF RestartsTypeOK, TypeOK, AllSound, Sound, ClosedAsExpected
<1> QED
  BY <1>1, RestartsTypes, AlwaysSoundInFile, PTL

LEMMA WriteKeepsPhases ==
  ASSUME RestartsTypeOK, Write
  PROVE  phase' = phase
<1>1. TypeOK /\ Image \in Images /\ Start(Image)
  BY ImageType DEF RestartsTypeOK, Write
<1>2. ASSUME NEW s \in Services
      PROVE  /\ table'[s] = Nil <=> table[s] = Nil
             /\ table[s] # Nil => heap'[table'[s]] = heap[table[s]]
  <2>1. Image[s] = IF table[s] = Nil THEN Nil ELSE heap[table[s]]
    BY DEF Image
  <2>2. table[s] # Nil => heap[table[s]] # Nil
    <3>1. table[s] # Nil => heap[table[s]] \in Entry
      BY <1>1 DEF TypeOK, Resting
    <3> QED
      BY <3>1, ImageAssumption
  <2>3. table'[s] = Nil <=> Image[s] = Nil
    BY <1>1, Started
  <2>4. table'[s] # Nil => heap'[table'[s]] = Image[s]
    BY <1>1, Started
  <2> QED
    BY <2>1, <2>2, <2>3, <2>4
<1> QED
  BY <1>2 DEF phase

\* An orderly end of the process and the start after it cannot be told by a reader of
\* the table, whatever work they cut: what is saved and loaded leaves every service in
\* the phase it was in, and all other steps but that of a process that is killed are
\* steps of the lifecycle (save and load of core/).
THEOREM RestartsKeepLifecycle ==
  ASSUME EndsWithProvisioner
  PROVE  RestartsSpec => LifecycleSurvives
<1>1. RestartsTypeOK /\ NoMixUp /\ (AllSound /\ FileSound) /\ [RestartsNext]_allVars
        => [~Kill => Lifecycle!Next \/ UNCHANGED phase]_allVars
  <2> SUFFICES ASSUME RestartsTypeOK, NoMixUp, AllSound, [RestartsNext]_allVars, ~Kill
               PROVE  Lifecycle!Next \/ UNCHANGED phase
    OBVIOUS
  <2>1. CASE Write
    BY <2>1, WriteKeepsPhases
  <2>2. CASE [Next]_vars
    BY <2>2, StepKeepsSound DEF Keeps, RestartsTypeOK
  <2> QED
    BY <2>1, <2>2, EngineSteps
<1> QED
  BY <1>1, RestartsTypes, RestartsMixNothing, AlwaysSoundInFile, PTL
  DEF RestartsSpec, LifecycleSurvives

-----------------------------------------------------------------------------
(* The messages about a service.  Between two steps each is a request, an      *)
(* announcement of a provider or the answer of a provisioner.                  *)

\* Request m is on its way to its extension, or is being worked on.
Asked(m, s) ==
  \/ \E h \in Handlers : Sends(h, s) /\ m = sending[h]
  \/ Forwards(s) /\ m = forwarding
  \/ \E q \in Provisioners : WorksOn(q, s) /\ m = ext[q]

\* Message m has been merged, its handler has not run yet.
Carried(m, s) == \E h \in Handlers : Carries(h, s) /\ m = running[h].msg

Heard(m, s) == \E x \in Extensions : Hears(x, s) /\ m = listener[x].msg

Announced(s) == \E m \in Message : Carried(m, s) /\ m.step \in ProviderSteps

Answered(m, s) == m.step \in Provisioners /\ (Heard(m, s) \/ Carried(m, s))

InHand(h, s) == Carries(h, s) \/ Sends(h, s)

\* What it means that messages do not cross, holder by holder.
LEMMA Alone ==
  ASSUME OneAtATime, NEW s \in Services
  PROVE  /\ \A x, y \in Extensions : Hears(x, s) /\ Hears(y, s) => x = y
         /\ \A g, h \in Handlers : InHand(g, s) /\ InHand(h, s) => g = h
         /\ \A q, r \in Provisioners : WorksOn(q, s) /\ WorksOn(r, s) => q = r
         /\ \A x \in Extensions, h \in Handlers : ~(Hears(x, s) /\ InHand(h, s))
         /\ \A x \in Extensions, q \in Provisioners : ~(Hears(x, s) /\ WorksOn(q, s))
         /\ \A h \in Handlers, q \in Provisioners : ~(InHand(h, s) /\ WorksOn(q, s))
         /\ Forwards(s) => /\ \A x \in Extensions : ~Hears(x, s)
                           /\ \A h \in Handlers : ~InHand(h, s)
                           /\ \A q \in Provisioners : ~WorksOn(q, s)
<1>1. \A a, b \in Holders(s) : a = b
  BY DEF OneAtATime
<1>2. \A x \in Extensions : Hears(x, s) => <<"listener", x>> \in Holders(s)
  BY DEF Holders
<1>3. \A h \in Handlers : InHand(h, s) => <<"handler", h>> \in Holders(s)
  BY DEF Holders, InHand
<1>4. \A q \in Provisioners : WorksOn(q, s) => <<"extension", q>> \in Holders(s)
  BY DEF Holders
<1>5. Forwards(s) => <<"sender", 0>> \in Holders(s)
  BY DEF Holders
<1>6. \A a, b, c, d : <<a, b>> = <<c, d>> => a = c /\ b = d
  OBVIOUS
<1>7. \A x, y \in Extensions : Hears(x, s) /\ Hears(y, s) => x = y
  BY <1>1, <1>2, <1>6
<1>8. \A g, h \in Handlers : InHand(g, s) /\ InHand(h, s) => g = h
  BY <1>1, <1>3, <1>6
<1>9. \A q, r \in Provisioners : WorksOn(q, s) /\ WorksOn(r, s) => q = r
  BY <1>1, <1>4, <1>6
<1>10. \A x \in Extensions, h \in Handlers : ~(Hears(x, s) /\ InHand(h, s))
  BY <1>1, <1>2, <1>3, <1>6
<1>11. \A x \in Extensions, q \in Provisioners : ~(Hears(x, s) /\ WorksOn(q, s))
  BY <1>1, <1>2, <1>4, <1>6
<1>12. \A h \in Handlers, q \in Provisioners : ~(InHand(h, s) /\ WorksOn(q, s))
  BY <1>1, <1>3, <1>4, <1>6
<1>13. ASSUME Forwards(s)
       PROVE  /\ \A x \in Extensions : ~Hears(x, s)
              /\ \A h \in Handlers : ~InHand(h, s)
              /\ \A q \in Provisioners : ~WorksOn(q, s)
  BY <1>1, <1>2, <1>3, <1>4, <1>5, <1>6, <1>13
<1> QED
  BY <1>7, <1>8, <1>9, <1>10, <1>11, <1>12, <1>13

\* Whose message, and the only one: a listener's, a handler's before and after it
\* ran, an extension's.
LEMMA AloneListener ==
  ASSUME OneAtATime, NEW s \in Services, NEW x \in Extensions, Hears(x, s)
  PROVE  /\ \A m : ~Asked(m, s) /\ ~Carried(m, s)
         /\ \A m : Heard(m, s) <=> m = listener[x].msg
         /\ ~Announced(s)
BY Alone DEF Asked, Carried, Heard, Announced, InHand

LEMMA AloneCarrier ==
  ASSUME OneAtATime, NEW s \in Services, NEW h \in Handlers, Carries(h, s), sending[h] = Nil
  PROVE  /\ \A m : ~Asked(m, s) /\ ~Heard(m, s)
         /\ \A m : Carried(m, s) <=> m = running[h].msg
<1>1. InHand(h, s) /\ ~Sends(h, s)
  BY DEF InHand, Sends
<1> QED
  BY <1>1, Alone DEF Asked, Carried, Heard, InHand

LEMMA AloneSender ==
  ASSUME OneAtATime, NEW s \in Services, NEW h \in Handlers, Sends(h, s), running[h] = Nil
  PROVE  /\ \A m : Asked(m, s) <=> m = sending[h]
         /\ \A m : ~Heard(m, s) /\ ~Carried(m, s)
         /\ ~Announced(s)
<1>1. InHand(h, s) /\ ~Carries(h, s)
  BY DEF InHand, Carries
<1> QED
  BY <1>1, Alone DEF Asked, Carried, Heard, Announced, InHand

LEMMA AloneExtension ==
  ASSUME OneAtATime, NEW s \in Services, NEW q \in Provisioners, WorksOn(q, s)
  PROVE  /\ \A m : Asked(m, s) <=> m = ext[q]
         /\ \A m : ~Heard(m, s) /\ ~Carried(m, s)
         /\ ~Announced(s)
BY Alone DEF Asked, Carried, Heard, Announced, InHand

-----------------------------------------------------------------------------
(* What a step leaves alone. *)

\* What is said and done about s stays as it is.
SameRecord(s) ==
  /\ table'[s] = table[s]
  /\ table[s] # Nil => heap'[table[s]] = heap[table[s]]
  /\ \A q \in Provisioners : provisioned'[q][s] = provisioned[q][s]

\* An extension is at work on s, or has told what it did.
Taken(s) == (\E q \in Provisioners : WorksOn(q, s)) \/ \E m \in Message : Answered(m, s)

\* And so do the messages about it, whoever holds them.
Same(s) ==
  /\ SameRecord(s)
  /\ \A m : /\ Asked(m, s)' <=> Asked(m, s)
            /\ Carried(m, s)' <=> Carried(m, s)
            /\ Answered(m, s)' <=> Answered(m, s)
  /\ Taken(s) => Taken(s)'

Untouched(s) ==
  /\ SameRecord(s)
  /\ \A x \in Extensions : Hears(x, s) \/ Hears(x, s)' => listener'[x] = listener[x]
  /\ \A h \in Handlers : Carries(h, s) \/ Carries(h, s)' => running'[h] = running[h]
  /\ \A h \in Handlers : Sends(h, s) \/ Sends(h, s)' => sending'[h] = sending[h]
  /\ Forwards(s) \/ Forwards(s)' => forwarding' = forwarding
  /\ \A q \in Provisioners : WorksOn(q, s) \/ WorksOn(q, s)' => ext'[q] = ext[q]

LEMMA UntouchedSame ==
  ASSUME NEW s \in Services, Untouched(s)
  PROVE  Same(s)
<1>1. \A m : Asked(m, s)' <=> Asked(m, s)
  BY DEF Untouched, Asked, Sends, Forwards, WorksOn
<1>2. \A m : Carried(m, s)' <=> Carried(m, s)
  BY DEF Untouched, Carried, Carries
<1>3. \A m : Heard(m, s)' <=> Heard(m, s)
  BY DEF Untouched, Heard, Hears
<1>4. \A m : Answered(m, s)' <=> Answered(m, s)
  BY <1>2, <1>3 DEF Answered
<1>5. \A q \in Provisioners : WorksOn(q, s)' <=> WorksOn(q, s)
  BY DEF Untouched, WorksOn
<1>6. Taken(s) => Taken(s)'
  BY <1>4, <1>5 DEF Taken
<1> QED
  BY <1>1, <1>2, <1>4, <1>6 DEF Same, Untouched

\* A handler either ends or sends a request.
LEMMA ExecuteEnds ==
  ASSUME NEW h \in Handlers, Execute(h)
  PROVE  /\ running[h] # Nil /\ ~crashed
         /\ \E e : Finish(h, e) \/ sendToExtension(h, e)
BY DEF Execute, ExecuteAdd, ExecuteDelete, RecurseDelete, ExecuteReply, Proceed, Runs

LEMMA ExecuteTouches ==
  ASSUME TypeOK, NoMixUp, NEW h \in Handlers, Execute(h),
         NEW s \in Services, s # running[h].msg.svc
  PROVE  Untouched(s)
<1>1. PICK e : Finish(h, e) \/ sendToExtension(h, e)
  BY ExecuteEnds
<1>2. running[h] # Nil /\ sending[h] = Nil
  BY ExecuteEnds DEF NoMixUp
<1>3. /\ table' = table /\ listener' = listener /\ forwarding' = forwarding
      /\ ext' = ext /\ provisioned' = provisioned
      /\ running' = [running EXCEPT ![h] = Nil]
      /\ \E f : heap' = Collected([heap EXCEPT ![running[h].entry] = f])
  BY <1>1 DEF Finish, sendToExtension
<1>4. table[s] # Nil => heap'[table[s]] = heap[table[s]]
  <2>1. table[s] # running[h].entry
    BY <1>2 DEF NoMixUp
  <2>2. table[s] # Nil => table[s] \in Entries /\ Referenced(table[s])'
    BY <1>3 DEF TypeOK, Referenced
  <2> QED
    BY <1>3, <2>1, <2>2 DEF Collected, TypeOK
<1>5. \A g \in Handlers : Carries(g, s) \/ Carries(g, s)' => running'[g] = running[g]
  BY <1>3 DEF Carries, TypeOK
<1>6. \A g \in Handlers : Sends(g, s) \/ Sends(g, s)' => sending'[g] = sending[g]
  <2>1. \A m : Finish(h, m) => sending' = sending
    BY DEF Finish
  <2>2. \A m : sendToExtension(h, m) =>
          sending' = [sending EXCEPT ![h] = BuildMessage(running[h].msg.svc, m)]
    BY DEF sendToExtension
  <2>3. \A m : BuildMessage(running[h].msg.svc, m).svc # s
    BY DEF BuildMessage
  <2> QED
    BY <1>1, <1>2, <2>1, <2>2, <2>3 DEF Sends, TypeOK
<1> QED
  BY <1>3, <1>4, <1>5, <1>6 DEF Untouched, SameRecord, Hears, Forwards, WorksOn

LEMMA MergeTouches ==
  ASSUME TypeOK, NoMixUp, NEW x \in Extensions, Merge(x),
         NEW s \in Services, s # listener[x].msg.svc
  PROVE  Untouched(s)
<1> DEFINE msg == listener[x].msg
<1>1. msg \in Message /\ msg.svc \in Services
  BY DEF Merge, TypeOK, Jobs, Message
<1>2. PICK c, e : Spawn(x, c, e) /\ (c = table[msg.svc] \/ ~Referenced(c)) /\ c # Nil
  BY EngineAssumption DEF Merge
<1>3. /\ table' = [table EXCEPT ![msg.svc] = c]
      /\ heap' = [heap EXCEPT ![c] = updateService(e, msg)]
      /\ listener' = [listener EXCEPT ![x] = Nil]
      /\ sending' = sending /\ forwarding' = forwarding
      /\ ext' = ext /\ provisioned' = provisioned
  BY <1>2 DEF Spawn
<1>4. PICK g \in Handlers : ~Busy(g) /\ running' = [running EXCEPT ![g] = [entry |-> c, msg |-> msg]]
  BY <1>2 DEF Spawn
<1>5. table'[s] = table[s]
  BY <1>1, <1>3 DEF TypeOK
<1>6. table[s] # Nil => heap'[table[s]] = heap[table[s]]
  <2>1. table[s] # c
    BY <1>1, <1>2 DEF NoMixUp, Referenced
  <2>2. table[s] # Nil => table[s] \in Entries
    BY DEF TypeOK
  <2> QED
    BY <1>3, <2>1, <2>2 DEF TypeOK
<1>7. \A h \in Handlers : Carries(h, s) \/ Carries(h, s)' => running'[h] = running[h]
  BY <1>4 DEF Carries, Busy, TypeOK
<1>8. \A y \in Extensions : Hears(y, s) \/ Hears(y, s)' => listener'[y] = listener[y]
  BY <1>3 DEF Hears, TypeOK
<1> QED
  BY <1>3, <1>5, <1>6, <1>7, <1>8 DEF Untouched, SameRecord, Sends, Forwards, WorksOn

LEMMA SkipTouches ==
  ASSUME TypeOK, NEW x \in Extensions, Skip(x), NEW s \in Services, s # listener[x].msg.svc
  PROVE  Untouched(s)
<1>1. listener' = [listener EXCEPT ![x] = Nil]
      /\ UNCHANGED <<table, heap, running, sending, forwarding, ext, provisioned>>
  BY DEF Skip
<1> QED
  BY <1>1 DEF Untouched, SameRecord, Hears, Carries, Sends, Forwards, WorksOn, TypeOK

LEMMA ReplyTouches ==
  ASSUME TypeOK, NEW q \in Provisioners, Reply(q), NEW s \in Services, s # ext[q].svc
  PROVE  Untouched(s)
<1>1. PICK failed \in {ext[q].err, TRUE}, left \in Contents :
        /\ failed \/ left = Applied(ext[q])
        /\ Receive(q, [ext[q] EXCEPT !.action = ReplyAction(q, ext[q]), !.err = failed])
        /\ provisioned' = [provisioned EXCEPT ![q][ext[q].svc] = left]
  BY DEF Reply
<1>2. ext[q] \in Message /\ q \in Extensions
  BY StepSets DEF Reply, TypeOK
<1>3. \A r \in Provisioners : provisioned'[r][s] = provisioned[r][s]
  BY <1>1, <1>2 DEF TypeOK
<1>4. \A y \in Extensions : Hears(y, s) \/ Hears(y, s)' => listener'[y] = listener[y]
  <2> DEFINE m == [[ext[q] EXCEPT !.action = ReplyAction(q, ext[q]), !.err = failed] EXCEPT !.step = q]
  <2>1. listener' = [listener EXCEPT ![q] = [msg |-> m, at |-> "check"]] /\ listener[q] = Nil
    BY <1>1 DEF Receive
  <2>2. m.svc = ext[q].svc
    BY <1>2 DEF Message
  <2> HIDE DEF m
  <2> QED
    BY <2>1, <2>2 DEF Hears, TypeOK
<1>5. ext' = [ext EXCEPT ![q] = Nil] /\ UNCHANGED <<table, heap, running, sending, forwarding>>
  BY DEF Reply
<1> QED
  BY <1>3, <1>4, <1>5 DEF Untouched, SameRecord, Carries, Sends, Forwards, WorksOn, TypeOK

LEMMA HousekeeperTouches ==
  ASSUME TypeOK, NoMixUp, NEW t \in Services, TimeOut(t) \/ Remove(t),
         NEW s \in Services, s # t
  PROVE  Untouched(s)
<1>1. UNCHANGED <<listener, running, sending, forwarding, ext, provisioned>>
  BY DEF TimeOut, Remove
<1>2. table'[s] = table[s] /\ (table[s] # Nil => table[s] \in Entries)
  BY DEF TimeOut, Remove, TypeOK
<1>3. table[s] # Nil => heap'[table[s]] = heap[table[s]]
  <2>1. CASE TimeOut(t)
    <3>1. table[s] # Nil => table[s] # table[t]
      BY DEF NoMixUp
    <3> QED
      BY <1>2, <2>1, <3>1 DEF TimeOut, TypeOK
  <2>2. CASE Remove(t)
    BY <1>2, <2>2 DEF Remove, Collected, Referenced
  <2> QED
    BY <2>1, <2>2
<1> QED
  BY <1>1, <1>2, <1>3 DEF Untouched, SameRecord, Hears, Carries, Sends, Forwards, WorksOn

\* Of what is said about s nothing is new, but for a provider's word.
Fewer(s) ==
  /\ SameRecord(s)
  /\ \A m : (Asked(m, s)' => Asked(m, s)) /\ (Answered(m, s)' => Answered(m, s))
  /\ Announced(s) => Announced(s)'

LEMMA SameFewer == ASSUME NEW s \in Services, Same(s) PROVE Fewer(s)
BY DEF Same, Fewer, Announced

\* What a listener holds after it was sent a message.
LEMMA Received ==
  ASSUME TypeOK, NEW x \in Extensions, NEW msg \in Message, Receive(x, msg)
  PROVE  /\ listener[x] = Nil
         /\ listener'[x] # Nil
         /\ listener'[x].msg = [msg EXCEPT !.step = x] /\ listener'[x].at = "check"
         /\ \A y \in Extensions : y # x => listener'[y] = listener[y]
<1>1. listener' = [listener EXCEPT ![x] = [msg |-> [msg EXCEPT !.step = x], at |-> "check"]]
      /\ listener[x] = Nil
  BY DEF Receive
<1>2. [msg |-> [msg EXCEPT !.step = x], at |-> "check"] \in Jobs
  BY StepSets DEF Jobs, Message
<1> QED
  BY <1>1, <1>2, NilAssumption DEF TypeOK

\* A provider's message is not yet heard of.
LEMMA ProvideSame ==
  ASSUME TypeOK, NEW p \in ProviderSteps, NEW msg \in ProviderMessages(p),
         ProviderSend(p, msg), NEW s \in Services
  PROVE  Same(s)
<1>1. msg \in Message /\ p \in Extensions /\ p \notin Provisioners
  BY ProviderMessagesType, StepSets DEF Provisioners
<1>2. /\ listener[p] = Nil
      /\ listener'[p].msg = [msg EXCEPT !.step = p]
      /\ \A y \in Extensions : y # p => listener'[y] = listener[y]
  BY <1>1, Received DEF ProviderSend
<1>3. listener'[p].msg.step \notin Provisioners
  BY <1>1, <1>2 DEF Message
<1>4. UNCHANGED <<table, heap, running, sending, forwarding, ext, provisioned>>
  BY DEF ProviderSend
<1>5. \A m : m.step \in Provisioners => (Heard(m, s)' <=> Heard(m, s))
  BY <1>2, <1>3 DEF Heard, Hears
<1>6. \A m : (Asked(m, s)' <=> Asked(m, s)) /\ (Carried(m, s)' <=> Carried(m, s))
  BY <1>4 DEF Asked, Carried, Carries, Sends, Forwards, WorksOn
<1>7. \A m : Answered(m, s)' <=> Answered(m, s)
  BY <1>5, <1>6 DEF Answered
<1>8. Taken(s) => Taken(s)'
  BY <1>4, <1>7 DEF Taken, WorksOn
<1> QED
  BY <1>4, <1>6, <1>7, <1>8 DEF Same, SameRecord

LEMMA CheckSame ==
  ASSUME TypeOK, NEW x \in Extensions, Check(x), NEW s \in Services
  PROVE  Same(s)
<1>1. PICK place \in {"merge", "skip"} : listener' = [listener EXCEPT ![x].at = place]
  BY DEF Check
<1>2. listener[x] \in Jobs
  BY DEF Check, TypeOK
<1>3. /\ listener'[x] \in Jobs /\ listener'[x].msg = listener[x].msg
      /\ \A y \in Extensions : y # x => listener'[y] = listener[y]
  BY <1>1, <1>2 DEF Jobs, TypeOK
<1>4. listener'[x] # Nil /\ listener[x] # Nil
  BY <1>2, <1>3, NilAssumption
<1>5. \A m : Heard(m, s)' <=> Heard(m, s)
  BY <1>3, <1>4 DEF Heard, Hears
<1>6. UNCHANGED <<table, heap, running, sending, forwarding, ext, provisioned>>
  BY DEF Check
<1>7. \A m : (Asked(m, s)' <=> Asked(m, s)) /\ (Carried(m, s)' <=> Carried(m, s))
  BY <1>6 DEF Asked, Carried, Carries, Sends, Forwards, WorksOn
<1>8. \A m : Answered(m, s)' <=> Answered(m, s)
  BY <1>5, <1>7 DEF Answered
<1>9. Taken(s) => Taken(s)'
  BY <1>6, <1>8 DEF Taken, WorksOn
<1> QED
  BY <1>6, <1>7, <1>8, <1>9 DEF Same, SameRecord

\* A request is passed on.
LEMMA TakeSame ==
  ASSUME TypeOK, NEW h \in Handlers, TakeRequest(h), NEW s \in Services
  PROVE  Same(s)
<1>1. /\ sending[h] # Nil /\ forwarding = Nil /\ forwarding' = sending[h]
      /\ sending'[h] = Nil
      /\ \A g \in Handlers : g # h => sending'[g] = sending[g]
      /\ UNCHANGED <<table, heap, listener, running, ext, provisioned>>
  BY DEF TakeRequest, TypeOK
<1>2. \A m : Asked(m, s)' <=> Asked(m, s)
  BY <1>1 DEF Asked, Sends, Forwards, WorksOn
<1>3. \A m : /\ Carried(m, s)' <=> Carried(m, s)
             /\ Answered(m, s)' <=> Answered(m, s)
  BY <1>1 DEF Carried, Carries, Answered, Heard, Hears
<1>4. Taken(s) => Taken(s)'
  BY <1>1, <1>3 DEF Taken, WorksOn
<1> QED
  BY <1>1, <1>2, <1>3, <1>4 DEF Same, SameRecord

\* It is taken by its extension, or lost when it was meant for an end of the workflow.
LEMMA ForwardSame ==
  ASSUME TypeOK, Forward, NEW s \in Services
  PROVE  /\ Fewer(s)
         /\ (Forwards(s) => forwarding.step \in Provisioners) => Same(s)
<1> DEFINE q == forwarding.step
<1>1. forwarding # Nil /\ forwarding' = Nil
      /\ UNCHANGED <<table, heap, listener, running, sending, provisioned>>
  BY DEF Forward
<1>2. \/ q \in Provisioners /\ ext[q] = Nil /\ ext'[q] = forwarding
         /\ \A r \in Provisioners : r # q => ext'[r] = ext[r]
      \/ q \in EndStates /\ ext' = ext
  BY DEF Forward, TypeOK
<1>3. \A m : /\ Carried(m, s)' <=> Carried(m, s)
             /\ Answered(m, s)' <=> Answered(m, s)
  BY <1>1 DEF Carried, Carries, Answered, Heard, Hears
<1>4. \A m : Asked(m, s)' => Asked(m, s)
  BY <1>1, <1>2 DEF Asked, Sends, Forwards, WorksOn
<1>5. ASSUME Forwards(s) => q \in Provisioners
      PROVE  \A m : Asked(m, s) => Asked(m, s)'
  BY <1>1, <1>2, <1>5, StepSets DEF Asked, Sends, Forwards, WorksOn
<1>6. \A r \in Provisioners : WorksOn(r, s) => WorksOn(r, s)'
  BY <1>1, <1>2 DEF WorksOn
<1>7. Taken(s) => Taken(s)'
  BY <1>3, <1>6 DEF Taken
<1>8. Announced(s) => Announced(s)'
  BY <1>3 DEF Announced
<1> QED
  BY <1>1, <1>3, <1>4, <1>5, <1>7, <1>8 DEF Same, Fewer, SameRecord

\* The steps of a shutdown do not touch the engine.
LEMMA StillSame ==
  ASSUME UNCHANGED vars, NEW s \in Services
  PROVE  Same(s)
BY DEF vars, Same, SameRecord, Asked, Carried, Answered, Heard, Taken, Hears, Carries, Sends,
       Forwards, WorksOn

-----------------------------------------------------------------------------
(* Where the messages are. *)

\* A handler about to run has the entry of its service, unless that was removed
\* meanwhile; an extension has what was meant for it.
InPlace ==
  /\ \A s \in Services, h \in Handlers : Carries(h, s) =>
       table[s] \in {running[h].entry, Nil} /\ running[h].msg.step \in Extensions
  /\ \A q \in Provisioners : ext[q] # Nil => ext[q].step = q

LEMMA MergeInPlace ==
  ASSUME TypeOK, NoMixUp, OneAtATime, InPlace, NEW x \in Extensions, Merge(x)
  PROVE  InPlace'
<1> DEFINE msg == listener[x].msg
           svc == msg.svc
<1>1. msg \in Message /\ svc \in Services /\ msg.step = x /\ Hears(x, svc)
  BY DEF Merge, TypeOK, Jobs, Message, NoMixUp, Hears
<1>2. PICK c, e : Spawn(x, c, e)
  BY DEF Merge
<1>3. table'[svc] = c /\ ext' = ext
  BY <1>1, <1>2 DEF Spawn, TypeOK
<1>4. PICK g \in Handlers : ~Busy(g) /\ running' = [running EXCEPT ![g] = [entry |-> c, msg |-> msg]]
  BY <1>2 DEF Spawn
<1>5. \A h \in Handlers : ~Carries(h, svc)
  BY <1>1, AloneListener DEF Carried
<1>6. ASSUME NEW s \in Services, NEW h \in Handlers, Carries(h, s)'
      PROVE  table'[s] \in {running'[h].entry, Nil} /\ running'[h].msg.step \in Extensions
  <2>1. CASE s = svc
    <3>1. h = g
      BY <1>4, <1>5, <1>6, <2>1 DEF Carries, TypeOK
    <3> QED
      BY <1>1, <1>3, <1>4, <2>1, <3>1 DEF TypeOK
  <2>2. CASE s # svc
    <3>1. Untouched(s)
      BY <2>2, MergeTouches
    <3> QED
      BY <1>6, <3>1 DEF Untouched, SameRecord, Carries, InPlace
  <2> QED
    BY <2>1, <2>2
<1> QED
  BY <1>3, <1>6 DEF InPlace

\* Nobody but a listener gives a handler a task.
LEMMA HandlersInPlace ==
  ASSUME TypeOK, InPlace,
         \A s \in Services : table'[s] \in {table[s], Nil},
         \A h \in Handlers : running'[h] \in {running[h], Nil},
         \A q \in Provisioners : ext'[q] # Nil => ext'[q].step = q
  PROVE  InPlace'
BY DEF InPlace, Carries

LEMMA EngineInPlace ==
  ASSUME TypeOK, NoMixUp, OneAtATime, InPlace, [Next]_vars
  PROVE  InPlace'
<1>1. CASE SomeProviderSends
  BY <1>1, HandlersInPlace DEF SomeProviderSends, ProviderSend, InPlace
<1>2. ASSUME NEW x \in Extensions, Check(x) \/ Skip(x) PROVE InPlace'
  BY <1>2, HandlersInPlace DEF Check, Skip, InPlace
<1>3. ASSUME NEW h \in Handlers, Execute(h) PROVE InPlace'
  <2>1. PICK e : Finish(h, e) \/ sendToExtension(h, e)
    BY <1>3, ExecuteEnds
  <2>2. table' = table /\ ext' = ext /\ running' = [running EXCEPT ![h] = Nil]
    BY <2>1 DEF Finish, sendToExtension
  <2> QED
    BY <2>2, HandlersInPlace DEF InPlace, TypeOK
<1>4. ASSUME NEW h \in Handlers, TakeRequest(h) PROVE InPlace'
  BY <1>4, HandlersInPlace DEF TakeRequest, InPlace
<1>5. CASE Forward
  <2>1. \A q \in Provisioners : ext'[q] # Nil => ext'[q].step = q
    BY <1>5 DEF Forward, TypeOK, InPlace
  <2> QED
    BY <1>5, <2>1, HandlersInPlace DEF Forward
<1>6. ASSUME NEW q \in Provisioners, Reply(q) \/ ReplyAliasError(q) PROVE InPlace'
  <2>1. \A r \in Provisioners : ext'[r] # Nil => ext'[r].step = r
    <3>1. ASSUME NEW r \in Provisioners, ext'[r] # Nil PROVE ext'[r].step = ext[r].step /\ ext[r] # Nil
      BY <1>6, <3>1 DEF Reply, ReplyAliasError, TypeOK, Message
    <3> QED
      BY <3>1 DEF InPlace
  <2> QED
    BY <1>6, <2>1, HandlersInPlace DEF Reply, ReplyAliasError
<1>7. ASSUME NEW s \in Services, TimeOut(s) \/ Remove(s) PROVE InPlace'
  BY <1>7, HandlersInPlace DEF TimeOut, Remove, InPlace, TypeOK
<1>8. CASE UNCHANGED vars
  BY <1>8, HandlersInPlace DEF vars, InPlace
<1> QED
  BY <1>1, <1>2, <1>3, <1>4, <1>5, <1>6, <1>7, <1>8, MergeInPlace DEF Next

LEMMA RestartsInPlace ==
  ASSUME RestartsTypeOK, NoMixUp, OneAtATime, InPlace, [RestartsNext]_allVars
  PROVE  InPlace'
<1>1. CASE [Next]_vars
  BY <1>1, EngineInPlace DEF RestartsTypeOK
<1>2. CASE Write \/ Kill
  <2>1. PICK image \in Images : Start(image)
    BY <1>2, ImageType DEF Write, Kill, RestartsTypeOK
  <2> QED
    BY <2>1, Started DEF InPlace, Carries
<1> QED
  BY <1>1, <1>2, EngineSteps

\* Nobody has a message about s; or m is the only one, and it is a request.
Silent(s) == \A m : ~Asked(m, s) /\ ~Carried(m, s) /\ ~Answered(m, s)

OnlyAsked(m, s) ==
  \A n : (Asked(n, s) <=> n = m) /\ ~Carried(n, s) /\ ~Answered(n, s)

\* What a handler leaves, for its service.
LEMMA HandlerEnded ==
  ASSUME TypeOK, NoMixUp, OneAtATime, InPlace, NEW h \in Handlers, running[h] # Nil,
         NEW e \in Resting, Finish(h, e),
         NEW s \in Services, s = running[h].msg.svc
  PROVE  /\ table' = table /\ provisioned' = provisioned
         /\ table[s] # Nil => heap'[table[s]] = e
         /\ Silent(s)'
<1>1. Carries(h, s) /\ sending[h] = Nil
  BY DEF Carries, NoMixUp
<1>2. /\ table' = table /\ provisioned' = provisioned /\ listener' = listener
      /\ sending' = sending /\ forwarding' = forwarding /\ ext' = ext
      /\ running' = [running EXCEPT ![h] = Nil]
      /\ heap' = Collected([heap EXCEPT ![running[h].entry] = e])
  BY DEF Finish
<1>3. table[s] # Nil => heap'[table[s]] = e
  <2>1. table[s] # Nil => table[s] = running[h].entry /\ table[s] \in Entries
    BY <1>1 DEF InPlace, TypeOK
  <2>2. table[s] # Nil => Referenced(table[s])'
    BY <1>2 DEF Referenced
  <2> QED
    BY <1>2, <2>1, <2>2 DEF Collected, TypeOK
<1>4. \A m : ~Asked(m, s) /\ ~Heard(m, s)
  BY <1>1, AloneCarrier
<1>5. \A g \in Handlers : Carries(g, s) => g = h
  BY <1>1, Alone DEF InHand
<1>6. \A m : ~Asked(m, s)' /\ ~Heard(m, s)'
  BY <1>2, <1>4 DEF Asked, Heard, Hears, Sends, Forwards, WorksOn
<1>7. \A g \in Handlers : ~Carries(g, s)'
  BY <1>2, <1>5 DEF Carries, TypeOK
<1> QED
  BY <1>2, <1>3, <1>6, <1>7 DEF Silent, Carried, Answered

LEMMA HandlerSent ==
  ASSUME TypeOK, NoMixUp, OneAtATime, InPlace, NEW h \in Handlers, running[h] # Nil,
         NEW e \in Resting, sendToExtension(h, e),
         NEW s \in Services, s = running[h].msg.svc,
         NEW m, m = BuildMessage(s, e)
  PROVE  /\ table' = table /\ provisioned' = provisioned
         /\ table[s] # Nil => heap'[table[s]] = [e EXCEPT !.wip = TRUE]
         /\ OnlyAsked(m, s)'
<1>1. Carries(h, s) /\ sending[h] = Nil
  BY DEF Carries, NoMixUp
<1>2. /\ table' = table /\ provisioned' = provisioned /\ listener' = listener
      /\ forwarding' = forwarding /\ ext' = ext
      /\ running' = [running EXCEPT ![h] = Nil]
      /\ sending' = [sending EXCEPT ![h] = m]
      /\ heap' = Collected([heap EXCEPT ![running[h].entry] = [e EXCEPT !.wip = TRUE]])
  BY DEF sendToExtension
<1>3. table[s] # Nil => heap'[table[s]] = [e EXCEPT !.wip = TRUE]
  <2>1. table[s] # Nil => table[s] = running[h].entry /\ table[s] \in Entries
    BY <1>1 DEF InPlace, TypeOK
  <2>2. table[s] # Nil => Referenced(table[s])'
    BY <1>2 DEF Referenced
  <2> QED
    BY <1>2, <2>1, <2>2 DEF Collected, TypeOK
<1>4. \A n : ~Asked(n, s) /\ ~Heard(n, s)
  BY <1>1, AloneCarrier
<1>5. \A g \in Handlers : InHand(g, s) => g = h
  BY <1>1, Alone DEF InHand
<1>6. \A n : ~Heard(n, s)'
  BY <1>2, <1>4 DEF Heard, Hears
<1>7. \A g \in Handlers : ~Carries(g, s)'
  BY <1>2, <1>5 DEF Carries, InHand, TypeOK
<1>8. m # Nil /\ m.svc = s
  <2>1. m \in Message
    BY BuildMessageType
  <2> QED
    BY <2>1, NilAssumption DEF BuildMessage
<1>9. \A n : Asked(n, s)' <=> n = m
  <2>1. sending'[h] = m /\ \A g \in Handlers : g # h => sending'[g] = sending[g]
    BY <1>2 DEF TypeOK
  <2>2. \A g \in Handlers : Sends(g, s)' <=> g = h
    BY <1>5, <1>8, <2>1 DEF Sends, InHand
  <2>3. ~Forwards(s)' /\ \A q \in Provisioners : ~WorksOn(q, s)'
    BY <1>2, <1>4 DEF Asked, Forwards, WorksOn
  <2> QED
    BY <2>1, <2>2, <2>3 DEF Asked
<1> QED
  BY <1>2, <1>3, <1>6, <1>7, <1>9 DEF OnlyAsked, Carried, Answered

-----------------------------------------------------------------------------
(* What is shown as deployed is provisioned. *)

Live(e) == ~e.error /\ e.expected = Deployed

\* Request m is that of the step e is at; answer m is that to it, and a good one.
Matches(m, e) == e.wip /\ m.step = e.state /\ m.action = "add" /\ m.def = e.def

Completes(m, e) == e.wip /\ m.step = e.state /\ ~m.err

\* A service on its way to "deployed" has been provisioned up to the step its entry is
\* at, with what the entry holds now: a new definition takes it back to the step
\* of the provider, and only good answers take it forward.
OnCourse(s) ==
  table[s] # Nil /\ Live(heap[table[s]]) /\ ~Announced(s) =>
    LET e == heap[table[s]]
    IN  /\ \A q \in Provisioners : q < e.state => provisioned[q][s] = e.def
        /\ \A m \in Message : Asked(m, s) => Matches(m, e)
        /\ \A m \in Message : Answered(m, s) /\ Completes(m, e) =>
             provisioned[m.step][s] = e.def

\* The invariant in the next state, of entry e.
LEMMA OnCourseNext ==
  ASSUME NEW s \in Services, NEW e, table'[s] # Nil => heap'[table'[s]] = e,
         table'[s] # Nil /\ Live(e) /\ ~Announced(s)' =>
           /\ \A q \in Provisioners : q < e.state => provisioned'[q][s] = e.def
           /\ \A m \in Message : Asked(m, s)' => Matches(m, e)
           /\ \A m \in Message : Answered(m, s)' /\ Completes(m, e) =>
                provisioned'[m.step][s] = e.def
  PROVE  OnCourse(s)'
BY DEF OnCourse, Live, Matches, Completes

LEMMA FewerOnCourse ==
  ASSUME NEW s \in Services, OnCourse(s), Fewer(s)
  PROVE  OnCourse(s)'
<1> DEFINE e == heap[table[s]]
<1>1. table'[s] = table[s] /\ (table[s] # Nil => heap'[table'[s]] = e)
  BY DEF Fewer, SameRecord
<1>2. ASSUME table[s] # Nil, Live(e), ~Announced(s)'
      PROVE  /\ \A q \in Provisioners : q < e.state => provisioned[q][s] = e.def
             /\ \A m \in Message : Asked(m, s) => Matches(m, e)
             /\ \A m \in Message : Answered(m, s) /\ Completes(m, e) => provisioned[m.step][s] = e.def
  BY <1>2 DEF OnCourse, Fewer
<1> HIDE DEF e
<1>3. table'[s] # Nil /\ Live(e) /\ ~Announced(s)' =>
        /\ \A q \in Provisioners : q < e.state => provisioned'[q][s] = e.def
        /\ \A m \in Message : Asked(m, s)' => Matches(m, e)
        /\ \A m \in Message : Answered(m, s)' /\ Completes(m, e) => provisioned'[m.step][s] = e.def
  BY <1>1, <1>2 DEF Fewer, SameRecord, Answered
<1> QED
  BY <1>1, <1>3, OnCourseNext

\* There is nothing to say of an entry that is in error, or turned back, or gone, nor
\* before the handler of a provider's message has run.
LEMMA OffCourse ==
  ASSUME NEW s \in Services,
         table'[s] # Nil => heap'[table'[s]].error \/ heap'[table'[s]].expected = Undeployed
                            \/ Announced(s)'
  PROVE  OnCourse(s)'
BY StepSets DEF OnCourse, Live

\* A request is sent for an entry that is provisioned up to its step.
LEMMA SentOnCourse ==
  ASSUME TypeOK, NoMixUp, OneAtATime, InPlace, NEW h \in Handlers, running[h] # Nil,
         NEW e \in Resting, sendToExtension(h, e),
         NEW s \in Services, s = running[h].msg.svc,
         table[s] # Nil /\ Live(e) =>
           \A q \in Provisioners : q < e.state => provisioned[q][s] = e.def
  PROVE  OnCourse(s)'
<1> DEFINE f == [e EXCEPT !.wip = TRUE]
<1>1. /\ f.state = e.state /\ f.expected = e.expected /\ f.error = e.error
      /\ f.def = e.def /\ f.wip = TRUE
  BY RestingEntry DEF Entry
<1> PICK m : m = BuildMessage(s, e)
  OBVIOUS
<1>2. /\ table' = table /\ provisioned' = provisioned
      /\ table[s] # Nil => heap'[table[s]] = [e EXCEPT !.wip = TRUE]
      /\ OnlyAsked(m, s)'
  BY HandlerSent
<1>3. Live(e) => Matches(m, f)
  BY <1>1, StepSets DEF Live, Matches, BuildMessage, isReverse
<1>4. Live(f) <=> Live(e)
  BY <1>1 DEF Live
<1>5. table'[s] # Nil => heap'[table'[s]] = f
  BY <1>2
<1> HIDE DEF f
<1>6. table'[s] # Nil /\ Live(f) /\ ~Announced(s)' =>
        /\ \A q \in Provisioners : q < f.state => provisioned'[q][s] = f.def
        /\ \A n \in Message : Asked(n, s)' => Matches(n, f)
        /\ \A n \in Message : Answered(n, s)' /\ Completes(n, f) => provisioned'[n.step][s] = f.def
  BY <1>1, <1>2, <1>3, <1>4 DEF OnlyAsked
<1> QED
  BY <1>5, <1>6, OnCourseNext

\* An announcement asks the next provisioner of the workflow.
LEMMA AddGoes ==
  ASSUME EndsWithProvisioner, TypeOK, NEW h \in Handlers, ExecuteAdd(h)
  PROVE  /\ running[h] # Nil /\ running[h].msg.step \in ProviderSteps
         /\ \E e \in Resting : /\ sendToExtension(h, e)
                               /\ e.state \in Provisioners
                               /\ e.state = getNextStep(running[h].msg.step, FALSE)
                               /\ e.expected = Deployed
<1> DEFINE f == setState([heap[running[h].entry] EXCEPT !.expected = Deployed], running[h].msg)
           p == running[h].msg.step
           e == setNextStep(f)
<1>1. running[h] # Nil /\ p \in ProviderSteps
  BY DEF ExecuteAdd, Runs
<1>2. heap[running[h].entry] \in Resting /\ running[h].msg \in Message
  BY <1>1, TaskTypes
<1>3. f \in Entry /\ f.state = p /\ f.expected = Deployed
  <2>1. [heap[running[h].entry] EXCEPT !.expected = Deployed].expected = Deployed
    BY <1>2, RestingEntry DEF Entry
  <2>2. f \in Entry
    BY <1>2, EntryTypes
  <2>3. [heap[running[h].entry] EXCEPT !.expected = Deployed] \in Entry
    BY <1>2, RestingEntry, StepSets DEF Entry
  <2> QED
    BY <2>1, <2>2, <2>3 DEF setState, Entry
<1>4. isReverse(f) = FALSE
  BY <1>3, StepSets DEF isReverse
<1>5. PICK q \in Provisioners : p < q
  BY <1>1 DEF EndsWithProvisioner
<1>6. HasNextStep(p, FALSE) /\ getNextStep(p, FALSE) \in Provisioners
  BY <1>1, <1>5, StepSets, ProvisionerAhead
<1>7. Proceed(h, e)
  BY <1>2, NeverIgnored
<1> HIDE DEF f
<1>8. e.state = getNextStep(p, FALSE) /\ e.expected = Deployed
  BY <1>3, <1>4, <1>6, NextEntry
<1>9. e \in Resting
  BY <1>3, SetNextStepType
<1>10. sendToExtension(h, e)
  BY <1>6, <1>7, <1>8, StepSets DEF Proceed
<1> QED
  BY <1>1, <1>6, <1>8, <1>9, <1>10

\* The announcement that a service is gone turns its entry back.
LEMMA DeleteGoes ==
  ASSUME EndsWithProvisioner, TypeOK, NEW h \in Handlers, ExecuteDelete(h)
  PROVE  /\ running[h] # Nil /\ running[h].msg.step \in ProviderSteps
         /\ LET g == heap[running[h].entry]
            IN  \E e \in Resting :
                  /\ e.expected = Undeployed
                  /\ \/ Finish(h, e) /\ e.state = Undeployed /\ ~e.wip
                     \/ sendToExtension(h, e) /\ e.state \in Provisioners
                  /\ ~g.wip => HasNextStep(g.state, TRUE) /\ e.state = getNextStep(g.state, TRUE)
<1> DEFINE g == heap[running[h].entry]
           turned == TurnBack(g)
           next == setNextStep(turned)
           done == close(next, running[h].msg.err)
<1>1. running[h] # Nil /\ running[h].msg.step \in ProviderSteps
  BY DEF ExecuteDelete, Runs
<1>2. g \in Resting /\ g \in Entry /\ running[h].msg.err \in BOOLEAN
  BY <1>1, TaskTypes, RestingEntry
<1>3. turned \in Entry /\ turned.state \in StepIds /\ turned.expected = Undeployed
  <2>1. turned \in Entry
    BY <1>2, TurnBackType, RestingEntry
  <2>2. setNextStep(g) \in Entry
    BY <1>2, SetNextStepType, RestingEntry
  <2>3. turned.expected = Undeployed
    BY <1>2, <2>2 DEF TurnBack, Entry
  <2> QED
    BY <2>1, <2>3 DEF Entry
<1>4. isReverse(turned) = TRUE
  BY <1>3 DEF isReverse
<1>5. HasNextStep(turned.state, TRUE) /\ Proceed(h, next)
  BY DEF ExecuteDelete
<1>6. ~g.wip => turned.state = g.state
  BY <1>2 DEF TurnBack, Entry
<1> HIDE DEF turned
<1>7. next.state = getNextStep(turned.state, TRUE) /\ next.expected = Undeployed
  BY <1>3, <1>4, <1>5, NextEntry
<1>8. next.state \in Provisioners \cup {Undeployed}
  BY <1>3, <1>5, <1>7, StepBehind
<1>9. next \in Resting /\ next \in Entry
  BY <1>3, SetNextStepType, RestingEntry
<1>10. ~g.wip => HasNextStep(g.state, TRUE) /\ next.state = getNextStep(g.state, TRUE)
  BY <1>5, <1>6, <1>7
<1> HIDE DEF next
<1>11. CASE next.state \in Provisioners
  <2>1. sendToExtension(h, next)
    BY <1>5, <1>11, StepSets DEF Proceed
  <2> QED
    BY <1>1, <1>7, <1>9, <1>10, <1>11, <2>1
<1>12. CASE next.state = Undeployed
  <2>1. Finish(h, done)
    BY <1>5, <1>12, StepSets DEF Proceed
  <2>2. done \in Resting
    BY <1>2, <1>9, CloseType
  <2>3. done.expected = Undeployed /\ done.state = Undeployed /\ ~done.wip
    BY <1>7, <1>9, StepSets DEF close, Entry, isReverse
  <2> HIDE DEF done
  <2> QED
    BY <1>1, <1>10, <1>12, <2>1, <2>2, <2>3
<1> QED
  BY <1>8, <1>11, <1>12

LEMMA AddOnCourse ==
  ASSUME EndsWithProvisioner,
         ProvidersFirst, TypeOK, NoMixUp, OneAtATime, InPlace, NEW h \in Handlers, ExecuteAdd(h),
         NEW s \in Services, s = running[h].msg.svc
  PROVE  OnCourse(s)'
<1> DEFINE p == running[h].msg.step
<1>1. running[h] # Nil /\ p \in ProviderSteps
  BY AddGoes
<1>2. PICK e \in Resting : sendToExtension(h, e) /\ e.state = getNextStep(p, FALSE)
                           /\ e.state \in Provisioners
  BY AddGoes
<1>3. ASSUME NEW q \in Provisioners, q < e.state PROVE FALSE
  <2>1. p < q
    BY <1>1 DEF ProvidersFirst
  <2>2. p \in StepIds /\ q \in StepIds \ ProviderSteps /\ e.state \in StepIds
    BY <1>1, <1>2, StepSets DEF Provisioners
  <2>3. p \in Int /\ q \in Int /\ e.state \in Int
    BY <2>2, StepOrder
  <2>4. q \in StepsAhead(p, FALSE)
    BY <2>1, <2>2, <2>3 DEF StepsAhead
  <2>5. e.state <= q
    BY <1>2, <2>2, <2>4, NextStepIsNearest
  <2> QED
    BY <1>3, <2>3, <2>5
<1> QED
  BY <1>1, <1>2, <1>3, SentOnCourse

LEMMA DeleteOnCourse ==
  ASSUME EndsWithProvisioner, TypeOK, NoMixUp, OneAtATime, InPlace, NEW h \in Handlers,
         ExecuteDelete(h) \/ RecurseDelete(h),
         NEW s \in Services, s = running[h].msg.svc
  PROVE  OnCourse(s)'
<1>1. PICK e \in Resting : /\ running[h] # Nil /\ e.expected = Undeployed
                           /\ Finish(h, e) \/ sendToExtension(h, e)
  <2>1. CASE ExecuteDelete(h)
    BY <2>1, DeleteGoes
  <2>2. CASE RecurseDelete(h)
    <3> DEFINE g == heap[running[h].entry]
    <3>1. running[h] # Nil /\ Finish(h, TurnBack(g))
      BY <2>2 DEF RecurseDelete, Runs
    <3>2. g \in Resting /\ g \in Entry
      BY <3>1, TaskTypes, RestingEntry
    <3>3. setNextStep(g) \in Entry /\ TurnBack(g) \in Resting
      BY <3>2, SetNextStepType, TurnBackType, RestingEntry
    <3>4. TurnBack(g).expected = Undeployed
      BY <3>2, <3>3 DEF TurnBack, Entry
    <3> QED
      BY <3>1, <3>3, <3>4
  <2> QED
    BY <2>1, <2>2
<1>2. table'[s] # Nil => heap'[table'[s]].expected = Undeployed
  <2>1. CASE Finish(h, e)
    BY <1>1, <2>1, HandlerEnded
  <2>2. CASE sendToExtension(h, e)
    <3>1. table' = table /\ (table[s] # Nil => heap'[table[s]] = [e EXCEPT !.wip = TRUE])
      BY <1>1, <2>2, HandlerSent
    <3>2. [e EXCEPT !.wip = TRUE].expected = Undeployed
      BY <1>1, RestingEntry DEF Entry
    <3> QED
      BY <3>1, <3>2
  <2> QED
    BY <1>1, <2>1, <2>2
<1> QED
  BY <1>2, OffCourse

LEMMA EndedOnCourse ==
  ASSUME TypeOK, NoMixUp, OneAtATime, InPlace, NEW h \in Handlers, running[h] # Nil,
         NEW e \in Resting, Finish(h, e),
         NEW s \in Services, s = running[h].msg.svc,
         table[s] # Nil /\ Live(e) =>
           \A q \in Provisioners : q < e.state => provisioned[q][s] = e.def
  PROVE  OnCourse(s)'
<1>1. /\ table' = table /\ provisioned' = provisioned
      /\ table[s] # Nil => heap'[table[s]] = e
      /\ Silent(s)'
  BY HandlerEnded
<1>2. table'[s] # Nil => heap'[table'[s]] = e
  BY <1>1
<1>3. table'[s] # Nil /\ Live(e) /\ ~Announced(s)' =>
        /\ \A q \in Provisioners : q < e.state => provisioned'[q][s] = e.def
        /\ \A n \in Message : Asked(n, s)' => Matches(n, e)
        /\ \A n \in Message : Answered(n, s)' /\ Completes(n, e) => provisioned'[n.step][s] = e.def
  BY <1>1 DEF Silent
<1> QED
  BY <1>2, <1>3, OnCourseNext

\* An answer does not change the definition.
LEMMA AnswerKeepsEntry ==
  ASSUME NEW e, NEW msg, msg.step \in Provisioners
  PROVE  updateService(e, msg) = e
BY DEF updateService, Provisioners

\* The next step of a deployment: nothing is between the two.
LEMMA NextOfDeployment ==
  ASSUME NEW e \in Resting, e.state \in Provisioners, isReverse(e) = FALSE
  PROVE  \A q \in Provisioners : q < setNextStep(e).state => q < e.state \/ q = e.state
<1> DEFINE n == getNextStep(e.state, FALSE)
<1>1. e \in Entry /\ e.state \in StepIds /\ e.state # Deployed
  BY StepSets, RestingEntry
<1>2. HasNextStep(e.state, FALSE)
  BY <1>1, NextStepExists
<1>3. setNextStep(e).state = n
  BY <1>1, <1>2, NextEntry
<1>4. n \in StepIds
  BY <1>1, <1>2, NextStepIsAhead
<1> SUFFICES ASSUME NEW q \in Provisioners, q < n, ~(q < e.state), q # e.state PROVE FALSE
  BY <1>3
<1>5. q \in StepIds \ ProviderSteps
  BY StepSets DEF Provisioners
<1>6. q \in Int /\ e.state \in Int /\ n \in Int
  BY <1>1, <1>4, <1>5, StepOrder
<1>7. q > e.state
  BY <1>6
<1>8. q \in StepsAhead(e.state, FALSE)
  BY <1>5, <1>7 DEF StepsAhead
<1>9. n <= q
  BY <1>1, <1>8, NextStepIsNearest
<1> HIDE DEF n
<1> QED
  BY <1>6, <1>9

\* What a handler knows when it runs an answer.
LEMMA AnswerInHand ==
  ASSUME TypeOK, NoMixUp, OneAtATime, InPlace, NEW h \in Handlers, ExecuteReply(h),
         NEW s \in Services, s = running[h].msg.svc
  PROVE  /\ running[h] # Nil /\ running[h].msg \in Message
         /\ running[h].msg.step \in Provisioners
         /\ heap[running[h].entry] \in Resting
         /\ table[s] # Nil => table[s] = running[h].entry
         /\ Carried(running[h].msg, s) /\ Answered(running[h].msg, s) /\ ~Announced(s)
<1>1. running[h] # Nil /\ running[h].msg.step \in Provisioners
  BY DEF ExecuteReply, Runs
<1>2. Carries(h, s) /\ sending[h] = Nil
  BY <1>1 DEF Carries, NoMixUp
<1>3. \A m : Carried(m, s) <=> m = running[h].msg
  BY <1>2, AloneCarrier
<1>4. running[h].msg \in Message /\ heap[running[h].entry] \in Resting
  BY <1>1, TaskTypes
<1> QED
  BY <1>1, <1>2, <1>3, <1>4 DEF InPlace, Answered, Announced, Provisioners

LEMMA AnswerOnCourse ==
  ASSUME TypeOK, NoMixUp, OneAtATime, InPlace, NEW h \in Handlers, ExecuteReply(h),
         NEW s \in Services, s = running[h].msg.svc, OnCourse(s)
  PROVE  OnCourse(s)'
<1> DEFINE e == heap[running[h].entry]
           msg == running[h].msg
           next == setNextStep(e)
<1>1. /\ running[h] # Nil /\ msg \in Message /\ msg.step \in Provisioners
      /\ e \in Resting /\ e \in Entry
      /\ table[s] # Nil => table[s] = running[h].entry
      /\ Answered(msg, s) /\ ~Announced(s)
  BY AnswerInHand, RestingEntry
<1>2. table[s] # Nil /\ Live(e) =>
        /\ \A q \in Provisioners : q < e.state => provisioned[q][s] = e.def
        /\ Completes(msg, e) => provisioned[msg.step][s] = e.def
  BY <1>1 DEF OnCourse
<1>3. updateService(e, msg) = e
  BY <1>1, AnswerKeepsEntry
<1>4. CASE Finish(h, e)
  BY <1>1, <1>2, <1>4, EndedOnCourse
<1>5. CASE Finish(h, Failed(e))
  <2>1. Failed(e) \in Resting /\ ~Live(Failed(e))
    BY <1>1, EntryTypes DEF Failed, Live, Entry
  <2> QED
    BY <1>1, <1>5, <2>1, EndedOnCourse
<1>6. CASE sendToExtension(h, e)
  BY <1>1, <1>2, <1>6, SentOnCourse
<1>7. CASE e.wip /\ msg.step = e.state /\ ~msg.err
           /\ IF isLastStep(next.state, isReverse(next))
              THEN Finish(h, close(next, msg.err)) ELSE sendToExtension(h, next)
  <2>1. /\ next \in Resting /\ next \in Entry
        /\ next.expected = e.expected /\ next.error = e.error /\ next.def = e.def
    <3>1. next \in Resting
      BY <1>1, SetNextStepType
    <3>2. next.expected = e.expected /\ next.error = e.error /\ next.def = e.def
      BY <1>1 DEF setNextStep, Entry
    <3> QED
      BY <3>1, <3>2, RestingEntry
  <2>2. ASSUME Live(next) PROVE Live(e) /\ isReverse(e) = FALSE /\ isReverse(next) = FALSE
    BY <2>1, <2>2, StepSets DEF Live, isReverse
  <2>3. ASSUME table[s] # Nil, Live(next), NEW q \in Provisioners, q < next.state
        PROVE  provisioned[q][s] = next.def
    <3>1. q < e.state \/ q = e.state
      BY <1>1, <1>7, <2>2, <2>3, NextOfDeployment
    <3>2. Completes(msg, e) /\ Live(e)
      BY <1>7, <2>2, <2>3 DEF Completes
    <3> QED
      BY <1>2, <1>7, <2>1, <2>3, <3>1, <3>2
  <2> HIDE DEF next
  <2>4. CASE isLastStep(next.state, isReverse(next))
    <3> DEFINE f == close(next, msg.err)
    <3>1. Finish(h, f)
      BY <1>7, <2>4
    <3>2. msg.err = FALSE
      BY <1>1, <1>7 DEF Message
    <3>3. f \in Resting /\ f.expected = next.expected /\ f.def = next.def /\ f.error = next.error
      BY <2>1, <3>2, CloseType DEF close, Entry
    <3>4. ASSUME Live(f) PROVE Live(next) /\ f.state = next.state
      <4>1. Live(next)
        BY <3>3, <3>4 DEF Live
      <4>2. isReverse(next) = FALSE /\ next.state = Deployed
        BY <2>2, <2>4, <4>1 DEF isLastStep
      <4>3. f.state = Deployed
        BY <2>1, <4>2 DEF close, Entry
      <4> QED
        BY <4>1, <4>2, <4>3
    <3> HIDE DEF f
    <3> QED
      BY <1>1, <2>3, <3>1, <3>3, <3>4, EndedOnCourse
  <2>5. CASE ~isLastStep(next.state, isReverse(next))
    BY <1>1, <1>7, <2>1, <2>3, <2>5, SentOnCourse
  <2> QED
    BY <2>4, <2>5
<1> QED
  BY <1>3, <1>4, <1>5, <1>6, <1>7 DEF ExecuteReply

\* The listener gives a handler its message: nobody else has one.
OnlyCarried(m, s) ==
  \A n : ~Asked(n, s) /\ ~Heard(n, s) /\ (Carried(n, s) <=> n = m)

LEMMA Merged ==
  ASSUME TypeOK, NoMixUp, OneAtATime, NEW x \in Extensions, Merge(x),
         NEW m, m = listener[x].msg, NEW s, s = m.svc
  PROVE  /\ m \in Message /\ s \in Services /\ m.step = x /\ Hears(x, s)
         /\ table'[s] # Nil /\ provisioned' = provisioned
         /\ table[s] # Nil => /\ table'[s] = table[s]
                              /\ heap'[table'[s]] = updateService(heap[table[s]], m)
         /\ table[s] = Nil => heap'[table'[s]] = updateService(makeNewFlowEntry, m)
         /\ OnlyCarried(m, s)'
<1>1. m \in Message /\ s \in Services /\ m.step = x /\ Hears(x, s)
  BY DEF Merge, TypeOK, Jobs, Message, NoMixUp, Hears
<1>2. PICK c, e :
        /\ c \in Entries
        /\ Spawn(x, c, e)
        /\ \/ table[s] # Nil /\ c = table[s] /\ e = heap[c]
           \/ table[s] = Nil /\ e = makeNewFlowEntry
  <2>1. table[s] # Nil => table[s] \in Entries
    BY <1>1 DEF TypeOK
  <2> QED
    BY <2>1 DEF Merge
<1>3. /\ table'[s] = c /\ heap'[c] = updateService(e, m) /\ c # Nil
      /\ listener'[x] = Nil /\ \A y \in Extensions : y # x => listener'[y] = listener[y]
      /\ UNCHANGED <<sending, forwarding, ext, provisioned>>
  BY <1>1, <1>2, EngineAssumption DEF Spawn, TypeOK
<1>4. PICK g \in Handlers : ~Busy(g) /\ running' = [running EXCEPT ![g] = [entry |-> c, msg |-> m]]
  BY <1>2 DEF Spawn
<1>5. /\ running'[g] = [entry |-> c, msg |-> m] /\ running'[g] # Nil
      /\ \A h \in Handlers : h # g => running'[h] = running[h]
  <2>1. [entry |-> c, msg |-> m] \in Tasks
    BY <1>1, <1>2 DEF Tasks
  <2> QED
    BY <1>4, <2>1, NilAssumption DEF TypeOK
<1>6. \A n : ~Asked(n, s) /\ ~Carried(n, s)
  BY <1>1, AloneListener
<1>7. \A y \in Extensions : Hears(y, s) => y = x
  BY <1>1, Alone
<1>8. \A n : ~Asked(n, s)'
  BY <1>3, <1>6 DEF Asked, Sends, Forwards, WorksOn
<1>9. \A n : ~Heard(n, s)'
  BY <1>3, <1>7 DEF Heard, Hears
<1>10. \A n : Carried(n, s)' <=> n = m
  <2>1. \A h \in Handlers : Carries(h, s)' <=> h = g
    BY <1>5, <1>6 DEF Carried, Carries
  <2> QED
    BY <1>5, <2>1 DEF Carried
<1> QED
  BY <1>1, <1>2, <1>3, <1>8, <1>9, <1>10 DEF OnlyCarried

\* An extension answers: nobody else has a message.
OnlyHeard(m, s) ==
  \A n : ~Asked(n, s) /\ ~Carried(n, s) /\ (Heard(n, s) <=> n = m)

\* The other provisioners hold of s what they held.
OthersAs(q, s) ==
  \A r \in Provisioners : r # q => provisioned'[r][s] = provisioned[r][s]

LEMMA Replied ==
  ASSUME TypeOK, NoMixUp, OneAtATime, NEW q \in Provisioners, Reply(q),
         NEW s, s = ext[q].svc
  PROVE  /\ ext[q] \in Message /\ s \in Services /\ WorksOn(q, s)
         /\ table' = table /\ heap' = heap
         /\ OthersAs(q, s)
         /\ \E m \in Message :
              /\ m.step = q /\ m.err \in {ext[q].err, TRUE}
              /\ listener'[q] # Nil /\ listener'[q].msg = m /\ listener'[q].at = "check"
              /\ ~m.err => provisioned'[q][s] = Applied(ext[q])
              /\ OnlyHeard(m, s)'
<1>1. PICK failed \in {ext[q].err, TRUE}, left \in Contents :
        /\ failed \/ left = Applied(ext[q])
        /\ Receive(q, [ext[q] EXCEPT !.action = ReplyAction(q, ext[q]), !.err = failed])
        /\ provisioned' = [provisioned EXCEPT ![q][s] = left]
  BY DEF Reply
<1>2. ext[q] \in Message /\ ext[q] # Nil /\ q \in Extensions
  BY StepSets DEF Reply, TypeOK
<1>3. WorksOn(q, s) /\ s \in Services
  BY <1>2 DEF WorksOn, Message
<1> PICK r : r = [ext[q] EXCEPT !.action = ReplyAction(q, ext[q]), !.err = failed]
  OBVIOUS
<1> PICK m : m = [r EXCEPT !.step = q]
  OBVIOUS
<1>4. r \in Message /\ r.svc = s /\ r.err = failed
  <2>1. ReplyAction(q, ext[q]) \in Actions
    BY <1>2 DEF ReplyAction, Message, Actions
  <2>2. failed \in BOOLEAN
    BY <1>2 DEF Message
  <2> QED
    BY <1>2, <2>1, <2>2 DEF Message
<1>5. m \in Message /\ m.svc = s /\ m.err = failed /\ m.step = q
  <2>1. q \in StepIds
    BY StepSets
  <2> QED
    BY <1>4, <2>1 DEF Message
<1>6. /\ listener[q] = Nil /\ listener'[q] # Nil /\ listener'[q].msg = m
      /\ listener'[q].at = "check"
      /\ \A y \in Extensions : y # q => listener'[y] = listener[y]
  BY <1>1, <1>2, <1>4, Received
<1>7. /\ ext'[q] = Nil /\ \A y \in Provisioners : y # q => ext'[y] = ext[y]
      /\ UNCHANGED <<table, heap, running, sending, forwarding>>
  BY DEF Reply, TypeOK
<1>8. \A n : ~Heard(n, s) /\ ~Carried(n, s)
  BY <1>3, AloneExtension
<1>9. /\ \A y \in Provisioners : WorksOn(y, s) => y = q
      /\ \A h \in Handlers : ~Sends(h, s)
      /\ ~Forwards(s)
  BY <1>3, Alone DEF InHand
<1>10. \A n : ~Asked(n, s)'
  BY <1>7, <1>9 DEF Asked, Sends, Forwards, WorksOn
<1>11. \A n : ~Carried(n, s)'
  BY <1>7, <1>8 DEF Carried, Carries
<1>12. \A n : Heard(n, s)' <=> n = m
  <2>1. \A y \in Extensions : Hears(y, s)' <=> y = q
    BY <1>2, <1>5, <1>6, <1>8 DEF Heard, Hears
  <2> QED
    BY <1>2, <1>6, <2>1 DEF Heard
<1>13. OnlyHeard(m, s)'
  BY <1>10, <1>11, <1>12 DEF OnlyHeard
<1>14. /\ OthersAs(q, s)
       /\ ~m.err => provisioned'[q][s] = Applied(ext[q])
  BY <1>1, <1>3, <1>5 DEF TypeOK, OthersAs
<1> QED
  BY <1>1, <1>2, <1>3, <1>5, <1>6, <1>7, <1>13, <1>14

LEMMA MergeOnCourse ==
  ASSUME TypeOK, NoMixUp, OneAtATime, NEW x \in Extensions, Merge(x),
         NEW s, s = listener[x].msg.svc, OnCourse(s)
  PROVE  OnCourse(s)'
<1> PICK m : m = listener[x].msg
  OBVIOUS
<1>1. /\ m \in Message /\ s \in Services /\ m.step = x /\ Hears(x, s)
      /\ table'[s] # Nil /\ provisioned' = provisioned
      /\ table[s] # Nil => /\ table'[s] = table[s]
                           /\ heap'[table'[s]] = updateService(heap[table[s]], m)
      /\ table[s] = Nil => heap'[table'[s]] = updateService(makeNewFlowEntry, m)
      /\ OnlyCarried(m, s)'
  BY Merged
<1>2. CASE x \in ProviderSteps
  <2>1. Announced(s)'
    BY <1>1, <1>2 DEF Announced, OnlyCarried
  <2> QED
    BY <1>1, <2>1, OffCourse
<1>3. CASE x \in Provisioners /\ table[s] # Nil
  <2>1. SameRecord(s)
    BY <1>1, <1>3, AnswerKeepsEntry DEF SameRecord
  <2>2. Heard(m, s) /\ ~Announced(s)
    BY <1>1, AloneListener DEF Heard
  <2>3. \A n : ~Asked(n, s)' /\ (Answered(n, s)' => Answered(n, s))
    BY <1>1, <2>2 DEF OnlyCarried, Answered
  <2> QED
    BY <1>1, <2>1, <2>2, <2>3, FewerOnCourse DEF Fewer
<1>4. CASE x \in Provisioners /\ table[s] = Nil
  <2> DEFINE e == makeNewFlowEntry
  <2>1. heap'[table'[s]] = e /\ ~e.wip
    BY <1>1, <1>4, AnswerKeepsEntry, NewEntryIdle
  <2>2. \A n : ~Asked(n, s)'
    BY <1>1 DEF OnlyCarried
  <2>3. \A q \in Provisioners : ~(q < e.state)
    <3> DEFINE f == [state |-> Undeployed, expected |-> Deployed, wip |-> FALSE,
                     error |-> FALSE, closed |-> FALSE, def |-> NoDef]
               n == getNextStep(Undeployed, FALSE)
    <3>1. f \in Entry /\ f.state = Undeployed /\ isReverse(f) = FALSE
      BY StepSets DEF Entry, isReverse
    <3>2. HasNextStep(Undeployed, FALSE) /\ Undeployed \in StepIds
      BY NextStepExists, StepSets
    <3>3. e.state = n
      BY <3>1, <3>2, NextEntry DEF makeNewFlowEntry
    <3> SUFFICES ASSUME NEW q \in Provisioners, q < n PROVE FALSE
      BY <3>3
    <3>4. n \in StepIds /\ q \in StepIds \ ProviderSteps /\ q > Undeployed
      BY <3>2, NextStepIsAhead, StepSets, StepOrder DEF Provisioners
    <3>5. q \in StepsAhead(Undeployed, FALSE)
      BY <3>4 DEF StepsAhead
    <3>6. n <= q
      BY <3>2, <3>5, NextStepIsNearest
    <3>7. n \in Int /\ q \in Int
      BY <3>4, StepOrder
    <3> HIDE DEF n
    <3> QED
      BY <3>6, <3>7
  <2> HIDE DEF e
  <2> QED
    BY <1>1, <2>1, <2>2, <2>3, OnCourseNext DEF Completes
<1> QED
  BY <1>1, <1>2, <1>3, <1>4 DEF Provisioners

LEMMA ReplyOnCourse ==
  ASSUME TypeOK, NoMixUp, OneAtATime, InPlace, NEW q \in Provisioners, Reply(q),
         NEW s, s = ext[q].svc, OnCourse(s)
  PROVE  OnCourse(s)'
<1> DEFINE e == heap[table[s]]
<1> PICK req : req = ext[q]
  OBVIOUS
<1>1. /\ req \in Message /\ s \in Services /\ WorksOn(q, s)
      /\ table' = table /\ heap' = heap
      /\ OthersAs(q, s)
  BY Replied
<1>2. PICK m \in Message :
        /\ m.step = q
        /\ ~m.err => provisioned'[q][s] = Applied(req)
        /\ OnlyHeard(m, s)'
  BY Replied
<1>3. Asked(req, s) /\ ~Announced(s) /\ req.step = q
  BY <1>1, AloneExtension DEF InPlace, WorksOn
<1>4. ASSUME table[s] # Nil, Live(e)
      PROVE  /\ \A r \in Provisioners : r < q => provisioned[r][s] = e.def
             /\ e.state = q /\ Applied(req) = e.def
  <2>1. Matches(req, e) /\ \A r \in Provisioners : r < e.state => provisioned[r][s] = e.def
    BY <1>1, <1>3, <1>4 DEF OnCourse
  <2> QED
    BY <1>3, <2>1 DEF Matches, Applied
<1>5. /\ \A r \in Provisioners : r # q => provisioned'[r][s] = provisioned[r][s]
      /\ ~m.err => provisioned'[q][s] = Applied(req)
  BY <1>1, <1>2 DEF OthersAs
<1>6. q \in Int /\ ~(q < q)
  BY StepSets, StepOrder
<1>7. \A n : ~Asked(n, s)' /\ (Answered(n, s)' => n = m)
  BY <1>2 DEF OnlyHeard, Answered
<1>8. table'[s] # Nil => heap'[table'[s]] = e
  BY <1>1
<1> HIDE DEF e
<1>9. table'[s] # Nil /\ Live(e) /\ ~Announced(s)' =>
        /\ \A r \in Provisioners : r < e.state => provisioned'[r][s] = e.def
        /\ \A n \in Message : Asked(n, s)' => Matches(n, e)
        /\ \A n \in Message : Answered(n, s)' /\ Completes(n, e) => provisioned'[n.step][s] = e.def
  BY <1>1, <1>2, <1>4, <1>5, <1>6, <1>7 DEF Completes
<1> QED
  BY <1>1, <1>8, <1>9, OnCourseNext

LEMMA HousekeeperOnCourse ==
  ASSUME TypeOK, NEW s \in Services, TimeOut(s) \/ Remove(s)
  PROVE  OnCourse(s)'
<1>1. CASE TimeOut(s)
  <2>1. table[s] \in Entries /\ heap[table[s]] \in Entry
    BY <1>1, RestingEntry DEF TimeOut, TypeOK
  <2>2. table' = table /\ heap'[table[s]] = close(heap[table[s]], TRUE)
    BY <1>1, <2>1 DEF TimeOut, TypeOK
  <2>3. close(heap[table[s]], TRUE).error = TRUE
    BY <2>1 DEF close, Entry
  <2> QED
    BY <2>2, <2>3, OffCourse
<1>2. CASE Remove(s)
  BY <1>2, OffCourse DEF Remove, TypeOK
<1> QED
  BY <1>1, <1>2

\* An alias that fails has its extension speak twice.
LEMMA AliasCrosses ==
  ASSUME TypeOK, NEW q \in Provisioners, ReplyAliasError(q), OneAtATime'
  PROVE  FALSE
<1> PICK s : s = ext[q].svc
  OBVIOUS
<1>1. ext[q] \in Message /\ q \in Extensions
  BY StepSets DEF ReplyAliasError, TypeOK
<1>2. s \in Services
  BY <1>1 DEF Message
<1>3. ext'[q] = [ext[q] EXCEPT !.err = TRUE]
  BY DEF ReplyAliasError, TypeOK
<1>4. ext'[q] # Nil /\ ext'[q].svc = s
  <2>1. [ext[q] EXCEPT !.err = TRUE] \in Message
    BY <1>1 DEF Message
  <2> QED
    BY <1>1, <1>3, <2>1, NilAssumption DEF Message
<1>5. PICK m \in Message : Receive(q, m) /\ m.svc = s
  BY ReplyMessage
<1>6. listener'[q] # Nil /\ listener'[q].msg.svc = s
  <2>1. listener'[q] # Nil /\ listener'[q].msg = [m EXCEPT !.step = q]
    BY <1>1, <1>5, Received
  <2> QED
    BY <1>5, <2>1 DEF Message
<1>7. <<"listener", q>> \in Holders(s)' /\ <<"extension", q>> \in Holders(s)'
  BY <1>1, <1>4, <1>6 DEF Holders, Hears, WorksOn
<1>8. \A a, b \in Holders(s)' : a = b
  BY <1>2 DEF OneAtATime
<1>9. <<"listener", q>> # <<"extension", q>>
  OBVIOUS
<1> QED
  BY <1>7, <1>8, <1>9

\* What a step of the engine is to service s: it leaves s alone, or loses its request,
\* or is one of a listener, a handler, an extension or the housekeeper for s.
LEMMA StepsOfService ==
  ASSUME TypeOK, NoMixUp, OneAtATime', [Next]_vars, NEW s \in Services
  PROVE  \/ Same(s)
         \/ Forward /\ Fewer(s)
         \/ \E x \in Extensions : (Skip(x) \/ Merge(x)) /\ s = listener[x].msg.svc
         \/ \E h \in Handlers : Execute(h) /\ s = running[h].msg.svc
         \/ \E q \in Provisioners : Reply(q) /\ s = ext[q].svc
         \/ TimeOut(s) \/ Remove(s)
<1>1. CASE SomeProviderSends
  BY <1>1, ProvideSame DEF SomeProviderSends
<1>2. ASSUME NEW x \in Extensions, Check(x) PROVE Same(s)
  BY <1>2, CheckSame
<1>3. ASSUME NEW x \in Extensions, Skip(x) \/ Merge(x), s # listener[x].msg.svc PROVE Same(s)
  BY <1>3, SkipTouches, MergeTouches, UntouchedSame
<1>4. ASSUME NEW h \in Handlers, Execute(h), s # running[h].msg.svc PROVE Same(s)
  BY <1>4, ExecuteTouches, UntouchedSame
<1>5. ASSUME NEW h \in Handlers, TakeRequest(h) PROVE Same(s)
  BY <1>5, TakeSame
<1>6. Forward => Fewer(s)
  BY ForwardSame
<1>7. ASSUME NEW q \in Provisioners, Reply(q), s # ext[q].svc PROVE Same(s)
  BY <1>7, ReplyTouches, UntouchedSame
<1>8. ASSUME NEW q \in Provisioners, ReplyAliasError(q) PROVE FALSE
  BY <1>8, AliasCrosses
<1>9. ASSUME NEW t \in Services, t # s, TimeOut(t) \/ Remove(t) PROVE Same(s)
  BY <1>9, HousekeeperTouches, UntouchedSame
<1>10. UNCHANGED vars => Same(s)
  BY StillSame
<1> QED
  BY <1>1, <1>2, <1>3, <1>4, <1>5, <1>6, <1>7, <1>8, <1>9, <1>10 DEF Next

\* A listener that has nothing to do drops its message.
LEMMA SkipFewer ==
  ASSUME TypeOK, NEW x \in Extensions, Skip(x), NEW s \in Services
  PROVE  Fewer(s)
<1>1. listener' = [listener EXCEPT ![x] = Nil]
      /\ UNCHANGED <<table, heap, running, sending, forwarding, ext, provisioned>>
  BY DEF Skip
<1>2. \A m : Heard(m, s)' => Heard(m, s)
  BY <1>1 DEF Heard, Hears, TypeOK
<1>3. \A m : /\ Carried(m, s)' <=> Carried(m, s)
             /\ Asked(m, s)' <=> Asked(m, s)
  BY <1>1 DEF Carried, Carries, Asked, Sends, Forwards, WorksOn
<1> QED
  BY <1>1, <1>2, <1>3 DEF Fewer, SameRecord, Answered, Announced

LEMMA EngineOnCourse ==
  ASSUME EndsWithProvisioner,
         ProvidersFirst, TypeOK, NoMixUp, OneAtATime, OneAtATime', InPlace, [Next]_vars,
         NEW s \in Services, OnCourse(s)
  PROVE  OnCourse(s)'
<1>1. CASE Fewer(s)
  BY <1>1, FewerOnCourse
<1>2. ASSUME NEW x \in Extensions, Skip(x) \/ Merge(x), s = listener[x].msg.svc
      PROVE  OnCourse(s)'
  BY <1>1, <1>2, SkipFewer, MergeOnCourse
<1>3. ASSUME NEW h \in Handlers, Execute(h), s = running[h].msg.svc
      PROVE  OnCourse(s)'
  BY <1>3, AddOnCourse, DeleteOnCourse, AnswerOnCourse DEF Execute
<1>4. ASSUME NEW q \in Provisioners, Reply(q), s = ext[q].svc PROVE OnCourse(s)'
  BY <1>4, ReplyOnCourse
<1>5. TimeOut(s) \/ Remove(s) => OnCourse(s)'
  BY HousekeeperOnCourse
<1> QED
  BY <1>1, <1>2, <1>3, <1>4, <1>5, StepsOfService, SameFewer

\* What was loaded goes on from where its entry stood: no handler was to run, so that no
\* definition was merged that had not been sent on its way.
LEMMA LoadedOnCourse ==
  ASSUME TypeOK, Write, ~Unbegun, NEW s \in Services, OnCourse(s)
  PROVE  OnCourse(s)'
<1> DEFINE e == heap[table[s]]
<1>1. Image \in Images /\ Start(Image) /\ provisioned' = provisioned
  BY ImageType DEF Write
<1>2. Image[s] = IF table[s] = Nil THEN Nil ELSE e
  BY DEF Image
<1>3. table[s] # Nil => e # Nil
  BY RestingEntry, ImageAssumption DEF TypeOK
<1>4. /\ table'[s] # Nil <=> table[s] # Nil
      /\ table'[s] # Nil => heap'[table'[s]] = e
      /\ \A x \in Extensions : listener'[x] = Nil
      /\ \A h \in Handlers : running'[h] = Nil /\ sending'[h] = Nil
      /\ forwarding' = Nil
      /\ \A q \in Provisioners : ext'[q] = Nil
  BY <1>1, <1>2, <1>3, Started
<1>5. ~Announced(s)
  BY DEF Announced, Carried, Carries, Unbegun
<1>6. Silent(s)'
  BY <1>4 DEF Silent, Asked, Carried, Answered, Heard, Sends, Forwards, WorksOn, Carries, Hears
<1>7. table[s] # Nil /\ Live(e) =>
        \A q \in Provisioners : q < e.state => provisioned[q][s] = e.def
  BY <1>5 DEF OnCourse
<1> HIDE DEF e
<1>8. table'[s] # Nil /\ Live(e) /\ ~Announced(s)' =>
        /\ \A q \in Provisioners : q < e.state => provisioned'[q][s] = e.def
        /\ \A m \in Message : Asked(m, s)' => Matches(m, e)
        /\ \A m \in Message : Answered(m, s)' /\ Completes(m, e) => provisioned'[m.step][s] = e.def
  BY <1>1, <1>4, <1>6, <1>7 DEF Silent
<1> QED
  BY <1>4, <1>8, OnCourseNext

AllOnCourse == ~lost => \A s \in Services : OnCourse(s)

LEMMA RestartsOnCourse ==
  ASSUME EndsWithProvisioner,
         ProvidersFirst, RestartsTypeOK, NoMixUp, OneAtATime, OneAtATime', InPlace,
         AllOnCourse, [RestartsNext]_allVars
  PROVE  AllOnCourse'
<1> SUFFICES ASSUME ~lost', NEW s \in Services PROVE OnCourse(s)'
  BY DEF AllOnCourse
<1>1. TypeOK
  BY DEF RestartsTypeOK
<1>2. ~Kill
  BY DEF Kill
<1>3. CASE Write
  BY <1>1, <1>3, LoadedOnCourse DEF AllOnCourse, Write
<1>4. CASE ~Write
  <2>1. lost' = lost
    BY <1>2, <1>4, OwnParts DEF allVars, history
  <2> QED
    BY <1>1, <1>2, <1>4, <2>1, EngineSteps, EngineOnCourse DEF AllOnCourse
<1> QED
  BY <1>3, <1>4

\* When nothing is in flight, "deployed" is past every provisioner.
LEMMA OnCourseIsProvisioned ==
  ASSUME IsFiniteSet(Handlers), TypeOK, AllSound, AllOnCourse
  PROVE  DeployedSurvives
<1> SUFFICES ASSUME ~lost, InFlight = 0, ~crashed, NEW s \in Services, table[s] # Nil,
                    heap[table[s]].state = Deployed, ~heap[table[s]].wip, ~heap[table[s]].error,
                    NEW q \in Provisioners
             PROVE  provisioned[q][s] = heap[table[s]].def
  BY DEF DeployedSurvives, DeployedIsProvisioned
<1>1. Live(heap[table[s]])
  <2>1. table[s] \in Entries
    BY DEF TypeOK
  <2>2. Sound(heap[table[s]])
    BY <2>1 DEF AllSound
  <2>3. heap[table[s]].state \in EndStates
    BY StepSets
  <2> QED
    BY <2>2, <2>3 DEF Sound, Live
<1>2. ~Announced(s)
  BY NothingInFlight DEF Announced, Carried, Carries
<1>3. q < Deployed
  BY StepsAssumption DEF Provisioners, Extensions, Deployed
<1> QED
  BY <1>1, <1>2, <1>3 DEF AllOnCourse, OnCourse

\* A service that is shown as deployed without error is provisioned at every step with
\* what its entry holds, whatever failed, timed out or was cut by a shutdown, in
\* every life of the process up to one that ended without saving: if every
\* provider stands before the provisioners, and the messages about one service do
\* not cross (those about different services may).
THEOREM DeployedIsKept ==
  ASSUME EndsWithProvisioner, ProvidersFirst, IsFiniteSet(Handlers)
  PROVE  RestartsSpec /\ []OneAtATime => []DeployedSurvives
<1>1. RestartsInit => InPlace /\ AllOnCourse
  BY DEF RestartsInit, Init, InPlace, AllOnCourse, OnCourse, Carries
<1>2. RestartsTypeOK /\ NoMixUp /\ OneAtATime /\ OneAtATime' /\ InPlace /\ AllOnCourse
        /\ [RestartsNext]_allVars => InPlace' /\ AllOnCourse'
  BY RestartsInPlace, RestartsOnCourse
<1>3. RestartsTypeOK /\ AllSound /\ FileSound /\ AllOnCourse => DeployedSurvives
  BY OnCourseIsProvisioned DEF RestartsTypeOK
<1> QED
  BY <1>1, <1>2, <1>3, RestartsTypes, RestartsMixNothing, AlwaysSoundInFile, PTL DEF RestartsSpec

-----------------------------------------------------------------------------
(* Nothing is left of what is gone. *)

GoneFrom(k, s) == \A q \in Provisioners : q >= k => provisioned[q][s] = Nil

AllGone(s) == \A q \in Provisioners : provisioned[q][s] = Nil

WorkedOn(s) == \E m \in Message : Carried(m, s) \/ Asked(m, s) \/ Answered(m, s)

\* What is shown as undeployed has left nothing, a message goes on with what is neither
\* at an end nor closed, and a provider speaks of s when it is at one.
Settled(e, s) ==
  /\ e.state = Undeployed => AllGone(s)
  /\ e.wip \/ e.state \notin EndStates => WorkedOn(s)
  /\ Announced(s) => ~e.wip /\ (AllGone(s) \/ e.state = Deployed)

\* Request m is that of the step e is at: an undeployment has come down to it.
Asks(m, e, s) ==
  /\ e.wip
  /\ e.state = m.step
  /\ isReverse(e) => m.action = "delete" /\ GoneFrom(e.state + 1, s)

\* Answer m is that to the request of the step e is at, and its work is done; or it
\* comes for an entry that was removed, and begins the deployment again.
Tells(m, e, s) ==
  \/ e.wip /\ e.state = m.step /\ (isReverse(e) => GoneFrom(e.state, s))
  \/ ~e.wip /\ ~isReverse(e) /\ e.state \notin EndStates

\* The provisioners from the entry's step on have nothing of a service on its way back,
\* and none has anything of one that is forgotten and of which nobody speaks.
Undone(s) ==
  /\ table[s] = Nil => AllGone(s) \/ Taken(s)
  /\ table[s] # Nil => Settled(heap[table[s]], s)
  /\ \A m \in Message : Asked(m, s) =>
       ~m.err /\ m.step \in Provisioners /\ (table[s] # Nil => Asks(m, heap[table[s]], s))
  /\ \A m \in Message : Answered(m, s) =>
       ~m.err /\ (table[s] # Nil => Tells(m, heap[table[s]], s))
  /\ \A m \in Message : Carried(m, s) /\ m.step \in Provisioners => table[s] # Nil

\* An answer always has something to do: its entry is at no end.
NoneSkipped == \A q \in Provisioners : listener[q] # Nil => listener[q].at # "skip"

\* The invariant in the next state, of entry e.
LEMMA UndoneNext ==
  ASSUME NEW s \in Services, NEW e, table'[s] # Nil => heap'[table'[s]] = e,
         table'[s] = Nil => AllGone(s)' \/ Taken(s)',
         table'[s] # Nil => Settled(e, s)',
         \A m \in Message : Asked(m, s)' =>
           ~m.err /\ m.step \in Provisioners /\ (table'[s] # Nil => Asks(m, e, s)'),
         \A m \in Message : Answered(m, s)' => ~m.err /\ (table'[s] # Nil => Tells(m, e, s)'),
         \A m \in Message : Carried(m, s)' /\ m.step \in Provisioners => table'[s] # Nil
  PROVE  Undone(s)'
BY DEF Undone, Settled, Asks, Tells

\* Where provisioned stays as it is.
LEMMA SameGone ==
  ASSUME NEW s \in Services, \A q \in Provisioners : provisioned'[q][s] = provisioned[q][s]
  PROVE  /\ AllGone(s)' <=> AllGone(s)
         /\ \A k : GoneFrom(k, s)' <=> GoneFrom(k, s)
BY DEF AllGone, GoneFrom

LEMMA SameUndone ==
  ASSUME NEW s \in Services, Undone(s), Same(s)
  PROVE  Undone(s)'
<1> PICK e : e = heap[table[s]]
  OBVIOUS
<1>1. table'[s] = table[s] /\ (table'[s] # Nil => heap'[table'[s]] = e)
  BY DEF Same, SameRecord
<1>2. /\ AllGone(s)' <=> AllGone(s)
      /\ \A k : GoneFrom(k, s)' <=> GoneFrom(k, s)
  BY SameGone DEF Same, SameRecord
<1>3. \A m : /\ Asked(m, s)' <=> Asked(m, s)
             /\ Carried(m, s)' <=> Carried(m, s)
             /\ Answered(m, s)' <=> Answered(m, s)
  BY DEF Same
<1>4. (WorkedOn(s)' <=> WorkedOn(s)) /\ (Announced(s)' <=> Announced(s))
  BY <1>3 DEF WorkedOn, Announced
<1>5. table'[s] = Nil => AllGone(s)' \/ Taken(s)'
  BY <1>1, <1>2 DEF Undone, Same
<1>6. table'[s] # Nil => Settled(e, s)'
  BY <1>1, <1>2, <1>4 DEF Undone, Settled
<1>7. \A m \in Message : Asked(m, s)' =>
        ~m.err /\ m.step \in Provisioners /\ (table'[s] # Nil => Asks(m, e, s)')
  BY <1>1, <1>2, <1>3 DEF Undone, Asks
<1>8. \A m \in Message : Answered(m, s)' => ~m.err /\ (table'[s] # Nil => Tells(m, e, s)')
  BY <1>1, <1>2, <1>3 DEF Undone, Tells
<1>9. \A m \in Message : Carried(m, s)' /\ m.step \in Provisioners => table'[s] # Nil
  BY <1>1, <1>3 DEF Undone
<1> QED
  BY <1>1, <1>5, <1>6, <1>7, <1>8, <1>9, UndoneNext

\* What is gone from a step on is gone from behind the next one on the way back.
LEMMA GoneBehind ==
  ASSUME NEW t \in StepIds, NEW n \in StepIds, \A q \in StepsAhead(t, TRUE) : q <= n, NEW s,
         GoneFrom(t, s)
  PROVE  GoneFrom(n + 1, s)
<1>1. n \in Int /\ t \in Int
  BY StepOrder
<1>2. ASSUME NEW q \in Provisioners, q >= n + 1 PROVE q >= t
  <2>1. q \in StepIds \ ProviderSteps /\ q \in Int
    BY StepSets, StepOrder DEF Provisioners
  <2>2. q < t => q \in StepsAhead(t, TRUE)
    BY <2>1 DEF StepsAhead
  <2>3. n \in Int /\ t \in Int /\ q \in Int /\ q >= n + 1
    BY <1>1, <1>2, <2>1
  <2>4. ~(q <= n)
    BY <2>3
  <2>5. ~(q < t)
    BY <2>2, <2>4
  <2> QED
    BY <2>3, <2>5
<1> QED
  BY <1>2 DEF GoneFrom

LEMMA GoneBehindNext ==
  ASSUME NEW t \in StepIds, HasNextStep(t, TRUE), NEW n, n = getNextStep(t, TRUE), NEW s,
         GoneFrom(t, s)
  PROVE  GoneFrom(n + 1, s)
<1>1. n \in StepIds /\ \A q \in StepsAhead(t, TRUE) : q <= n
  BY NextStepIsAhead, NextStepIsNearest
<1> QED
  BY <1>1, GoneBehind

\* The ends of the way back.
LEMMA GoneAtEnds ==
  ASSUME NEW s
  PROVE  /\ GoneFrom(Deployed, s)
         /\ GoneFrom(Undeployed + 1, s) => AllGone(s)
         /\ \A k \in Int : AllGone(s) => GoneFrom(k, s)
<1>1. \A q \in Provisioners : q \in Int /\ q < Deployed /\ q > Undeployed
  BY StepSets, StepOrder
<1>2. Deployed \in Int /\ Undeployed \in Int
  BY StepSets, StepOrder
<1> QED
  BY <1>1, <1>2 DEF GoneFrom, AllGone

\* A provider's word that has nothing to do is dropped.
LEMMA SkipSame ==
  ASSUME TypeOK, NoMixUp, NEW x \in Extensions, Skip(x), x \notin Provisioners, NEW s \in Services
  PROVE  Same(s)
<1>1. listener' = [listener EXCEPT ![x] = Nil] /\ listener[x].msg.step = x
      /\ UNCHANGED <<table, heap, running, sending, forwarding, ext, provisioned>>
  BY DEF Skip, NoMixUp
<1>2. \A m : m.step \in Provisioners => (Heard(m, s)' <=> Heard(m, s))
  BY <1>1 DEF Heard, Hears, TypeOK
<1>3. \A m : (Asked(m, s)' <=> Asked(m, s)) /\ (Carried(m, s)' <=> Carried(m, s))
  BY <1>1 DEF Asked, Carried, Carries, Sends, Forwards, WorksOn
<1>4. \A m : Answered(m, s)' <=> Answered(m, s)
  BY <1>2, <1>3 DEF Answered
<1>5. Taken(s) => Taken(s)'
  BY <1>1, <1>4 DEF Taken, WorksOn
<1> QED
  BY <1>1, <1>3, <1>4, <1>5 DEF Same, SameRecord

\* A new entry is at the first step of its deployment.
LEMMA NewEntryStarts ==
  ASSUME EndsWithProvisioner
  PROVE  /\ makeNewFlowEntry \in Resting
          /\ ~makeNewFlowEntry.wip /\ ~isReverse(makeNewFlowEntry)
          /\ makeNewFlowEntry.state \notin EndStates
<1> DEFINE f == [state |-> Undeployed, expected |-> Deployed, wip |-> FALSE,
                 error |-> FALSE, closed |-> FALSE, def |-> NoDef]
           n == getNextStep(Undeployed, FALSE)
<1>1. f \in Entry /\ f.state = Undeployed /\ f.expected = Deployed /\ isReverse(f) = FALSE
  BY StepSets DEF Entry, isReverse
<1>2. PICK q \in Provisioners : TRUE
  BY SomeProvisioner
<1>3. Undeployed \in StepIds /\ Undeployed < q
  BY StepSets, StepOrder
<1>4. HasNextStep(Undeployed, FALSE) /\ n \in Provisioners
  BY <1>3, ProvisionerAhead
<1>5. makeNewFlowEntry.state = n /\ makeNewFlowEntry.expected = Deployed
  BY <1>1, <1>4, NextEntry DEF makeNewFlowEntry
<1>6. n \notin EndStates
  BY <1>4, StepSets
<1> QED
  BY <1>5, <1>6, NewEntryType, NewEntryIdle, StepSets DEF isReverse

\* An announcement reaches an entry at rest, an answer goes on to its handler.
LEMMA MergeUndone ==
  ASSUME EndsWithProvisioner, TypeOK, NoMixUp, OneAtATime, NEW x \in Extensions, Merge(x),
         NEW s, s = listener[x].msg.svc, Undone(s)
  PROVE  Undone(s)'
<1> PICK m : m = listener[x].msg
  OBVIOUS
<1> PICK e : e = IF table[s] = Nil THEN makeNewFlowEntry ELSE heap[table[s]]
  OBVIOUS
<1> PICK f : f = updateService(e, m)
  OBVIOUS
<1>1. /\ m \in Message /\ s \in Services /\ m.step = x /\ Hears(x, s)
      /\ table'[s] # Nil /\ provisioned' = provisioned
      /\ heap'[table'[s]] = f
      /\ OnlyCarried(m, s)'
  BY Merged
<1>2. /\ AllGone(s)' <=> AllGone(s)
      /\ \A k : GoneFrom(k, s)' <=> GoneFrom(k, s)
  BY <1>1, SameGone
<1>3. /\ \A n : ~Asked(n, s)' /\ (Answered(n, s)' => n = m) /\ (Carried(n, s)' <=> n = m)
      /\ WorkedOn(s)'
      /\ Announced(s)' => x \in ProviderSteps
  BY <1>1 DEF OnlyCarried, Answered, WorkedOn, Announced
<1>4. /\ \A n : ~Asked(n, s) /\ ~Carried(n, s)
      /\ \A n : Heard(n, s) <=> n = m
  BY <1>1, AloneListener
<1>5. e \in Entry
  BY <1>1, NewEntryStarts, RestingEntry DEF TypeOK
<1>6. f.wip = e.wip /\ f.state = e.state /\ f.expected = e.expected
  BY <1>5 DEF updateService, Entry
<1>7. CASE x \in ProviderSteps
  <2>1. \A n : ~Answered(n, s)
    BY <1>1, <1>4, <1>7 DEF Answered, Provisioners
  <2>2. ~WorkedOn(s) /\ \A q \in Provisioners : ~WorksOn(q, s)
    BY <1>1, <1>4, <2>1, AloneListener, Alone DEF WorkedOn
  <2>3. ~Taken(s)
    BY <2>1, <2>2 DEF Taken
  <2>4. ~e.wip /\ (AllGone(s) \/ e.state = Deployed)
    <3>1. CASE table[s] = Nil
      BY <2>3, <3>1, NewEntryStarts DEF Undone
    <3>2. CASE table[s] # Nil
      BY <2>2, <3>2 DEF Undone, Settled, EndStates
    <3> QED
      BY <3>1, <3>2
  <2>5. e.state = Undeployed => AllGone(s)
    BY <2>4, StepSets
  <2>6. Settled(f, s)'
    BY <1>2, <1>3, <1>6, <2>4, <2>5 DEF Settled
  <2>7. \A n : ~Answered(n, s)'
    BY <1>1, <1>3, <1>7 DEF Answered, Provisioners
  <2> QED
    BY <1>1, <1>3, <1>7, <2>6, <2>7, UndoneNext DEF Provisioners
<1>8. CASE x \in Provisioners
  <2>1. Answered(m, s) /\ ~Announced(s)'
    BY <1>1, <1>3, <1>4, <1>8 DEF Answered, Provisioners
  <2>2. ~m.err /\ Tells(m, e, s) /\ (e.state = Undeployed => AllGone(s))
    <3>1. CASE table[s] = Nil
      BY <1>1, <2>1, <3>1, NewEntryStarts, StepSets DEF Undone, Tells
    <3>2. CASE table[s] # Nil
      BY <1>1, <2>1, <3>2 DEF Undone, Settled
    <3> QED
      BY <3>1, <3>2
  <2>3. Settled(f, s)'
    BY <1>2, <1>3, <1>6, <2>1, <2>2 DEF Settled
  <2>4. Tells(m, f, s)'
    BY <1>2, <1>6, <2>2 DEF Tells, isReverse
  <2> QED
    BY <1>1, <1>3, <2>2, <2>3, <2>4, UndoneNext
<1> QED
  BY <1>1, <1>7, <1>8 DEF Provisioners

\* A handler sends a request: that of a deployment, or of an undeployment of which
\* nothing is left from behind its step on.
LEMMA SentUndone ==
  ASSUME TypeOK, NoMixUp, OneAtATime, InPlace, NEW h \in Handlers, running[h] # Nil,
         NEW e \in Resting, sendToExtension(h, e), e.state \in Provisioners,
         NEW s \in Services, s = running[h].msg.svc,
         table[s] = Nil => AllGone(s),
         table[s] # Nil /\ isReverse(e) => GoneFrom(e.state + 1, s)
  PROVE  Undone(s)'
<1> PICK f : f = [e EXCEPT !.wip = TRUE]
  OBVIOUS
<1> PICK m : m = BuildMessage(s, e)
  OBVIOUS
<1>1. /\ f.state = e.state /\ f.expected = e.expected /\ f.wip = TRUE
  BY RestingEntry DEF Entry
<1>2. /\ table' = table /\ provisioned' = provisioned
      /\ table[s] # Nil => heap'[table[s]] = f
      /\ OnlyAsked(m, s)'
  BY HandlerSent
<1>3. /\ AllGone(s)' <=> AllGone(s)
      /\ \A k : GoneFrom(k, s)' <=> GoneFrom(k, s)
  BY <1>2, SameGone
<1>4. /\ m \in Message /\ ~m.err /\ m.step = e.state
      /\ isReverse(f) => m.action = "delete"
      /\ isReverse(f) <=> isReverse(e)
  <2>1. m \in Message
    BY BuildMessageType
  <2> QED
    BY <1>1, <2>1 DEF BuildMessage, isReverse
<1>5. /\ \A n : (Asked(n, s)' <=> n = m) /\ ~Carried(n, s)' /\ ~Answered(n, s)'
      /\ WorkedOn(s)' /\ ~Announced(s)'
  BY <1>2, <1>4 DEF OnlyAsked, WorkedOn, Announced
<1>6. e.state # Undeployed
  BY StepSets
<1>7. table'[s] # Nil => Settled(f, s)'
  BY <1>1, <1>5, <1>6 DEF Settled
<1>8. table'[s] # Nil => Asks(m, f, s)'
  BY <1>1, <1>2, <1>3, <1>4 DEF Asks
<1> QED
  BY <1>2, <1>3, <1>4, <1>5, <1>7, <1>8, UndoneNext

\* It ends: at "deployed", or with nothing left.
LEMMA EndedUndone ==
  ASSUME TypeOK, NoMixUp, OneAtATime, InPlace, NEW h \in Handlers, running[h] # Nil,
         NEW e \in Resting, Finish(h, e), e.state \in EndStates, ~e.wip,
         NEW s \in Services, s = running[h].msg.svc,
         table[s] = Nil => AllGone(s),
         table[s] # Nil /\ e.state = Undeployed => AllGone(s)
  PROVE  Undone(s)'
<1>1. /\ table' = table /\ provisioned' = provisioned
      /\ table[s] # Nil => heap'[table[s]] = e
      /\ Silent(s)'
  BY HandlerEnded
<1>2. AllGone(s)' <=> AllGone(s)
  BY <1>1, SameGone
<1>3. ~Announced(s)'
  BY <1>1 DEF Silent, Announced
<1>4. table'[s] # Nil => Settled(e, s)'
  BY <1>1, <1>2, <1>3 DEF Settled
<1> QED
  BY <1>1, <1>2, <1>4, UndoneNext DEF Silent

\* What a handler knows when it runs a provider's announcement.
LEMMA WordInHand ==
  ASSUME TypeOK, NoMixUp, OneAtATime, InPlace, NEW h \in Handlers, running[h] # Nil,
         running[h].msg.step \in ProviderSteps,
         NEW s \in Services, s = running[h].msg.svc, Undone(s)
  PROVE  /\ table[s] = Nil => AllGone(s)
         /\ table[s] # Nil =>
              LET e == heap[table[s]]
              IN  table[s] = running[h].entry /\ ~e.wip /\ (AllGone(s) \/ e.state = Deployed)
<1>1. Carries(h, s) /\ sending[h] = Nil
  BY DEF Carries, NoMixUp
<1>2. /\ \A m : ~Asked(m, s) /\ ~Heard(m, s)
      /\ \A m : Carried(m, s) <=> m = running[h].msg
  BY <1>1, AloneCarrier
<1>3. running[h].msg \in Message /\ running[h].msg.step \notin Provisioners
  BY TaskTypes DEF Provisioners
<1>4. ~Taken(s)
  <2>1. \A q \in Provisioners : ~WorksOn(q, s)
    BY <1>1, Alone DEF InHand
  <2> QED
    BY <1>2, <1>3, <2>1 DEF Taken, Answered
<1>5. Announced(s)
  BY <1>2, <1>3 DEF Announced
<1> QED
  BY <1>1, <1>4, <1>5 DEF Undone, Settled, InPlace

LEMMA AddUndone ==
  ASSUME EndsWithProvisioner,
         TypeOK, NoMixUp, OneAtATime, InPlace, NEW h \in Handlers, ExecuteAdd(h),
         NEW s \in Services, s = running[h].msg.svc, Undone(s)
  PROVE  Undone(s)'
<1>1. running[h] # Nil /\ running[h].msg.step \in ProviderSteps
  BY AddGoes
<1>2. PICK e \in Resting : sendToExtension(h, e) /\ e.state \in Provisioners
                           /\ e.expected = Deployed
  BY AddGoes
<1>3. ~isReverse(e)
  BY <1>2, StepSets DEF isReverse
<1>4. table[s] = Nil => AllGone(s)
  BY <1>1, WordInHand
<1> QED
  BY <1>1, <1>2, <1>3, <1>4, SentUndone

LEMMA DeleteUndone ==
  ASSUME EndsWithProvisioner,
         TypeOK, NoMixUp, OneAtATime, InPlace, NEW h \in Handlers, ExecuteDelete(h),
         NEW s \in Services, s = running[h].msg.svc, Undone(s)
  PROVE  Undone(s)'
<1> PICK g : g = heap[running[h].entry]
  OBVIOUS
<1>1. running[h] # Nil /\ running[h].msg.step \in ProviderSteps
  BY DeleteGoes
<1>2. PICK e \in Resting :
        /\ e.expected = Undeployed
        /\ \/ Finish(h, e) /\ e.state = Undeployed /\ ~e.wip
           \/ sendToExtension(h, e) /\ e.state \in Provisioners
        /\ ~g.wip => HasNextStep(g.state, TRUE) /\ e.state = getNextStep(g.state, TRUE)
  BY DeleteGoes
<1>3. /\ table[s] = Nil => AllGone(s)
      /\ table[s] # Nil => ~g.wip /\ (AllGone(s) \/ g.state = Deployed)
  BY <1>1, WordInHand
<1>4. g.state \in StepIds /\ e.state \in StepIds /\ e.state \in Int
  <2>1. g \in Resting
    BY <1>1, TaskTypes
  <2> QED
    BY <2>1, RestingEntry, StepOrder DEF Entry
<1>5. table[s] # Nil => GoneFrom(e.state + 1, s)
  <2>1. CASE AllGone(s)
    <3>1. e.state + 1 \in Int
      BY <1>4
    <3> QED
      BY <2>1, <3>1, GoneAtEnds
  <2>2. ASSUME table[s] # Nil, g.state = Deployed PROVE GoneFrom(e.state + 1, s)
    <3>1. GoneFrom(g.state, s)
      BY <2>2, GoneAtEnds
    <3> QED
      BY <1>2, <1>3, <1>4, <2>2, <3>1, GoneBehindNext
  <2> QED
    BY <1>3, <2>1, <2>2
<1>6. CASE Finish(h, e) /\ e.state = Undeployed /\ ~e.wip
  <2>1. table[s] # Nil => AllGone(s)
    BY <1>5, <1>6, GoneAtEnds
  <2> QED
    BY <1>1, <1>3, <1>6, <2>1, EndedUndone, StepSets
<1>7. CASE sendToExtension(h, e) /\ e.state \in Provisioners
  BY <1>1, <1>3, <1>5, <1>7, SentUndone
<1> QED
  BY <1>2, <1>6, <1>7

\* A good answer takes the entry one step on; that for an entry that was removed begins
\* its deployment.
LEMMA AnswerUndone ==
  ASSUME TypeOK, NoMixUp, OneAtATime, InPlace, NEW h \in Handlers, ExecuteReply(h),
         NEW s \in Services, s = running[h].msg.svc, Undone(s)
  PROVE  Undone(s)'
<1> PICK e : e = heap[running[h].entry]
  OBVIOUS
<1> PICK msg : msg = running[h].msg
  OBVIOUS
<1> PICK next : next = setNextStep(e)
  OBVIOUS
<1>1. /\ running[h] # Nil /\ msg \in Message /\ msg.step \in Provisioners
      /\ e \in Resting /\ e \in Entry
      /\ table[s] # Nil => table[s] = running[h].entry
      /\ Carried(msg, s) /\ Answered(msg, s)
  BY AnswerInHand, RestingEntry
<1>2. table[s] # Nil /\ ~msg.err /\ Tells(msg, e, s)
  BY <1>1 DEF Undone
<1>3. updateService(e, msg) = e
  BY <1>1, AnswerKeepsEntry
<1>4. \/ e.wip /\ msg.step # e.state
      \/ e.wip /\ msg.step = e.state /\ msg.err
      \/ e.wip /\ msg.step = e.state /\ ~msg.err
         /\ IF isLastStep(next.state, isReverse(next))
            THEN Finish(h, close(next, msg.err)) ELSE sendToExtension(h, next)
      \/ ~e.wip /\ sendToExtension(h, e)
  BY <1>3 DEF ExecuteReply
<1>5. CASE ~e.wip /\ sendToExtension(h, e)
  <2>1. ~isReverse(e) /\ e.state \notin EndStates
    BY <1>2, <1>5 DEF Tells
  <2>2. e.state \in Provisioners
    BY <1>1, <2>1, RestingPlace
  <2> QED
    BY <1>1, <1>2, <1>5, <2>1, <2>2, SentUndone
<1>6. CASE e.wip /\ msg.step = e.state
           /\ IF isLastStep(next.state, isReverse(next))
              THEN Finish(h, close(next, msg.err)) ELSE sendToExtension(h, next)
  <2>1. /\ isReverse(next) = isReverse(e)
        /\ isLastStep(next.state, isReverse(next)) \/ next.state \in Provisioners
    BY <1>1, <1>6, NextFromProvisioner
  <2>2. next \in Resting /\ next \in Entry
    BY <1>1, SetNextStepType, RestingEntry
  <2>3. isReverse(e) => GoneFrom(next.state + 1, s)
    <3>1. SUFFICES ASSUME isReverse(e) PROVE GoneFrom(next.state + 1, s)
      OBVIOUS
    <3>2. e.state \in StepIds /\ e.state # Undeployed
      BY <1>1, <1>6, StepSets
    <3>3. isReverse(e) = TRUE
      BY <3>1 DEF isReverse
    <3>4. HasNextStep(e.state, TRUE)
      BY <3>2, NextStepExists
    <3>5. next.state = getNextStep(e.state, TRUE)
      BY <1>1, <3>3, <3>4, NextEntry
    <3>6. GoneFrom(e.state, s)
      BY <1>2, <1>6, <3>1 DEF Tells
    <3> QED
      BY <3>2, <3>4, <3>5, <3>6, GoneBehindNext
  <2>4. CASE isLastStep(next.state, isReverse(next))
    <3> PICK f : f = close(next, msg.err)
      OBVIOUS
    <3>1. Finish(h, f)
      BY <1>6, <2>4
    <3>2. f \in Resting
      BY <1>1, <2>2, CloseType DEF Message
    <3>3. ~f.wip /\ f.state \in EndStates /\ (f.state = Undeployed => isReverse(next))
      BY <2>2, StepSets DEF close, Entry
    <3>4. f.state = Undeployed => AllGone(s)
      BY <2>1, <2>3, <2>4, <3>3, GoneAtEnds DEF isLastStep
    <3> QED
      BY <1>1, <1>2, <3>1, <3>2, <3>3, <3>4, EndedUndone
  <2>5. CASE ~isLastStep(next.state, isReverse(next))
    BY <1>1, <1>2, <1>6, <2>1, <2>2, <2>3, <2>5, SentUndone
  <2> QED
    BY <2>4, <2>5
<1> QED
  BY <1>2, <1>4, <1>5, <1>6 DEF Tells

\* An extension that does its work does it as its request says.
LEMMA ReplyUndone ==
  ASSUME TypeOK, NoMixUp, OneAtATime, InPlace, NEW q \in Provisioners, Reply(q),
         ~listener'[q].msg.err, NEW s, s = ext[q].svc, Undone(s)
  PROVE  Undone(s)'
<1> PICK e : e = heap[table[s]]
  OBVIOUS
<1> PICK req : req = ext[q]
  OBVIOUS
<1>1. /\ req \in Message /\ s \in Services /\ WorksOn(q, s)
      /\ table' = table /\ heap' = heap
      /\ OthersAs(q, s)
  BY Replied
<1>2. PICK m \in Message :
        /\ m.step = q /\ listener'[q].msg = m
        /\ ~m.err => provisioned'[q][s] = Applied(req)
        /\ OnlyHeard(m, s)'
  BY Replied
<1>0. ~m.err /\ provisioned'[q][s] = Applied(req)
  BY <1>2
<1>3. Asked(req, s) /\ req.step = q
  BY <1>1, AloneExtension DEF InPlace, WorksOn
<1>4. table[s] # Nil => Asks(req, e, s)
  BY <1>1, <1>3 DEF Undone
<1>5. /\ \A n : ~Asked(n, s)' /\ ~Carried(n, s)' /\ (Answered(n, s)' <=> n = m)
      /\ WorkedOn(s)' /\ Taken(s)' /\ ~Announced(s)'
  BY <1>2 DEF OnlyHeard, Answered, WorkedOn, Taken, Announced
<1>6. q \in Int /\ q # Undeployed /\ \A r \in Provisioners : r >= q => r = q \/ r >= q + 1
  <2>1. \A r \in Provisioners : r \in Int /\ r # Undeployed
    BY StepSets, StepOrder
  <2> QED
    BY <2>1
<1>7. /\ provisioned'[q][s] = Applied(req)
      /\ \A r \in Provisioners : r # q => provisioned'[r][s] = provisioned[r][s]
  BY <1>0, <1>1 DEF OthersAs
<1>8. table[s] # Nil => Settled(e, s)'
  BY <1>3, <1>4, <1>5, <1>6 DEF Settled, Asks
<1>9. table[s] # Nil => Tells(m, e, s)'
  <2>1. ASSUME table[s] # Nil, isReverse(e) PROVE GoneFrom(e.state, s)'
    <3>1. e.state = q /\ Applied(req) = Nil /\ GoneFrom(q + 1, s)
      BY <1>3, <1>4, <2>1 DEF Asks, Applied
    <3>2. \A r \in Provisioners : r >= q => provisioned'[r][s] = Nil
      BY <1>6, <1>7, <3>1 DEF GoneFrom
    <3> QED
      BY <3>1, <3>2 DEF GoneFrom
  <2> QED
    BY <1>2, <1>3, <1>4, <2>1 DEF Tells, Asks
<1> QED
  BY <1>0, <1>1, <1>2, <1>5, <1>8, <1>9, UndoneNext

\* What is forgotten is gone, and nobody works on it.
LEMMA RemoveUndone ==
  ASSUME TypeOK, NEW s \in Services, Remove(s), Undone(s)
  PROVE  Undone(s)'
<1> PICK e : e = heap[table[s]]
  OBVIOUS
<1>1. /\ table[s] # Nil /\ e.state = Undeployed /\ ~e.wip
      /\ table'[s] = Nil
      /\ UNCHANGED <<listener, running, sending, forwarding, ext, provisioned>>
  BY DEF Remove, Removable, TypeOK
<1>2. AllGone(s) /\ (AllGone(s)' <=> AllGone(s))
  BY <1>1, SameGone DEF Undone, Settled
<1>3. \A m \in Message : ~Asked(m, s) /\ ~Answered(m, s)
  BY <1>1, StepSets DEF Undone, Asks, Tells
<1>4. \A m \in Message : ~Asked(m, s)' /\ ~Answered(m, s)'
  BY <1>1, <1>3 DEF Asked, Sends, Forwards, WorksOn, Answered, Heard, Hears, Carried, Carries
<1>5. \A m \in Message : ~(Carried(m, s)' /\ m.step \in Provisioners)
  BY <1>4 DEF Answered
<1> QED
  BY <1>1, <1>2, <1>4, <1>5, UndoneNext

\* At the end of a shutdown that cut no work and lost no answer every entry is at an end.
LEMMA LoadedUndone ==
  ASSUME RestartsTypeOK, NoMixUp, Write, ~Unbegun, ~Unheard, ~InProgress, NEW s \in Services, Undone(s)
  PROVE  Undone(s)'
<1> PICK e : e = heap[table[s]]
  OBVIOUS
<1>0. TypeOK
  BY DEF RestartsTypeOK
<1>1. Image \in Images /\ Start(Image) /\ provisioned' = provisioned
  BY <1>0, ImageType DEF Write
<1>2. Image[s] = (IF table[s] = Nil THEN Nil ELSE e) /\ (table[s] # Nil => e # Nil)
  BY <1>0, RestingEntry, ImageAssumption DEF Image, TypeOK
<1>3. /\ table'[s] # Nil <=> table[s] # Nil
      /\ table'[s] # Nil => heap'[table'[s]] = e
      /\ \A x \in Extensions : listener'[x] = Nil
      /\ \A h \in Handlers : running'[h] = Nil /\ sending'[h] = Nil
      /\ forwarding' = Nil
      /\ \A q \in Provisioners : ext'[q] = Nil
  BY <1>1, <1>2, Started
<1>4. Silent(s)'
  BY <1>3 DEF Silent, Asked, Carried, Answered, Heard, Sends, Forwards, WorksOn, Carries, Hears
<1>5. AllGone(s)' <=> AllGone(s)
  BY <1>1, SameGone
<1>6. /\ \A q \in Provisioners : listener[q] = Nil
      /\ \A q \in Provisioners : ext[q] = Nil
      /\ \A h \in Handlers : running[h] = Nil
  BY StepSets DEF RestartsTypeOK, Write, Unbegun, Unheard
<1>7. \A m : ~Carried(m, s) /\ ~Answered(m, s)
  <2>1. \A x \in Extensions : listener[x] # Nil => listener[x].msg.step = x
    BY DEF NoMixUp
  <2> QED
    BY <1>6, <2>1 DEF Carried, Carries, Answered, Heard, Hears
<1>8. ~Taken(s)
  BY <1>6, <1>7 DEF Taken, WorksOn
<1>9. ASSUME table[s] # Nil
      PROVE  ~e.wip /\ e.state \in EndStates /\ (e.state = Undeployed => AllGone(s))
  <2>1. ~e.wip
    BY <1>9 DEF InProgress
  <2>2. \A m \in Message : ~Asked(m, s)
    BY <1>9, <2>1 DEF Undone, Asks
  <2>3. ~WorkedOn(s)
    BY <1>7, <2>2 DEF WorkedOn
  <2> QED
    BY <1>9, <2>1, <2>3 DEF Undone, Settled
<1>10. ~Announced(s)'
  BY <1>4 DEF Silent, Announced
<1>11. table'[s] # Nil => Settled(e, s)'
  BY <1>3, <1>5, <1>9, <1>10 DEF Settled
<1>12. table'[s] = Nil => AllGone(s)'
  BY <1>3, <1>5, <1>8 DEF Undone
<1> QED
  BY <1>3, <1>4, <1>11, <1>12, UndoneNext DEF Silent

\* An answer finds its entry at no end, and is merged.
LEMMA CheckedOn ==
  ASSUME TypeOK, NoMixUp, \A s \in Services : Undone(s), NEW x \in Provisioners, Check(x)
  PROVE  listener'[x].at = "merge"
<1> PICK m : m = listener[x].msg
  OBVIOUS
<1> PICK s : s = m.svc
  OBVIOUS
<1>1. listener[x] \in Jobs /\ listener[x] # Nil /\ x \in Extensions
  BY StepSets DEF Check, TypeOK
<1>2. m \in Message /\ s \in Services /\ m.step = x /\ Hears(x, s)
  BY <1>1 DEF Jobs, Message, NoMixUp, Hears
<1>3. Answered(m, s)
  BY <1>1, <1>2 DEF Answered, Heard
<1>4. PICK need \in serviceNeedUpdate(m) :
        listener' = [listener EXCEPT ![x].at = IF need THEN "merge" ELSE "skip"]
  BY DEF Check
<1>5. need
  <2>1. CASE table[s] = Nil
    BY <1>4, <2>1 DEF serviceNeedUpdate
  <2>2. CASE table[s] # Nil
    <3>1. heap[table[s]].state \notin EndStates
      <4>1. Tells(m, heap[table[s]], s)
        BY <1>2, <1>3, <2>2 DEF Undone
      <4> QED
        BY <1>2, <4>1, StepSets DEF Tells
    <3>2. isStateAsWanted(heap[table[s]], m.action) = FALSE
      BY <3>1, StepSets DEF isStateAsWanted
    <3> QED
      BY <1>4, <2>2, <3>2 DEF serviceNeedUpdate
  <2> QED
    BY <2>1, <2>2
<1> QED
  BY <1>1, <1>4, <1>5 DEF TypeOK, Jobs

LEMMA EngineNoneSkipped ==
  ASSUME TypeOK, NoMixUp, NoneSkipped, \A s \in Services : Undone(s), [Next]_vars
  PROVE  NoneSkipped'
<1>1. ASSUME NEW y \in Extensions, listener' = [listener EXCEPT ![y] = Nil] PROVE NoneSkipped'
  BY <1>1 DEF NoneSkipped, TypeOK
<1>2. ASSUME NEW y \in Extensions, NEW msg, Receive(y, msg) PROVE NoneSkipped'
  <2>1. \A q \in Provisioners : listener'[q] = listener[q] \/ listener'[q].at = "check"
    BY <1>2, StepSets DEF Receive, TypeOK
  <2> QED
    BY <2>1 DEF NoneSkipped
<1>3. CASE SomeProviderSends
  BY <1>2, <1>3, StepSets DEF SomeProviderSends, ProviderSend
<1>4. ASSUME NEW x \in Extensions, Check(x) PROVE NoneSkipped'
  <2>1. \E place : listener' = [listener EXCEPT ![x].at = place]
    BY <1>4 DEF Check
  <2>2. \A q \in Provisioners : q # x => listener'[q] = listener[q]
    BY <2>1, StepSets DEF TypeOK
  <2>3. x \in Provisioners => listener'[x].at = "merge"
    BY <1>4, CheckedOn
  <2> QED
    BY <2>2, <2>3 DEF NoneSkipped
<1>5. ASSUME NEW x \in Extensions, Skip(x) \/ Merge(x) PROVE NoneSkipped'
  BY <1>1, <1>5 DEF Skip, Merge, Spawn
<1>6. ASSUME NEW q \in Provisioners, Reply(q) \/ ReplyAliasError(q) PROVE NoneSkipped'
  BY <1>2, <1>6, StepSets DEF Reply, ReplyAliasError
<1>7. UNCHANGED listener => NoneSkipped'
  BY DEF NoneSkipped
<1>8. ASSUME NEW h \in Handlers, Execute(h) \/ TakeRequest(h) PROVE UNCHANGED listener
  BY <1>8, ExecuteEnds DEF Finish, sendToExtension, TakeRequest
<1>9. ASSUME NEW s \in Services, TimeOut(s) \/ Remove(s) PROVE UNCHANGED listener
  BY <1>9 DEF TimeOut, Remove
<1> QED
  BY <1>3, <1>4, <1>5, <1>6, <1>7, <1>8, <1>9 DEF Next, Forward, vars

\* What a step that disturbs nothing is to service s.
LEMMA CalmStepsOfService ==
  ASSUME TypeOK, NoMixUp, OneAtATime', [RestartsNext]_allVars, ~Write, ~disturbed',
         NEW s \in Services
  PROVE  \/ Same(s)
         \/ Forward
         \/ \E x \in Extensions : (Skip(x) \/ Merge(x)) /\ s = listener[x].msg.svc
         \/ \E h \in Handlers : Execute(h) /\ s = running[h].msg.svc
         \/ \E q \in Provisioners : Reply(q) /\ s = ext[q].svc /\ ~listener'[q].msg.err
         \/ Remove(s)
<1>1. ASSUME NEW p \in ProviderSteps, Provide(p) PROVE Same(s)
  BY <1>1, ProvideSame DEF Provide
<1>2. ASSUME NEW x \in Extensions, Listen(x)
      PROVE  Same(s) \/ ((Skip(x) \/ Merge(x)) /\ s = listener[x].msg.svc)
  BY <1>2, CheckSame, SkipTouches, MergeTouches, UntouchedSame DEF Listen
<1>3. ASSUME NEW h \in Handlers, Handle(h)
      PROVE  Same(s) \/ (Execute(h) /\ s = running[h].msg.svc)
  BY <1>3, ExecuteTouches, UntouchedSame DEF Handle
<1>4. ASSUME NEW h \in Handlers, Request(h) PROVE Same(s)
  BY <1>4, TakeSame DEF Request
<1>5. ForwardToRunning => Forward
  BY DEF ForwardToRunning
<1>6. ASSUME NEW q \in Provisioners, Provision(q)
      PROVE  Same(s) \/ (Reply(q) /\ s = ext[q].svc /\ ~listener'[q].msg.err)
  <2>1. ~listener'[q].msg.err
    BY <1>6 DEF Provision, Disturbed
  <2> QED
    BY <1>6, <2>1, AliasCrosses, ReplyTouches, UntouchedSame DEF Provision
<1>7. ASSUME NEW t \in Services, Close(t) PROVE FALSE
  BY <1>7 DEF Close, Disturbed
<1>8. ASSUME NEW t \in Services, Clean(t) PROVE Same(s) \/ Remove(s)
  BY <1>8, HousekeeperTouches, UntouchedSame DEF Clean
<1>9. ASSUME \/ Signal \/ StopHousekeeper \/ Truncate \/ UNCHANGED allVars
             \/ \E x \in Extensions : StopExtension(x)
      PROVE  Same(s)
  BY <1>9, StillSame DEF Signal, StopHousekeeper, Truncate, StopExtension, allVars, vars
<1>10. ~Kill
  BY DEF Kill
<1> QED
  BY <1>1, <1>2, <1>3, <1>4, <1>5, <1>6, <1>7, <1>8, <1>9, <1>10 DEF RestartsNext

LEMMA CalmUndone ==
  ASSUME EndsWithProvisioner,
         TypeOK, NoMixUp, OneAtATime, OneAtATime', InPlace, NoneSkipped,
         [RestartsNext]_allVars, ~Write, ~disturbed', ~crashed',
         NEW s \in Services, Undone(s)
  PROVE  Undone(s)'
<1>1. CASE Same(s)
  BY <1>1, SameUndone
<1>2. CASE Forward
  <2>1. Forwards(s) => forwarding.step \in Provisioners
    <3>1. forwarding # Nil => forwarding \in Message
      BY DEF TypeOK
    <3> QED
      BY <3>1 DEF Undone, Asked, Forwards
  <2> QED
    BY <1>1, <1>2, <2>1, ForwardSame
<1>3. ASSUME NEW x \in Extensions, Skip(x) PROVE Undone(s)'
  <2>1. x \notin Provisioners
    BY <1>3 DEF Skip, NoneSkipped
  <2> QED
    BY <1>1, <1>3, <2>1, SkipSame
<1>4. ASSUME NEW x \in Extensions, Merge(x), s = listener[x].msg.svc PROVE Undone(s)'
  BY <1>4, MergeUndone
<1>5. ASSUME NEW h \in Handlers, Execute(h), s = running[h].msg.svc PROVE Undone(s)'
  <2>1. ~RecurseDelete(h)
    BY DEF RecurseDelete
  <2> QED
    BY <1>5, <2>1, AddUndone, DeleteUndone, AnswerUndone DEF Execute
<1>6. ASSUME NEW q \in Provisioners, Reply(q), s = ext[q].svc, ~listener'[q].msg.err
      PROVE  Undone(s)'
  BY <1>6, ReplyUndone
<1>7. Remove(s) => Undone(s)'
  BY RemoveUndone
<1> QED
  BY <1>1, <1>2, <1>3, <1>4, <1>5, <1>6, <1>7, CalmStepsOfService

\* A process that crashed stays so until it is started again.
LEMMA StaysCrashed ==
  ASSUME crashed, [Next]_vars
  PROVE  crashed'
BY DEF Next, vars, SomeProviderSends, ProviderSend, Check, Skip, Merge, Execute, ExecuteAdd,
       ExecuteDelete, RecurseDelete, ExecuteReply, Runs, TakeRequest, Forward, Reply,
       ReplyAliasError, TimeOut, Remove

AllUndone == ~disturbed /\ ~crashed => NoneSkipped /\ \A s \in Services : Undone(s)

LEMMA RestartsUndone ==
  ASSUME EndsWithProvisioner,
         RestartsTypeOK, NoMixUp, OneAtATime, OneAtATime', InPlace, AllUndone,
         [RestartsNext]_allVars
  PROVE  AllUndone'
<1> SUFFICES ASSUME ~disturbed', ~crashed'
             PROVE  NoneSkipped' /\ \A s \in Services : Undone(s)'
  BY DEF AllUndone
<1>1. TypeOK /\ ~Kill
  BY DEF RestartsTypeOK, Kill
<1>2. CASE Write
  <2>1. ~disturbed /\ ~crashed /\ ~Unbegun /\ ~Unheard /\ ~InProgress
    BY <1>2 DEF Write
  <2>2. \A s \in Services : Undone(s)'
    BY <1>2, <2>1, LoadedUndone DEF AllUndone
  <2>3. NoneSkipped'
    BY <1>1, <1>2, ImageType, Started, StepSets DEF Write, NoneSkipped
  <2> QED
    BY <2>2, <2>3
<1>3. CASE ~Write
  <2>1. [Next]_vars
    BY <1>1, <1>3, EngineSteps
  <2>2. ~disturbed
    BY <1>1, <1>3, OwnParts DEF allVars, history
  <2>3. ~crashed
    BY <2>1, StaysCrashed
  <2>4. NoneSkipped /\ \A s \in Services : Undone(s)
    BY <2>2, <2>3 DEF AllUndone
  <2>5. \A s \in Services : Undone(s)'
    BY <1>1, <1>3, <2>4, CalmUndone
  <2>6. NoneSkipped'
    BY <1>1, <2>1, <2>4, EngineNoneSkipped
  <2> QED
    BY <2>5, <2>6
<1> QED
  BY <1>2, <1>3

\* When nothing is in flight nobody is at work on s.
LEMMA UndoneIsGone ==
  ASSUME IsFiniteSet(Handlers), TypeOK, AllUndone
  PROVE  UndeployedSurvives
<1> SUFFICES ASSUME ~disturbed, InFlight = 0, ~crashed, NEW s \in Services,
                    table[s] # Nil => heap[table[s]].state = Undeployed
             PROVE  AllGone(s)
  BY DEF UndeployedSurvives, UndeployedIsGone, AllGone
<1>1. Undone(s)
  BY DEF AllUndone
<1>2. ~Taken(s)
  BY NothingInFlight DEF Taken, WorksOn, Answered, Heard, Hears, Carried, Carries
<1> QED
  BY <1>1, <1>2 DEF Undone, Settled

\* Nothing is left of a service that is forgotten, or shown as undeployed without error,
\* across any number of shutdowns: as long as nothing failed or timed out, no
\* provider announced again that a service is gone that was on its way back, no
\* work was cut, and the messages about one service do not cross (those about
\* different services may).
THEOREM UndeployedIsKept ==
  ASSUME EndsWithProvisioner, IsFiniteSet(Handlers)
  PROVE  RestartsSpec /\ []OneAtATime => []UndeployedSurvives
<1>1. RestartsInit => InPlace /\ AllUndone
  <2> SUFFICES ASSUME RestartsInit PROVE InPlace /\ AllUndone
    OBVIOUS
  <2>1. /\ \A x \in Extensions : listener[x] = Nil
        /\ \A h \in Handlers : running[h] = Nil /\ sending[h] = Nil
        /\ forwarding = Nil
        /\ \A q \in Provisioners : ext[q] = Nil
        /\ \A s \in Services : table[s] = Nil /\ AllGone(s)
    BY DEF RestartsInit, Init, AllGone
  <2>2. \A s \in Services : Silent(s)
    BY <2>1 DEF Silent, Asked, Carried, Answered, Heard, Sends, Forwards, WorksOn, Carries, Hears
  <2>3. \A s \in Services : Undone(s)
    BY <2>1, <2>2 DEF Undone, Silent
  <2> QED
    BY <2>1, <2>3, StepSets DEF InPlace, AllUndone, NoneSkipped, Carries
<1>2. RestartsTypeOK /\ NoMixUp /\ OneAtATime /\ OneAtATime' /\ InPlace /\ AllUndone
        /\ [RestartsNext]_allVars => InPlace' /\ AllUndone'
  BY RestartsInPlace, RestartsUndone
<1>3. RestartsTypeOK /\ AllUndone => UndeployedSurvives
  BY UndoneIsGone DEF RestartsTypeOK
<1> QED
  BY <1>1, <1>2, <1>3, RestartsTypes, RestartsMixNothing, PTL DEF RestartsSpec

-----------------------------------------------------------------------------
(* One message at a time. *)

\* The number of handlers bounds the messages, and not only the handlers at work.
Bounded == InFlight <= Cardinality(Handlers)

\* A message more is one more at its listener.
LEMMA ReceivedInFlight ==
  ASSUME IsFiniteSet(Handlers), TypeOK, NEW x \in Extensions, NEW m, Receive(x, m),
         UNCHANGED <<running, sending, forwarding>>, Occupied' \subseteq Occupied
  PROVE  InFlight' <= InFlight + 1
<1>1. \E r : listener' = [listener EXCEPT ![x] = r]
  BY DEF Receive
<1>2. Hearing' \subseteq Hearing \cup {x}
  BY <1>1 DEF Hearing, TypeOK
<1>3. Cardinality(Hearing') \in Nat /\ Cardinality(Hearing') <= Cardinality(Hearing) + 1
  BY <1>2, FiniteParts, OneMore
<1>4. Cardinality(Occupied') \in Nat /\ Cardinality(Occupied') <= Cardinality(Occupied)
  BY FiniteParts, NoneMore
<1>5. InFlight' = Cardinality(Working) + Cardinality(Hearing') + Cardinality(Occupied') + Held
  BY DEF InFlight, Working, Hearing, Occupied, Held, Busy
<1> QED
  BY <1>3, <1>4, <1>5, InFlightParts

LEMMA StepBounded ==
  ASSUME IsFiniteSet(Handlers), TypeOK, NoMixUp, Bounded, [Next]_vars
  PROVE  Bounded'
<1>1. InFlight \in Nat /\ InFlight' \in Nat /\ Cardinality(Handlers) \in Nat
  <2>1. InFlight \in Nat
    BY InFlightParts
  <2>2. IsFiniteSet(Working') /\ IsFiniteSet(Hearing') /\ IsFiniteSet(Occupied')
    <3>1. IsFiniteSet(Extensions)
      BY StepsAssumption, FS_Interval DEF Extensions
    <3>2. Working' \subseteq Handlers /\ Hearing' \subseteq Extensions
          /\ Occupied' \subseteq Extensions
      BY StepSets DEF Working, Hearing, Occupied
    <3> QED
      BY <3>1, <3>2, FS_Subset
  <2>3. InFlight' = Cardinality(Working') + Cardinality(Hearing') + Cardinality(Occupied') + Held'
    BY DEF InFlight, Working, Hearing, Occupied, Held
  <2>4. Held' \in {0, 1}
    BY DEF Held
  <2> QED
    BY <2>1, <2>2, <2>3, <2>4, FS_CardinalityType
<1>2. ASSUME NEW p \in ProviderSteps, NEW msg, ProviderSend(p, msg) PROVE Bounded'
  <2>1. Receive(p, msg) /\ UNCHANGED <<running, sending, forwarding, ext>>
        /\ InFlight < Cardinality(Handlers)
    BY <1>2 DEF ProviderSend
  <2>2. p \in Extensions
    BY StepsAssumption DEF Extensions
  <2>3. InFlight' <= InFlight + 1
    BY <2>1, <2>2, ReceivedInFlight DEF Occupied
  <2> QED
    BY <1>1, <2>1, <2>3 DEF Bounded
<1>3. ASSUME NEW q \in Provisioners, ReplyAliasError(q) PROVE Bounded'
  <2>1. /\ UNCHANGED <<running, sending, forwarding>> /\ InFlight < Cardinality(Handlers)
        /\ ext[q] # Nil /\ ext' = [ext EXCEPT ![q].err = TRUE]
    BY <1>3 DEF ReplyAliasError
  <2>2. PICK m : Receive(q, m)
    BY <1>3 DEF ReplyAliasError
  <2>3. q \in Extensions
    BY StepSets
  <2>4. Occupied' \subseteq Occupied
    BY <2>1 DEF Occupied, TypeOK
  <2>5. InFlight' <= InFlight + 1
    BY <2>1, <2>2, <2>3, <2>4, ReceivedInFlight
  <2> QED
    BY <1>1, <2>1, <2>5 DEF Bounded
<1>4. ASSUME ~SomeProviderSends, ~SomeAliasFails PROVE Bounded'
  BY <1>1, <1>4, StepTakes DEF Bounded
<1> QED
  BY <1>2, <1>3, <1>4 DEF SomeProviderSends, SomeAliasFails

\* At a start nobody has a message.
LEMMA StartBounded ==
  ASSUME IsFiniteSet(Handlers), NEW image \in Images, Start(image)
  PROVE  Bounded'
<1>1. Working' = {} /\ Hearing' = {} /\ Occupied' = {} /\ Held' = 0
  BY Started DEF Working, Hearing, Occupied, Held, Busy
<1>2. InFlight' = Cardinality(Working') + Cardinality(Hearing') + Cardinality(Occupied') + Held'
  BY DEF InFlight, Working, Hearing, Occupied, Held
<1>3. Cardinality({}) = 0 /\ Cardinality(Handlers) \in Nat
  BY FS_EmptySet, FS_CardinalityType
<1> QED
  BY <1>1, <1>2, <1>3 DEF Bounded

\* With one message at most, whoever holds one is the only one.
LEMMA BoundedIsAlone ==
  ASSUME IsFiniteSet(Handlers), Cardinality(Handlers) = 1, Bounded
  PROVE  OneAtATime
<1>1. /\ Cardinality(Working) + Cardinality(Hearing) + Cardinality(Occupied) + Held <= 1
      /\ Cardinality(Working) \in Nat /\ Cardinality(Hearing) \in Nat
      /\ Cardinality(Occupied) \in Nat /\ Held \in {0, 1}
  BY InFlightParts DEF Bounded
<1>2. /\ Working # {} => Cardinality(Working) # 0
      /\ Hearing # {} => Cardinality(Hearing) # 0
      /\ Occupied # {} => Cardinality(Occupied) # 0
      /\ forwarding # Nil => Held = 1
  BY FiniteParts, FS_EmptySet DEF Held
<1>3. ASSUME NEW S, IsFiniteSet(S), Cardinality(S) <= 1, NEW a \in S, NEW b \in S PROVE a = b
  <2>1. SUFFICES ASSUME a # b PROVE FALSE
    OBVIOUS
  <2>2. {b} \subseteq S \ {a}
    BY <2>1
  <2>3. Cardinality({b}) \in Nat /\ Cardinality({b}) <= Cardinality(S) - 1
    BY <1>3, <2>2, OneLess
  <2>4. Cardinality({b}) = 1
    BY FS_Singleton
  <2>5. Cardinality(S) \in Nat
    BY <1>3, FS_CardinalityType
  <2> QED
    BY <1>3, <2>3, <2>4, <2>5
<1>4. /\ \A g, h \in Working : g = h
      /\ \A x, y \in Hearing : x = y
      /\ \A q, r \in Occupied : q = r
  <2>1. Cardinality(Working) <= 1 /\ Cardinality(Hearing) <= 1 /\ Cardinality(Occupied) <= 1
    BY <1>1
  <2> QED
    BY <1>3, <2>1, FiniteParts
<1>5. /\ Working # {} => Hearing = {} /\ Occupied = {} /\ forwarding = Nil
      /\ Hearing # {} => Occupied = {} /\ forwarding = Nil
      /\ Occupied # {} => forwarding = Nil
  <2> DEFINE w == Cardinality(Working)
             x == Cardinality(Hearing)
             o == Cardinality(Occupied)
  <2>1. \A i, j, k, l \in Nat :
          i + j + k + l <= 1 => /\ i # 0 => j = 0 /\ k = 0 /\ l = 0
                                /\ j # 0 => k = 0 /\ l = 0
                                /\ k # 0 => l = 0
    OBVIOUS
  <2>2. w \in Nat /\ x \in Nat /\ o \in Nat /\ Held \in Nat /\ w + x + o + Held <= 1
    BY <1>1
  <2>3. /\ w # 0 => x = 0 /\ o = 0 /\ Held = 0
        /\ x # 0 => o = 0 /\ Held = 0
        /\ o # 0 => Held = 0
    <3> HIDE DEF w, x, o
    <3> QED
      BY <2>1, <2>2
  <2>4. /\ Working # {} => w # 0
        /\ Hearing # {} => x # 0
        /\ Occupied # {} => o # 0
        /\ forwarding # Nil => Held # 0
    BY <1>2
  <2> HIDE DEF w, x, o
  <2> QED
    BY <2>3, <2>4
<1>6. ASSUME NEW s \in Services, NEW a \in Holders(s), NEW b \in Holders(s) PROVE a = b
  <2>1. \A c \in Holders(s) : \/ \E h \in Working : c = <<"handler", h>>
                              \/ \E x \in Hearing : c = <<"listener", x>>
                              \/ \E q \in Occupied : c = <<"extension", q>>
                              \/ forwarding # Nil /\ c = <<"sender", 0>>
    <3> TAKE c \in Holders(s)
    <3>1. \A h \in Handlers : Carries(h, s) \/ Sends(h, s) => h \in Working
      BY DEF Carries, Sends, Working, Busy
    <3>2. \A x \in Extensions : Hears(x, s) => x \in Hearing
      BY DEF Hears, Hearing
    <3>3. \A q \in Provisioners : WorksOn(q, s) => q \in Occupied
      BY DEF WorksOn, Occupied
    <3>4. Forwards(s) => forwarding # Nil
      BY DEF Forwards
    <3> QED
      BY <3>1, <3>2, <3>3, <3>4 DEF Holders
  <2>2. CASE Working # {}
    <3>1. Hearing = {} /\ Occupied = {} /\ forwarding = Nil
      BY <1>5, <2>2
    <3>2. \A c \in Holders(s) : \E h \in Working : c = <<"handler", h>>
      BY <2>1, <3>1
    <3> QED
      BY <1>4, <1>6, <3>2
  <2>3. CASE Hearing # {}
    <3>1. Working = {} /\ Occupied = {} /\ forwarding = Nil
      BY <1>5, <2>3
    <3>2. \A c \in Holders(s) : \E x \in Hearing : c = <<"listener", x>>
      BY <2>1, <3>1
    <3> QED
      BY <1>4, <1>6, <3>2
  <2>4. CASE Occupied # {}
    <3>1. Working = {} /\ Hearing = {} /\ forwarding = Nil
      BY <1>5, <2>4
    <3>2. \A c \in Holders(s) : \E q \in Occupied : c = <<"extension", q>>
      BY <2>1, <3>1
    <3> QED
      BY <1>4, <1>6, <3>2
  <2>5. CASE Working = {} /\ Hearing = {} /\ Occupied = {}
    <3>1. \A c \in Holders(s) : c = <<"sender", 0>>
      BY <2>1, <2>5
    <3> QED
      BY <1>6, <3>1
  <2> QED
    BY <2>2, <2>3, <2>4, <2>5
<1> QED
  BY <1>6 DEF OneAtATime

\* With one handler no two messages are about at once (ProviderSend and ReplyAliasError
\* wait until there is room), so that none of them cross: the instance TLC checks, for
\* every workflow and any number of services and restarts.
THEOREM OneHandlerOneMessage ==
  ASSUME IsFiniteSet(Handlers), Cardinality(Handlers) = 1
  PROVE  RestartsSpec => []OneAtATime
<1>1. RestartsInit => Bounded
  <2> SUFFICES ASSUME RestartsInit PROVE Bounded
    OBVIOUS
  <2>1. Working = {} /\ Hearing = {} /\ Occupied = {} /\ Held = 0
    BY DEF RestartsInit, Init, Working, Hearing, Occupied, Held, Busy
  <2> QED
    BY <2>1, InFlightParts, FS_EmptySet DEF Bounded
<1>2. ASSUME RestartsTypeOK, NoMixUp, Bounded, [RestartsNext]_allVars PROVE Bounded'
  <2>1. CASE [Next]_vars
    BY <1>2, <2>1, StepBounded DEF RestartsTypeOK
  <2>2. CASE Write
    BY <1>2, <2>2, ImageType, StartBounded DEF Write, RestartsTypeOK
  <2>3. CASE Kill
    BY <1>2, <2>3, StartBounded DEF Kill, RestartsTypeOK
  <2> QED
    BY <1>2, <2>1, <2>2, <2>3, EngineSteps
<1>3. Bounded => OneAtATime
  BY BoundedIsAlone
<1> QED
  BY <1>1, <1>2, <1>3, RestartsTypes, RestartsMixNothing, PTL DEF RestartsSpec

\* What is deployed stays as its entry says, and what is undeployed stays gone, with
\* nothing supposed of the messages but that there is one at a time.
THEOREM OneMessageKeepsBoth ==
  ASSUME EndsWithProvisioner,
         ProvidersFirst, IsFiniteSet(Handlers), Cardinality(Handlers) = 1
  PROVE  RestartsSpec => [](DeployedSurvives /\ UndeployedSurvives)
BY OneHandlerOneMessage, DeployedIsKept, UndeployedIsKept, PTL
=============================================================================
