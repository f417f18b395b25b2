---------------------------- MODULE IPAllocProofs ----------------------------
(***************************************************************************)
(* Theorems about the IP allocator, for every network, any services and      *)
(* whatever faults: its type invariant, that it records each address and     *)
(* each service once, and that, as long as its saves succeed, an address in   *)
(* use is recorded and used by one service.                                  *)
(***************************************************************************)
EXTENDS IPAlloc, TLAPS, WellFoundedInduction

\* The record of an address for a service.
Entry(ip, svc) == [IP |-> ip, Host |-> svc]

OneEach(list) ==
  \A r1, r2 \in list : r1.IP = r2.IP \/ r1.Host = r2.Host => r1 = r2

\* What would be loaded after a restart also holds each address and service once.
FileOneEach == OneEach(load(file))

\* The address of the answer under way is recorded.
AnswerIsRecorded ==
  at # "select" /\ job.ip # None => Entry(job.ip, job.svc) \in records

\* The file holds the list, but for the change under way, and parses, but for the
\* write under way.
FileIsList ==
  ~damaged => /\ at \in {"select", "answer"} => file = records
              /\ at # "write" => file # Torn

\* Between requests there is no request.
RequestUnderWay == at = "select" <=> job = None

\* What HeldIsRecorded rests on.
IInv == AnswerIsRecorded /\ FileIsList /\ HeldIsRecorded

-----------------------------------------------------------------------------
LEMMA EntryFields ==
  ASSUME NEW ip \in Addresses, NEW svc \in Services
  PROVE  Entry(ip, svc) \in Records /\ Entry(ip, svc).IP = ip /\ Entry(ip, svc).Host = svc
BY DEF Entry, Records

\* A record is told by its two fields.
LEMMA RecordIsEntry ==
  ASSUME NEW rec \in Records
  PROVE  rec = Entry(rec.IP, rec.Host) /\ rec.IP \in Addresses /\ rec.Host \in Services
BY DEF Entry, Records

\* The address addService finds is free (its scan goes upwards from the network's).
LEMMA MinIsFree ==
  ASSUME Free # {}
  PROVE  Min(Free) \in Free
<1>1. Free \subseteq Nat
  BY IPAllocAssumption DEF Free, Usable, Addresses
<1>2. PICK m \in Free : \A i \in Free : ~(<<i, m>> \in OpToRel(<, Nat))
  BY <1>1, NatLessThanWellFounded, WFMin
<1>3. \A i \in Free : ~(i < m)
  BY <1>1, <1>2, Zenon DEF OpToRel
<1>4. \A i \in Free : m =< i
  BY <1>1, <1>3
<1> QED
  BY <1>4 DEF Min

LEMMA LoadType ==
  ASSUME TypeOK
  PROVE  load(file) \subseteq Records
BY DEF TypeOK, load

\* A list of records is not what a torn file holds.
LEMMA ListIsNotTorn ==
  ASSUME NEW list \in SUBSET Records
  PROVE  list # Torn /\ load(list) = list
BY NoneAssumption DEF Torn, load

-----------------------------------------------------------------------------
(* Types. *)

LEMMA NewRecord ==
  ASSUME NEW svc \in Services, AddNew(svc)
  PROVE  /\ Min(Free) \in Addresses
         /\ Entry(Min(Free), svc) \in Records
         /\ records' = records \cup {Entry(Min(Free), svc)}
         /\ \A rec \in records : rec.IP # Min(Free) /\ rec.Host # svc
<1>1. Min(Free) \in Free
  BY MinIsFree DEF AddNew
<1>2. Min(Free) \in Addresses /\ isIPFree(Min(Free))
  BY <1>1 DEF Free, Usable
<1> QED
  BY <1>2, EntryFields DEF AddNew, Entry, isIPFree, serviceExist, recordsOf

LEMMA TakeType ==
  ASSUME TypeOK, NEW svc \in Services, NEW action \in {"add", "delete"},
         NEW ip \in Addresses \cup {None}, NEW err \in BOOLEAN,
         NEW place \in Places \ {"select"},
         Take(svc, action, ip, err, place), records' \in SUBSET Records
  PROVE  TypeOK' /\ RequestUnderWay'
<1>1. held' \in [Services -> Addresses \cup {None}]
  BY DEF TypeOK, Take
<1>2. job' \in Jobs
  BY DEF Take, Jobs
<1>3. RequestUnderWay'
  BY <1>2, NoneAssumption DEF Take, RequestUnderWay
<1> QED
  BY <1>1, <1>2, <1>3 DEF TypeOK, Take

LEMMA StepType == TypeOK /\ RequestUnderWay /\ [Next]_vars => TypeOK' /\ RequestUnderWay'
<1> SUFFICES ASSUME TypeOK, RequestUnderWay, [Next]_vars PROVE TypeOK' /\ RequestUnderWay'
  OBVIOUS
<1>0. {"truncate", "write", "answer"} = Places \ {"select"}
  BY DEF Places
<1>1. ASSUME NEW svc \in Services, AddKnown(svc) PROVE TypeOK' /\ RequestUnderWay'
  <2>1. PICK rec \in records : Take(svc, "add", rec.IP, FALSE, "answer")
    BY <1>1 DEF AddKnown, recordsOf
  <2>2. rec.IP \in Addresses /\ records' \in SUBSET Records
    BY <1>1, <2>1, RecordIsEntry DEF AddKnown, TypeOK
  <2> QED
    BY <1>0, <2>1, <2>2, TakeType
<1>2. ASSUME NEW svc \in Services, AddNew(svc) PROVE TypeOK' /\ RequestUnderWay'
  <2>1. Min(Free) \in Addresses /\ records' \in SUBSET Records
    BY <1>2, NewRecord DEF TypeOK
  <2>2. Take(svc, "add", Min(Free), FALSE, "truncate")
    BY <1>2 DEF AddNew
  <2> QED
    BY <1>0, <2>1, <2>2, TakeType
<1>3. ASSUME NEW svc \in Services, AddFull(svc) PROVE TypeOK' /\ RequestUnderWay'
  BY <1>0, <1>3, TakeType DEF AddFull, TypeOK
<1>4. ASSUME NEW svc \in Services, DeleteKnown(svc) PROVE TypeOK' /\ RequestUnderWay'
  <2>1. records' \in SUBSET Records /\ Take(svc, "delete", None, FALSE, "truncate")
    BY <1>4 DEF DeleteKnown, TypeOK
  <2> QED
    BY <1>0, <2>1, TakeType
<1>5. ASSUME NEW svc \in Services, DeleteUnknown(svc) PROVE TypeOK' /\ RequestUnderWay'
  BY <1>0, <1>5, TakeType DEF DeleteUnknown, TypeOK
<1>6. CASE Truncate
  BY <1>6 DEF Truncate, TypeOK, RequestUnderWay, Places
<1>7. CASE Write
  BY <1>7 DEF Write, TypeOK, RequestUnderWay, Places
<1>8. CASE SaveFails
  BY <1>8 DEF SaveFails, TypeOK, RequestUnderWay, Places
<1>9. CASE Answer
  <2>1. job \in Jobs
    BY <1>9 DEF TypeOK, RequestUnderWay, Answer
  <2>2. held' \in [Services -> Addresses \cup {None}]
    BY <1>9, <2>1 DEF Answer, TypeOK, Jobs
  <2> QED
    BY <1>9, <2>2 DEF Answer, TypeOK, RequestUnderWay, Places
<1>10. CASE Restart
  BY <1>10, LoadType DEF Restart, TypeOK, RequestUnderWay, Places
<1>11. CASE UNCHANGED vars
  BY <1>11 DEF vars, TypeOK, RequestUnderWay
<1> QED
  BY <1>1, <1>2, <1>3, <1>4, <1>5, <1>6, <1>7, <1>8, <1>9, <1>10, <1>11 DEF Next

\* The list, the file and the goroutine's request are what the code can make
\* them, and there is a request exactly while the goroutine works on one.
THEOREM AllocTypeCorrect == Spec => [](TypeOK /\ RequestUnderWay)
<1>1. Init => TypeOK /\ RequestUnderWay
  BY DEF Init, TypeOK, Places, RequestUnderWay
<1> QED
  BY <1>1, StepType, PTL DEF Spec

-----------------------------------------------------------------------------
(* The list and the file hold each address and each service once. *)

LEMMA OneEachAdds ==
  ASSUME OneRecordEach, NEW ip \in Addresses, NEW svc \in Services,
         \A rec \in records : rec.IP # ip /\ rec.Host # svc
  PROVE  OneEach(records \cup {Entry(ip, svc)})
BY EntryFields DEF OneRecordEach, OneEach

LEMMA StepOneEach ==
  TypeOK /\ OneRecordEach /\ FileOneEach /\ [Next]_vars => OneRecordEach' /\ FileOneEach'
<1> SUFFICES ASSUME TypeOK, OneRecordEach, FileOneEach, [Next]_vars
             PROVE  OneEach(records') /\ OneEach(load(file)')
  BY DEF OneRecordEach, FileOneEach, OneEach
<1>0. OneEach(records) /\ OneEach(load(file))
  BY DEF OneRecordEach, FileOneEach, OneEach
<1>1. CASE UNCHANGED file /\ (records' \subseteq records \/ records' = load(file))
  BY <1>0, <1>1 DEF OneEach, load
<1>2. ASSUME NEW svc \in Services, AddNew(svc) PROVE OneEach(records') /\ OneEach(load(file)')
  <2>1. OneEach(records')
    BY <1>2, NewRecord, OneEachAdds
  <2>2. UNCHANGED file
    BY <1>2 DEF AddNew, Take
  <2> QED
    BY <1>0, <2>1, <2>2 DEF load
<1>3. CASE Truncate
  BY <1>0, <1>3 DEF Truncate, load, OneEach
<1>4. CASE Write
  <2>1. records \in SUBSET Records
    BY DEF TypeOK
  <2> QED
    BY <1>0, <1>4, <2>1, ListIsNotTorn DEF Write, load
<1>5. ASSUME NEW svc \in Services, AddKnown(svc) \/ AddFull(svc) \/ DeleteUnknown(svc) \/ DeleteKnown(svc)
      PROVE  UNCHANGED file /\ records' \subseteq records
  BY <1>5 DEF AddKnown, AddFull, DeleteUnknown, DeleteKnown, Take
<1>6. SaveFails \/ Answer \/ UNCHANGED vars => UNCHANGED file /\ records' = records
  BY DEF SaveFails, Answer, vars
<1>7. Restart => UNCHANGED file /\ records' = load(file)
  BY DEF Restart
<1> QED
  BY <1>1, <1>2, <1>3, <1>4, <1>5, <1>6, <1>7 DEF Next

\* Whatever saves fail or are cut, no address and no service is recorded twice.
THEOREM RecordedOnce == Spec => []OneRecordEach
<1>1. Init => OneRecordEach /\ FileOneEach
  <2> SUFFICES ASSUME Init PROVE records = {} /\ load(file) = {}
    BY DEF OneRecordEach, FileOneEach, OneEach
  <2> QED
    BY DEF Init, load
<1>2. Init => TypeOK /\ RequestUnderWay
  BY DEF Init, TypeOK, Places, RequestUnderWay
<1> QED
  BY <1>1, <1>2, StepType, StepOneEach, PTL DEF Spec

-----------------------------------------------------------------------------
(* An address in use is recorded. *)

\* A request is taken: nobody else's address is disturbed.
LEMMA TakeKeeps ==
  ASSUME TypeOK, IInv, NEW svc \in Services, NEW action \in {"add", "delete"},
         NEW ip, NEW err \in BOOLEAN, NEW place,
         Take(svc, action, ip, err, place),
         \A rec \in records : rec \in records' \/ (action = "delete" /\ rec.Host = svc)
  PROVE  HeldIsRecorded'
<1> SUFFICES ASSUME ~damaged, NEW s \in Services, held'[s] # None
             PROVE  /\ Entry(held'[s], s) \in records'
                    /\ Entry(held'[s], s) \in load(file)'
  BY DEF HeldIsRecorded, Entry, Take
<1>1. held'[s] = held[s] /\ (action = "delete" => s # svc)
  BY DEF Take, TypeOK
<1>2. Entry(held[s], s) \in records /\ Entry(held[s], s) \in load(file)
  BY <1>1 DEF IInv, HeldIsRecorded, Entry, Take
<1>3. Entry(held[s], s).Host = s
  BY DEF Entry
<1> QED
  BY <1>1, <1>2, <1>3 DEF Take, load

\* Where the answer, if it is an address, is recorded, the rest follows.
LEMMA TakeKeepsAll ==
  ASSUME TypeOK, IInv, NEW svc \in Services, NEW action \in {"add", "delete"},
         NEW ip, NEW err \in BOOLEAN, NEW place \in {"truncate", "answer"},
         Take(svc, action, ip, err, place),
         \A rec \in records : rec \in records' \/ (action = "delete" /\ rec.Host = svc),
         ip # None => Entry(ip, svc) \in records',
         place = "answer" => records' = records
  PROVE  IInv'
<1>1. HeldIsRecorded'
  BY TakeKeeps
<1>2. AnswerIsRecorded'
  BY DEF AnswerIsRecorded, Take
<1>3. FileIsList'
  BY DEF IInv, FileIsList, Take
<1> QED
  BY <1>1, <1>2, <1>3 DEF IInv

LEMMA AnswerKeeps ==
  ASSUME TypeOK, RequestUnderWay, IInv, Answer
  PROVE  IInv'
<1>1. job \in Jobs
  BY DEF TypeOK, RequestUnderWay, Answer
<1>2. AnswerIsRecorded' /\ FileIsList'
  BY DEF AnswerIsRecorded, FileIsList, IInv, Answer
<1>3. ASSUME ~damaged, NEW s \in Services, held'[s] # None
      PROVE  Entry(held'[s], s) \in records
  <2>1. CASE held'[s] = held[s]
    BY <1>3, <2>1 DEF IInv, HeldIsRecorded, Entry
  <2>2. CASE held'[s] # held[s]
    <3>1. job.ip # None /\ s = job.svc /\ held'[s] = job.ip
      BY <1>1, <2>2 DEF Answer, TypeOK, Jobs
    <3> QED
      BY <3>1 DEF IInv, AnswerIsRecorded, Answer
  <2> QED
    BY <2>1, <2>2
<1>4. ~damaged => load(file) = records
  BY ListIsNotTorn DEF IInv, FileIsList, Answer, TypeOK
<1>5. HeldIsRecorded'
  BY <1>3, <1>4 DEF HeldIsRecorded, Entry, Answer, load
<1> QED
  BY <1>2, <1>5 DEF IInv

LEMMA StepKeeps ==
  TypeOK /\ RequestUnderWay /\ IInv /\ [Next]_vars => IInv'
<1> SUFFICES ASSUME TypeOK, RequestUnderWay, IInv, [Next]_vars PROVE IInv'
  OBVIOUS
<1>1. ASSUME NEW svc \in Services, AddKnown(svc) PROVE IInv'
  <2>1. PICK rec \in records : rec.Host = svc /\ Take(svc, "add", rec.IP, FALSE, "answer") /\ UNCHANGED records
    BY <1>1 DEF AddKnown, recordsOf
  <2>2. Entry(rec.IP, svc) \in records'
    BY <2>1, RecordIsEntry DEF TypeOK
  <2> QED
    BY <2>1, <2>2, TakeKeepsAll
<1>2. ASSUME NEW svc \in Services, AddNew(svc) PROVE IInv'
  <2>1. Take(svc, "add", Min(Free), FALSE, "truncate")
    BY <1>2 DEF AddNew
  <2>2. records' = records \cup {Entry(Min(Free), svc)}
    BY <1>2, NewRecord
  <2> QED
    BY <2>1, <2>2, TakeKeepsAll
<1>3. ASSUME NEW svc \in Services, AddFull(svc) PROVE IInv'
  <2>1. Take(svc, "add", None, TRUE, "answer") /\ UNCHANGED records
    BY <1>3 DEF AddFull
  <2> QED
    BY <2>1, TakeKeepsAll
<1>4. ASSUME NEW svc \in Services, DeleteKnown(svc) PROVE IInv'
  <2>1. PICK rec \in records : /\ rec.Host = svc
                               /\ Take(svc, "delete", None, FALSE, "truncate")
                               /\ records' = records \ {rec}
    BY <1>4 DEF DeleteKnown, recordsOf
  <2> QED
    BY <2>1, TakeKeepsAll
<1>5. ASSUME NEW svc \in Services, DeleteUnknown(svc) PROVE IInv'
  <2>1. Take(svc, "delete", None, TRUE, "answer") /\ UNCHANGED records
    BY <1>5 DEF DeleteUnknown
  <2> QED
    BY <2>1, TakeKeepsAll
<1>6. CASE Truncate
  <2>1. HeldIsRecorded'
    BY <1>6 DEF Truncate, IInv, HeldIsRecorded
  <2> QED
    BY <1>6, <2>1 DEF Truncate, IInv, AnswerIsRecorded, FileIsList
<1>7. CASE Write
  <2>1. file' = records /\ file' # Torn /\ load(file)' = records
    BY <1>7, ListIsNotTorn DEF Write, TypeOK, load
  <2>2. HeldIsRecorded'
    BY <1>7, <2>1 DEF Write, IInv, HeldIsRecorded
  <2> QED
    BY <1>7, <2>1, <2>2 DEF Write, IInv, AnswerIsRecorded, FileIsList
<1>8. CASE SaveFails
  BY <1>8 DEF SaveFails, IInv, AnswerIsRecorded, FileIsList, HeldIsRecorded
<1>9. CASE Answer
  BY <1>9, AnswerKeeps
<1>10. CASE Restart
  <2>1. ~damaged' => ~damaged /\ file # Torn /\ records' = file /\ load(file) = file
    BY <1>10 DEF Restart, IInv, FileIsList, load
  <2>2. HeldIsRecorded'
    BY <1>10, <2>1 DEF Restart, IInv, HeldIsRecorded, load
  <2> QED
    BY <1>10, <2>1, <2>2 DEF Restart, IInv, AnswerIsRecorded, FileIsList
<1>11. CASE UNCHANGED vars
  BY <1>11 DEF vars, IInv, AnswerIsRecorded, FileIsList, HeldIsRecorded, load
<1> QED
  BY <1>1, <1>2, <1>3, <1>4, <1>5, <1>6, <1>7, <1>8, <1>9, <1>10, <1>11 DEF Next

LEMMA InitKeeps == Init => TypeOK /\ RequestUnderWay /\ IInv
<1> SUFFICES ASSUME Init PROVE TypeOK /\ RequestUnderWay /\ IInv
  OBVIOUS
<1>1. TypeOK /\ RequestUnderWay
  BY DEF Init, TypeOK, Places, RequestUnderWay
<1>2. file # Torn
  BY DEF Init, Torn
<1> QED
  BY <1>1, <1>2 DEF Init, IInv, AnswerIsRecorded, FileIsList, HeldIsRecorded

\* As long as saves succeed, a restart never loses an address in use.
THEOREM HeldStaysRecorded == Spec => []HeldIsRecorded
<1>1. IInv => HeldIsRecorded
  BY DEF IInv
<1> QED
  BY <1>1, InitKeeps, StepType, StepKeeps, PTL DEF Spec

\* As long as saves succeed, no two services use one address, whatever the
\* allocator was doing when it was restarted.
THEOREM NeverShared == Spec => []NoSharedAddress
<1>1. OneRecordEach /\ HeldIsRecorded => NoSharedAddress
  <2> SUFFICES ASSUME OneRecordEach, HeldIsRecorded, ~damaged,
                      NEW s1 \in Services, NEW s2 \in Services,
                      held[s1] = held[s2], held[s1] # None
               PROVE  s1 = s2
    BY DEF NoSharedAddress
  <2>1. Entry(held[s1], s1) \in records /\ Entry(held[s2], s2) \in records
    BY DEF HeldIsRecorded, Entry
  <2>2. Entry(held[s1], s1).IP = Entry(held[s2], s2).IP
    BY DEF Entry
  <2>3. Entry(held[s1], s1) = Entry(held[s2], s2)
    BY <2>1, <2>2 DEF OneRecordEach
  <2>4. Entry(held[s1], s1).Host = s1 /\ Entry(held[s2], s2).Host = s2
    BY DEF Entry
  <2> QED
    BY <2>3, <2>4
<1> QED
  BY <1>1, RecordedOnce, HeldStaysRecorded, PTL
=============================================================================
