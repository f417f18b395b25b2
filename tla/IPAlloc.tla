------------------------------- MODULE IPAlloc -------------------------------
(***************************************************************************)
(* The IP allocator (src/provisioner/ipam/ipalloc/ipalloc.go): one goroutine *)
(* that keeps the list of allocated addresses in memory, and rewrites a JSON *)
(* file after each change and before it answers.  The process may stop and   *)
(* be started again at any moment; what it answered outlives it, in the      *)
(* other provisioners.                                                       *)
(*                                                                           *)
(* An IPv4 address is the integer its bytes make, so that incrementIP, with  *)
(* its carry, adds one.                                                      *)
(***************************************************************************)
EXTENDS Integers, FiniteSets, FiniteSetsExt

CONSTANTS
  Services,   \* names of the services
  Network,    \* the network address of network_cidr
  Size,       \* the number of addresses of network_cidr
  Multicast,  \* the multicast addresses
  Faults,     \* "torn": a crash may cut a write; "failed": a write may fail
  None        \* no address, or no request

Addresses == Network..(Network + Size - 1)

ASSUME IPAllocAssumption ==
  /\ Network \in Nat
  /\ Size \in Nat \ {0}
  /\ Faults \subseteq {"torn", "failed"}
  /\ None \notin Addresses

VARIABLES
  records,   \* db.Records: the allocations in memory
  file,      \* the content of the file; Torn when it does not parse
  at,        \* where the goroutine is
  job,       \* the request it is working on, with its answer
  damaged,   \* history: a save has failed, or a crash has cut one
  held       \* the address each service uses: from the answer to its "add"
             \* until the core asks to release it (the steps that use the
             \* address are undone before)

vars == <<records, file, at, job, damaged, held>>

Records == [IP : Addresses, Host : Services]
Torn == {None}

Places == {"select", "truncate", "write", "answer"}
Jobs == [svc : Services, action : {"add", "delete"},
         ip : Addresses \cup {None}, err : BOOLEAN]

ASSUME NoneAssumption == None \notin Records \cup Jobs

TypeOK ==
  /\ records \in SUBSET Records
  /\ file \in (SUBSET Records) \cup {Torn}
  /\ at \in Places
  /\ job \in Jobs \cup {None}
  /\ damaged \in BOOLEAN
  /\ held \in [Services -> Addresses \cup {None}]

\* With a mistake: the address is compared with the names.
isIPFree_ByHost(ip) == \A rec \in records : rec.Host # ip

isIPFree(ip) == \A rec \in records : rec.IP # ip

\* With a mistake: the scan goes one address past the network.
Usable_PastEnd == ((Network + 1)..(Network + Size)) \ Multicast

\* The scan of addService passes over the network's own address.
Usable == Addresses \ ({Network} \cup Multicast)

Free == {ip \in Usable : isIPFree(ip)}

recordsOf(svc) == {rec \in records : rec.Host = svc}

\* A file that cannot be read leaves the list empty: it is only a warning.
load(content) == IF content = Torn THEN {} ELSE content

\* With a mistake: the service is looked up in the file.
serviceExist_InFile(svc) == \E rec \in load(file) : rec.Host = svc

serviceExist(svc) == recordsOf(svc) # {}

Init ==
  /\ records = {}
  /\ file = {}
  /\ at = "select"
  /\ job = None
  /\ damaged = FALSE
  /\ held = [s \in Services |-> None]

-----------------------------------------------------------------------------
Take(svc, action, ip, err, place) ==
  /\ at = "select"
  /\ at' = place
  /\ job' = [svc |-> svc, action |-> action, ip |-> ip, err |-> err]
  /\ held' = IF action = "delete" THEN [held EXCEPT ![svc] = None] ELSE held
  /\ UNCHANGED <<file, damaged>>

\* A service that is known is told the address it has.
AddKnown(svc) ==
  \E rec \in recordsOf(svc) :
    /\ Take(svc, "add", rec.IP, FALSE, "answer")
    /\ UNCHANGED records

\* With a mistake: the answer is sent without a save.
AddNew_Unsaved(svc) ==
  /\ ~serviceExist(svc)
  /\ Free # {}
  /\ Take(svc, "add", Min(Free), FALSE, "answer")
  /\ records' = records \cup {[IP |-> Min(Free), Host |-> svc]}

AddNew(svc) ==
  /\ ~serviceExist(svc)
  /\ Free # {}
  /\ Take(svc, "add", Min(Free), FALSE, "truncate")
  /\ records' = records \cup {[IP |-> Min(Free), Host |-> svc]}

AddFull(svc) ==
  /\ ~serviceExist(svc)
  /\ Free = {}
  /\ Take(svc, "add", None, TRUE, "answer")
  /\ UNCHANGED records

DeleteKnown(svc) ==
  \E rec \in recordsOf(svc) :
    /\ Take(svc, "delete", None, FALSE, "truncate")
    /\ records' = records \ {rec}

DeleteUnknown(svc) ==
  /\ ~serviceExist(svc)
  /\ Take(svc, "delete", None, TRUE, "answer")
  /\ UNCHANGED records

\* ioutil.WriteFile truncates the file, then writes it.
Truncate ==
  /\ at = "truncate"
  /\ file' = Torn
  /\ at' = "write"
  /\ UNCHANGED <<records, job, damaged, held>>

Write ==
  /\ at = "write"
  /\ file' = records
  /\ at' = "answer"
  /\ UNCHANGED <<records, job, damaged, held>>

\* A save that fails, when the file is opened or written, is only logged.
SaveFails ==
  /\ "failed" \in Faults
  /\ at \in {"truncate", "write"}
  /\ at' = "answer"
  /\ damaged' = TRUE
  /\ UNCHANGED <<records, file, job, held>>

Answer ==
  /\ at = "answer"
  /\ at' = "select"
  /\ job' = None
  /\ held' = IF job.ip = None THEN held ELSE [held EXCEPT ![job.svc] = job.ip]
  /\ UNCHANGED <<records, file, damaged>>

\* The process stops, wherever it is, and is started again.
Restart ==
  /\ at = "write" => "torn" \in Faults
  /\ at' = "select"
  /\ job' = None
  /\ records' = load(file)
  /\ damaged' = (damaged \/ at = "write")
  /\ UNCHANGED <<file, held>>

Next ==
  \/ \E svc \in Services :
       \/ AddKnown(svc) \/ AddNew(svc) \/ AddFull(svc)
       \/ DeleteKnown(svc) \/ DeleteUnknown(svc)
  \/ Truncate \/ Write \/ SaveFails \/ Answer \/ Restart

Spec == Init /\ [][Next]_vars

-----------------------------------------------------------------------------
(* Properties. *)

\* Two services never use the same address, whatever the allocator was doing
\* when it was restarted, as long as its saves succeed: what it answers is in the
\* file before the answer is sent, and an address is given away only after its
\* record is gone (src/docs/docs/ipalloc.md:5, the allocator "keeps track of
\* them" in "a JSON file").
NoSharedAddress ==
  ~damaged => \A s1, s2 \in Services :
    held[s1] = held[s2] /\ held[s1] # None => s1 = s2

\* An address in use is recorded for its service, in memory and, unless a save is
\* under way, in the file: a restart at that moment would not lose it.
HeldIsRecorded ==
  ~damaged => \A s \in Services : held[s] # None =>
    /\ [IP |-> held[s], Host |-> s] \in records
    /\ at # "write" => [IP |-> held[s], Host |-> s] \in load(file)

\* Even with saves that fail or are cut, one run of the allocator never records
\* an address twice, nor two addresses for a service (addService looks for the
\* service, then for an address without a record).
OneRecordEach ==
  \A r1, r2 \in records : r1.IP = r2.IP \/ r1.Host = r2.Host => r1 = r2
=============================================================================
