SPECIFICATION Spec
CONSTANTS
  Services = {s1, s2, s3}
  Network = 0
  Size = 4
  Multicast <- OneMulticast
  Faults <- AllFaults
  None = None
INVARIANTS TypeOK NoSharedAddress HeldIsRecorded OneRecordEach
