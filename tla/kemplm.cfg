SPECIFICATION Spec
CONSTANTS
  s1 = s1
  s2 = s2
  t1 = t1
  t2 = t2
  ip1 = ip1
  ip2 = ip2
  Nil = Nil
  Services = {s1, s2}
  Requests <- AllRequests
INVARIANT TypeOK
PROPERTY ImplementsProvisioner
