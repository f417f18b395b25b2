SPECIFICATION Spec
CONSTANTS
  s1 = s1
  s2 = s2
  ip1 = ip1
  ip2 = ip2
  n1 = n1
  n2 = n2
  n3 = n3
  Nil = Nil
  Services = {s1, s2}
  Requests <- AllRequests
INVARIANT TypeOK
PROPERTY ImplementsProvisioner
