SPECIFICATION Spec
CONSTANTS
  NSteps = 2
  ProviderSteps <- Provider
  Services = {s1, s2}
  Entries = {e1, e2}
  Handlers = {h1, h2}
  Defs = {d1}
  NoDef = NoDef
  Nil = Nil
  Reordered <- AllDefs
  Weighted <- None
  KeepsAction <- None
  MultiReply <- None
  ErrorAdds <- None
SYMMETRY Symmetry
INVARIANTS TypeOK NoMixUp NoLostWork ClosedAsExpected
PROPERTIES ImplementsLifecycle NoAmplification
CHECK_DEADLOCK FALSE
