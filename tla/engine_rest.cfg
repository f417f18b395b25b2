SPECIFICATION FairSpec
CONSTANTS
  NSteps = 2
  ProviderSteps <- Provider
  Services = {s1}
  Entries = {e1, e2}
  Handlers = {h1, h2}
  Defs = {d1}
  NoDef = NoDef
  Nil = Nil
  Reordered <- AllDefs
  Weighted <- None
  KeepsAction <- None
  MultiReply <- Last
  ErrorAdds <- None
PROPERTY ComesToRest
CHECK_DEADLOCK FALSE
