SPECIFICATION CalmFairSpec
CONSTANTS
  NSteps = 3
  ProviderSteps <- Provider
  Services = {s1}
  Entries = {e1}
  Handlers = {h1, h2}
  Defs = {d1}
  NoDef = NoDef
  Nil = Nil
  Bare = Bare
  Reordered <- None
  Weighted <- None
  KeepsAction <- None
  MultiReply <- None
  ErrorAdds <- None
  Used <- Provider
  Flaky <- None
PROPERTY DeploymentEnds
CHECK_DEADLOCK FALSE
