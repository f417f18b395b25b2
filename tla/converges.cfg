SPECIFICATION FairInterlookSpec
CONSTANTS
  NSteps = 3
  ProviderSteps <- Provider
  Services = {s1}
  Entries = {e1}
  Handlers = {h1}
  Defs = {d1, Bare}
  NoDef = NoDef
  Nil = Nil
  Bare = Bare
  Reordered <- None
  Weighted <- None
  KeepsAction <- None
  MultiReply <- None
  ErrorAdds <- Provider
  Used <- Provider
  Flaky <- Provider
PROPERTY Converges
CHECK_DEADLOCK FALSE
