SPECIFICATION InterlookSpec
CONSTANTS
  NSteps = 2
  ProviderSteps <- Provider
  Services = {s1, s2}
  Entries = {e1, e2, e3}
  Handlers = {h1, h2, h3}
  Defs = {d1}
  NoDef = NoDef
  Nil = Nil
  Reordered <- None
  Weighted <- None
  KeepsAction <- None
  MultiReply <- None
  ErrorAdds <- None
  Bare = Bare
  Used <- Provider
  Flaky <- None
INVARIANT NoCircularWait
CHECK_DEADLOCK FALSE
