SPECIFICATION TableSpec
CONSTANTS
  NSteps = 2
  ProviderSteps <- Provider
  Services = {s1}
  Entries = {e1}
  Handlers = {h1, h2}
  Defs = {d1}
  NoDef = NoDef
  Nil = Nil
  Bare = Bare
  Reordered <- None
  Weighted <- Several
  KeepsAction <- SecondKeeps
  MultiReply <- Second
  ErrorAdds <- None
  Used <- Provider
  Flaky <- Provider
INVARIANT InterlookTypeOK
PROPERTIES ImplementsEngine StaysQuiet ListenersComeBack
CHECK_DEADLOCK FALSE
