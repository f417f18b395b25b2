SPECIFICATION FairRestarts
CONSTANTS
  NSteps = 2
  ProviderSteps <- Provider
  Services = {s1}
  Entries = {e1}
  Handlers = {h1}
  Defs = {d1, d2}
  NoDef = NoDef
  Nil = Nil
  Reordered <- AllDefs
  Weighted <- None
  KeepsAction <- None
  MultiReply <- None
  ErrorAdds <- None
INVARIANTS RestartsTypeOK DeployedSurvives UndeployedSurvives
PROPERTIES LifecycleSurvives ShutdownEnds LoadedComesToRest
CHECK_DEADLOCK FALSE
