SPECIFICATION FairSpec
CONSTANTS
  p1 = p1
  p2 = p2
  worker = worker
  Targets <- AllTargets
  PageTargets <- TwoPages
  Sessions <- AllTargets
  Pages <- TwoPages
  NoSession = NoSession
  Commands <- AllCommands
  Settings <- FourSettings
  Stealth = TRUE
  EigerIdStart = 8
  ChromeBuffer = 2
  ClientBuffer = 1
INVARIANTS
  TypeOK ForwardedInOrder InjectionFirst BatchesWhole NavigationReinjected
  OwnAnswersHidden AnswersKept PatchedBeforeRunning
  HeldNotForgotten
PROPERTIES CommandForwarded ProxyReturns TargetsGoOn
CHECK_DEADLOCK FALSE
