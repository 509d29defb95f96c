SPECIFICATION Spec
CONSTANTS
  Manifests <- MCManifests
  Modules <- MCModules
  Params <- MCParams
  Void <- MCVoid
  Pointers <- MCPointers
  Content <- MCContent
  Width = 2
  BitAnd <- MCBitAnd
  SuppressDebugInstr = FALSE
  Debugging = TRUE
  MaxDepth = 2
  MaxEvents = 4
INVARIANTS
  UpdatesAreExact
  StoresReachEveryAutomaton
  LifetimesFollowBounds
  CrashIsExplained
