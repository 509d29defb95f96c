SPECIFICATION Spec
CONSTANTS
  SuppressInclusiveOr = FALSE
  Manifests <- AllManifests
  MaxWord = 5
INVARIANTS
  AcceptsTheAssertion
  SameLanguage
  EngineCanRunIt
  LifetimesAreFound
  RecursionOnlyOnEmptyLoops
