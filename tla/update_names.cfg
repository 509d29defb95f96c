SPECIFICATION Spec
CONSTANTS
  a1 = a1
  a2 = a2
  a3 = a3
  a4 = a4
  v1 = v1
  v2 = v2
  l1 = l1
  ANY = ANY
  NULL = NULL
  Automata = {a1}
  Lifetimes = {l1}
  Slots = {0, 1}
  Values = {v1, v2}
  ta_transitions <- TwoVariablesOnly
  Inputs <- TwoVariablesInputs
  ta_alphabet_size <- AlphabetSizes
  ta_cleanup_symbol <- CleanupSymbols
  ta_lifetime <- OneLifetime
  Limit = 8
  StoreLength = 2
  StaticClasses = 1
  DynInitial = 8
  CapacityModulus = 65536
  StackFree <- AnyGarbage
  Kernel = FALSE
  FailStop = FALSE
  MaxDyn = 2
INVARIANTS
  MaskMatchesState
  UnionNeverFails
  NoInstanceMeansNoMatch
PROPERTIES
  OnlyNamedChange
