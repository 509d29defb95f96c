SPECIFICATION Spec
CONSTANTS
  a1 = a1
  a2 = a2
  a3 = a3
  a4 = a4
  v1 = v1
  v2 = v2
  l1 = l1
  ANY = ANY
  NULL = NULL
  Automata = {a1, a2, a3, a4}
  Lifetimes = {l1}
  Slots = {0}
  Values = {v1, v2}
  ta_transitions <- KernelAutomata
  Inputs <- KernelInputs
  ta_alphabet_size <- AlphabetSizes
  ta_cleanup_symbol <- CleanupSymbols
  ta_lifetime <- OneLifetime
  Limit = 1
  StoreLength = 2
  StaticClasses = 2
  DynInitial = 8
  CapacityModulus = 65536
  StackFree <- AnyGarbage
  Kernel = TRUE
  FailStop = TRUE
  MaxDyn = 2
PROPERTIES
  SunsetEmptiesClasses
