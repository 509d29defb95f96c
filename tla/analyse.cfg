SPECIFICATION Spec
CONSTANTS
  SuppressInclusiveOr = FALSE
  Programs <- AllPrograms
  Prototypes <- Protos
INVARIANTS
  IndicesNameVariables
  InnermostModifierDecides
  NothingIsLost
  CatPanicIsExplained
