SPECIFICATION Spec
CONSTANTS
  SuppressInclusiveOr = FALSE
  Prototypes <- Protos
  Demos <- MCDemos
  Assertions = {1, 2, 3, 4, 5, 6, 7, 8, 9, 10, 11, 12, 13, 14, 15, 16}
  Runs = 3
  StackFree <- Garbage
  NULL = NULL
  AnyWord = AnyWord
INVARIANTS
  ViolationsAreReported
  AlarmsAreExplained
