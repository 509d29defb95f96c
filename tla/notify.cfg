SPECIFICATION Spec
CONSTANTS
  Builds <- MCBuilds
  n1 = n1
  Notifiers = {n1}
  Reported = {"transition", "accept", "err", "fail_no_instance", "bad_transition"}
  Details <- MCDetails
  Vectors <- MCVectors
  MetaVectors <- MCMetaVectors
  MaxSets = 3
  ERROR_BUFFER_LENGTH = 160
INVARIANTS
  DeliveredToAll
  FaultNeedsShrinking
  FailuresAreHeardUnlessSilent
  FailuresArePrinted
