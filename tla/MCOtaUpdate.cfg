SPECIFICATION OtaSpec
CONSTANTS
  Data = {"d1", "d2", "big"}
  Big = {"big"}
  None = None
  Torn = Torn
  Empty = Empty
  Files = {"a", "b", "BIOSUPDATE.fv"}
  Capsule = "BIOSUPDATE.fv"
  Variants = {v, w}
  Generic = generic
  MaxFixups = 2
  MaxInterrupts = 1
  Setups <- MCSetups
INVARIANTS
  OtaTypeOK
  ReachesTarget
  NeverHalfway
  RefusesOnlyStrangers
  HashesMatch
SYMMETRY VariantSymmetry
CHECK_DEADLOCK FALSE
