SPECIFICATION OtaSpec
CONSTANTS
  Data = {"d1", "d2", "big"}
  Big = {"big"}
  None = None
  Torn = Torn
  Empty = Empty
  Files = {"a", "b", "BIOSUPDATE.fv"}
  Capsule = "BIOSUPDATE.fv"
  Variants = {v, w}
  Generic = generic
  MaxFixups = 0
  MaxInterrupts = 0
  Setups <- MCSetups
INVARIANTS
  VerbatimIncluded
SYMMETRY VariantSymmetry
CHECK_DEADLOCK FALSE
