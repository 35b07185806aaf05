CONSTANTS
  Types <- MCTypes
  JobLists <- MCFullOnly
  VariantLists <- MCVariantLists
SPECIFICATION Spec
INVARIANT EachVariantReleased
