CONSTANTS
  Types <- MCTypes
  JobLists <- MCJobLists
  VariantLists <- MCVariantLists
SPECIFICATION Spec
INVARIANTS TypeOK GenericKept MetadataIsTrue OutputIsWhole OrphansOnlyOfFailures PassedAreStopped
PROPERTIES Ends ReleasesMadeTypes
