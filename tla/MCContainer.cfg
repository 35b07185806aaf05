CONSTANTS
  Layouts <- MCLayouts
  Contents <- MCContents
  Algorithms <- MCAlgorithms
  DefaultAlignment = 16
  HdrSize = 4
  EntrySize = 4
  LzSize = 4
  HashSize = 2
  Pad = 2
  OffsetLimit = 64
SPECIFICATION Spec
INVARIANTS ContTypeOK ParseInverts RegionsDisjoint SignaturesCover AlignedAsGenerated
PROPERTIES RebuiltSame ReplaceKeepsOthers
CHECK_DEADLOCK FALSE
