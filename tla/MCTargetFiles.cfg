SPECIFICATION Spec
CONSTANTS
  None = None
  Variants = {"v"}
  Board = None
  Track = 32
  Size <- MCSize
  Packages <- MCPackages
  Calls <- MCCalls
  MaxSignings = 2
  Coho = TRUE
  IA32 <- MCIA32
  EcssKeys = {"ecss"}
  KeyLength <- MCKeyLength
  KeyRoom = 8
INVARIANTS LoadersSigned FirstStageCopies LoadersKept InstalledVerifies
CHECK_DEADLOCK FALSE
