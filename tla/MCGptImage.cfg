CONSTANTS
  BlockSize = 4
  MB = 16
  ReservedBlocks = 4
  EntrySize = 1
  TableLength = 8
  BackupTableBlocks = 2
  Configs <- MCConfigs
  ImageSizes = {88, 194}
  AndroidPartitions <- MCAndroidPartitions
  PlainTypes = {"fat"}
  LinuxLabels <- MCLinuxLabels
  Binaries <- MCBinaries
SPECIFICATION ImageSpec
INVARIANTS ImageTypeOK NoOverlap FillsImage InsideUsable TablesIntact BinariesIntact FailedIsInvalid LostImageExplained
PROPERTIES OnlyOpenSizeChanges Terminates
CHECK_DEADLOCK FALSE
