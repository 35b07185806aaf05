CONSTANTS
  BlockSize = 4
  MB = 16
  ReservedBlocks = 4
  EntrySize = 1
  TableLength = 8
  BackupTableBlocks = 2
  Configs <- MCWritten
  ImageSizes = {88}
  AndroidPartitions <- MCAndroidPartitions
  PlainTypes = {"fat"}
  LinuxLabels <- MCLinuxLabels
  Binaries <- MCBinaries
SPECIFICATION ImageSpec
INVARIANT FitIsChecked
CHECK_DEADLOCK FALSE
