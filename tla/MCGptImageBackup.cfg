CONSTANTS
  BlockSize = 8
  MB = 32
  ReservedBlocks = 4
  EntrySize = 1
  TableLength = 8
  BackupTableBlocks = 2
  Configs <- MCWritten
  ImageSizes = {216}
  AndroidPartitions <- MCAndroidPartitions
  PlainTypes = {"fat"}
  LinuxLabels <- MCLinuxLabels
  Binaries <- MCBinaries
SPECIFICATION ImageSpec
INVARIANT BackupTableFound
CHECK_DEADLOCK FALSE
