SPECIFICATION AllSpec
CONSTANTS
  Files <- MCFiles
  VariantFiles = {"ifwi.bin", "bootloader"}
  Short <- MCShort
  Stem <- MCShort
  Part = 16
  Block = 4
  Variants <- MCVariants
  None = None
  Same = Same
  Setups <- MCSetups
  JsonSetups <- MCJsonSetups
  FirstLetter = FirstLetter
INVARIANTS
  FlashTypeOK
  CommandsFlashTheirFiles
  OneDefault
  AdditionalThere
  InstallerFindsFiles
  JsonFlashesItsFiles
CHECK_DEADLOCK FALSE
