SPECIFICATION Spec
CONSTANTS
  ByteBits = 6
  AddressBits = 12
  Ten = 6
  Rom <- MCRom
  Ram <- MCRam
  Encode <- MCEncode
  DRegs = {0, 1, 2, 3, 4, 5, 6, 7}
  ARegs = {8, 9, 11, 12, 15}
  Displacements <- MCDisplacements
  ShortAddresses <- MCShort
  LongAddresses <- MCLong
  Indexes <- MCIndexes
  Immediates <- MCImmediates
  QuickData = {1, 8}
  BitNumbers = {0, 5, 23, 40}
  BranchOffsets <- MCOffsets
  RegisterLists <- MCLists
  Conventions = {0, 15}
  MaxSteps = 1
  Starts <- MCStarts
PROPERTIES
  RestartIsTransparent
  SupervisorIsSealed
  ArithmeticIsExact
  DecimalIsDecimal
  ShiftsIterate
  ReturnsUnwind
CHECK_DEADLOCK FALSE
