SPECIFICATION Spec
CONSTANTS
  ByteBits = 6
  AddressBits = 12
  Ten = 6
  Rom <- MCRom
  Ram <- MCRam
  Encode <- MCEncode
  FormOf <- MCFormOf
  DRegs = {}
  ARegs = {}
  Displacements = {}
  ShortAddresses = {}
  LongAddresses = {}
  Indexes = {}
  Immediates = {}
  QuickData = {}
  BitNumbers = {}
  BranchOffsets = {}
  RegisterLists = {}
  Conventions = {}
  Program <- MCProgram
  Start <- MCStart
  Finish = 286
  Length = 17
  Watched <- Growth
  StackTop = 704
  Segments <- MCSegments
  Swappable <- MCSwappable
  KernelReturn = 144
  BusErrorEntry = 128
  InterruptEntry <- MCInterruptEntry
  MaxBurst = 2
  MaxRaised = 2
  MaxSwaps = 1
INVARIANTS
  UserSeesItsProgram
  KernelStackIsEmpty
  FaultsAreRecoverable
PROPERTIES
  EveryInterruptIsServed
  ProgramFinishes
