SPECIFICATION Spec
CONSTANTS
  chip0 = chip0
  chip1 = chip1
  module0 = module0
  VINA = VINA
  VOFS = VOFS
  run1 = run1
  run2 = run2
  HEADROOM = HEADROOM
  VIN = VIN
  VSUM = VSUM
  Chips <- MCChips
  Modules <- MCModules
  ModuleOf <- MCModuleOf
  ChipId <- MCChipId
  Registers = {VINA, VOFS}
  Allowlist = {VINA}
  ChipVirtual = {HEADROOM}
  ModuleVirtual = {VIN, VSUM}
  MayFail = {HEADROOM}
  Inputs <- MCInputs
  IndexedInputs <- MCIndexedInputs
  Metas <- MCMetas
  RotateSize = 3
  RotateSeconds = 1
  MaxCycles = 3
  MaxSecond = 1
SYMMETRY MCSymmetry
INVARIANTS
  SelfDescribing
  NoValueLost
  CyclesAreWhole
  ModuleValuesComplete
  OutputBelongsToRun
PROPERTY RotationRespected
