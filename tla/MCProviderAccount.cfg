SPECIFICATION Spec
CONSTANTS
  Handlers = {x1, x2}
  Agendas <- AllAgendas
  FileBacked = FALSE
  MaxFaults = 2
SYMMETRY Symmetry
INVARIANTS TypeOK
PROPERTIES CutoverProven ProbeRespectsDisable NoStaleClear CoolingKept
CHECK_DEADLOCK FALSE
