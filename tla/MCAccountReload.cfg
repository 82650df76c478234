SPECIFICATION Spec
CONSTANTS
  Handlers = {x1, x2}
  Agendas <- JustConnect
  FileBacked = TRUE
  MaxFaults = 0
INVARIANT RowReloads
CHECK_DEADLOCK FALSE
