SPECIFICATION Spec
CONSTANTS
  Handlers = {x1, x2}
  Agendas <- JustProbe
  FileBacked = FALSE
  MaxFaults = 0
PROPERTY RejectionIsRecorded
CHECK_DEADLOCK FALSE
