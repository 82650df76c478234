SPECIFICATION Spec
CONSTANTS
  Handlers = {x1, x2}
  Agendas <- Overtaken
  FileBacked = FALSE
  MaxFaults = 0
PROPERTY VersionGrows
CHECK_DEADLOCK FALSE
