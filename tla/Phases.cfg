SPECIFICATION FairSpec
CONSTANTS
  Files = {f}
  Absent = Absent
  Codes = {0, 1}
  Statuses = {0, 256}
  Errnos = {0, 2}
  MaxBlocks = 2
  MaxFuel = 4
  MaxDepth = 4
INVARIANTS TypeOK RunOrder LoadedOnce StatusKept
PROPERTIES Terminates BlocksRun
