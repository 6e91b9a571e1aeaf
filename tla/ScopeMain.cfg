SPECIFICATION Spec
CONSTANTS
  Main = Main
  Packages = {Main}
  Values = {Undef, v1}
  Undef = Undef
  Absent = Absent
  MyNames = {}
  OurNames = {x}
  OurListNames = {x}
  RefNames = {x}
  LocalNames = {x}
  ListNames = {x}
  OtherNames = {}
  MaxFrames = 4
  MaxSaves = 2
INVARIANTS TypeOK
PROPERTIES LocalizationKept
