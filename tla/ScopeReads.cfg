SPECIFICATION Spec
CONSTANTS
  Main = Main
  Packages = {Main, Foo}
  Values = {Undef, v1}
  Undef = Undef
  Absent = Absent
  MyNames = {x}
  OurNames = {x}
  OurListNames = {x}
  RefNames = {x}
  LocalNames = {}
  ListNames = {}
  OtherNames = {}
  MaxFrames = 3
  MaxSaves = 0
PROPERTIES OneStore ReadYourWrite
