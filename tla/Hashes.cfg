SPECIFICATION FairSpec
CONSTANTS
  Keys = {j, k}
  Items = {v}
  Absent = Absent
  Packages = {"main", "P", "Q"}
  MaxDepth = 2
  MaxOps = 5
  Ops = {"elem", "local", "list", "localhash", "our", "ref", "package", "each", "destroy"}
INVARIANTS TypeOK
PROPERTIES AssignmentEnds AssignmentSeen ElementsBack
