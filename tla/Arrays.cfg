SPECIFICATION Spec
CONSTANTS
  Items = {v}
  Undef = Undef
  Absent = Absent
  Packages = {"main", "P"}
  MaxLen = 2
  MaxDepth = 3
  MaxOps = 4
  Ops = {"push", "unshift", "pop", "shift", "splice", "list", "assign", "resize", "delete", "each", "localelem", "deletelocal", "my", "our", "local", "ref", "package"}
INVARIANTS TypeOK DeniedIsUndef EachComplete
PROPERTY LocalUndone
