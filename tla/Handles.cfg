SPECIFICATION Spec
CONSTANTS
  Names = {F, G}
  Files = {a}
  Scalars = {s}
  Records = {r1, r2}
  None = None
  Hole = Hole
  MaxDepth = 2
  MaxOps = 5
  MaxSize = 2
  Ops = {"readline", "slurp", "read", "eof", "print", "tell", "seek", "openread", "openwrite", "openappend", "openstring", "opensink", "close", "alias", "local", "localdot", "setdot"}
INVARIANTS ReadsInOrder Delivered
PROPERTIES BlocksRestore
