SPECIFICATION Spec
CONSTANTS
  MaxAnon = 2
  MaxItems = 2
  MaxDepth = 3
  MaxFuel = 4
  Kinds = {"block", "eval", "for", "anon", "named", "filed", "string", "dofile", "load"}
INVARIANTS TypeOK OneStorage
PROPERTIES FramesBack CapturesVisible
