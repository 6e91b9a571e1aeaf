SPECIFICATION Spec
CONSTANTS
  Labels = {L1}
  NoLabel = NoLabel
  Constructs = {"if","evalS","evalE","subS","subL"}
  Sites = {"stmt","my","return","tail"}
  Jumps = {"Last","Return","Goto","GotoSub"}
  MaxDepth = 7
  MaxFuel = 6
INVARIANTS PendingOwned
PROPERTIES EvalTraps
