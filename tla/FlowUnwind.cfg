SPECIFICATION Spec
CONSTANTS
  Labels = {L1}
  NoLabel = NoLabel
  Constructs = {"if","while","until","for","foreach","named","cont","bare",
                "evalS","evalE","subS","subL","do","doL","map"}
  Sites = {"stmt","step","init","cond","list","my","return","print","operand",
           "tail","defer","destroy","handler","die"}
  Jumps = {"Last","Next","Redo","Return","GotoSub"}
  MaxDepth = 5
  MaxFuel = 4
INVARIANTS TypeOK Balanced
PROPERTIES ExitKept LabelRespected
