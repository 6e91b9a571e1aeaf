SPECIFICATION Spec
CONSTANTS
  Labels = {L1}
  NoLabel = NoLabel
  Constructs = {"evalS","evalE","subS","do"}
  Sites = {"stmt"}
  Jumps = {"Last","Return"}
  MaxDepth = 9
  MaxFuel = 9
PROPERTIES ReturnScoped
