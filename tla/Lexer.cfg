SPECIFICATION Spec
CONSTANTS
    None = None
    Sources <- MCSources
INVARIANTS Recognised LinesRight Reported MarksPlaced
PROPERTY Advances
