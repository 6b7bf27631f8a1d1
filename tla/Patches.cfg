SPECIFICATION Spec
CONSTANTS
    ui = ui
    other = other
    Callers = {ui, other}
    Togglers = {ui}
    Cells <- Window
    Ranges <- Overlapping
    MaxId = 3
    Faulty = TRUE
INVARIANTS TypeOK NoOverlap TargetMatchesList TargetIsCode
PROPERTY ImplementsPatchList
