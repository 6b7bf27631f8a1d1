SPECIFICATION SpecBoth
CONSTANTS
    ui = ui
    Callers = {ui}
    Togglers = {ui}
    Cells <- Window
    Ranges <- Overlapping
    MaxId = 2
    Faulty = FALSE
INVARIANT OriginalsGenuine
