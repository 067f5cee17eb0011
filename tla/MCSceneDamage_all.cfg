SPECIFICATION Spec
CONSTANTS
    Tab = {t1, t2}
    Region = {r1, r2}
    HideInFlight = FALSE
    MaxEdits = 2
    MaxSelects = 2
    MaxHides = 1
    MaxDrops = 1
    Whole = Whole
    None = None
SYMMETRY Symmetry
INVARIANTS SurfaceShowsItsScene SettledShowsThePage
