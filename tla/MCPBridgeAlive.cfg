\* A backend that exits on its own while the gateway keeps serving.
CONSTANTS
    Clients = {c1, c2}
    Main = m
    MaxID = 3
    BackendCanCrash = TRUE
    BackendNotifies = FALSE
    MaxNotify = 0
SPECIFICATION Spec
INVARIANT AliveReflectsChild
