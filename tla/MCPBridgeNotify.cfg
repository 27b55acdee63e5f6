\* A backend that writes one MCP notification line: the reply stream
\* shifts by one line against the requests.
CONSTANTS
    Clients = {c1, c2}
    Main = m
    MaxID = 4
    BackendCanCrash = FALSE
    BackendNotifies = TRUE
    MaxNotify = 1
SPECIFICATION Spec
INVARIANT ResponseCorrelation
