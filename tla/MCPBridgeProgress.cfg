\* Every caller blocked in SendRequest returns, even from a backend that
\* writes unsolicited lines and may crash, with Stop at any time.
CONSTANTS
    Clients = {c1, c2}
    Main = m
    MaxID = 4
    BackendCanCrash = TRUE
    BackendNotifies = TRUE
    MaxNotify = 2
SPECIFICATION FairSpec
PROPERTY CallsReturn
