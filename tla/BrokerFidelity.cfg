\* KDBXResolver returns the sidecar's whole JSON-RPC response as the secret.
CONSTANTS
    Keys = {k1}
    k1 = k1
    s1 = s1
    s2 = s2
    Secrets = {s1, s2}
    Empty = Empty
    Absent = Absent
    NotFound = NotFound
    None = None
    Configs <- MCConfigs
    Stores <- MCStores
SPECIFICATION Spec
INVARIANT SecretFidelity
CHECK_DEADLOCK FALSE
