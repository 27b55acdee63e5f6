\* Engine.Reload copies e.policy with no lock while a reader evaluates on
\* the same engine.
CONSTANTS
    Alphabet = {"a", "@", "*"}
    MaxLen = 2
    Tools = {t1, t2}
    ParamNames = {target}
    Internal <- MCInternal
    External <- MCExternal
    t1 = t1
    t2 = t2
    target = target
    Readers = {r1}
    Callers <- MCCallers
    ParamSets <- MCParamSets
    PolicyFiles <- MCPolicyFiles
    HotReload = "engine"
    CoarseMTime = FALSE
    MaxSaves = 2
SPECIFICATION ReloadSpec
INVARIANT SnapshotDecision
