\* WatchingCache: the watcher swaps engines while a reader evaluates; saves
\* truncate and then fill the file within one timestamp tick.
CONSTANTS
    Alphabet = {"a", "@", "*"}
    MaxLen = 2
    Tools = {t1, t2}
    ParamNames = {target}
    Internal <- MCInternal
    External <- MCExternal
    t1 = t1
    t2 = t2
    target = target
    Readers = {r1}
    Callers <- MCCallers
    ParamSets <- MCParamSets
    PolicyFiles <- MCPolicyFiles
    HotReload = "cache"
    CoarseMTime = FALSE
    MaxSaves = 2
SPECIFICATION FairSpec
INVARIANT SnapshotDecision
PROPERTY ReloadConverges
