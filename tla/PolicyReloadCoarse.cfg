\* WatchingCache on a file system whose timestamps are coarser than the
\* time between two saves: a second save may keep the first save's mtime.
CONSTANTS
    Alphabet = {"a", "@", "*"}
    MaxLen = 2
    Tools = {t1, t2}
    ParamNames = {target}
    Internal <- MCInternal
    External <- MCExternal
    t1 = t1
    t2 = t2
    target = target
    Readers = {r1}
    Callers <- MCCallers
    ParamSets <- MCParamSets
    PolicyFiles <- MCPolicyFiles
    HotReload = "cache"
    CoarseMTime = TRUE
    MaxSaves = 2
SPECIFICATION FairSpec
PROPERTY ReloadConverges
