\* A client-set X-HexStrike-Tool header on a non-tool method reaches metering.
CONSTANTS
    Alphabet = {"a", "@", "*"}
    MaxLen = 2
    Tools = {t1, t2, unk}
    ParamNames = {target}
    Internal <- MCInternal
    External <- MCExternal
    t1 = t1
    t2 = t2
    unk = unk
    target = target
    q1 = q1
    q2 = q2
    Reqs = {q1, q2}
    Callers <- MCCallers
    ParamSets <- MCParamSets
    Pol <- MCPol
    Unknown = unk
    NoName = NoName
    NoTag = NoTag
    None = None
    MaxSignals = 3
    Inputs <- MCInputs
SPECIFICATION Spec
INVARIANT UsageAccounted
CHECK_DEADLOCK FALSE
