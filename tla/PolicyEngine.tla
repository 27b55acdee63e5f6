---------------------------- MODULE PolicyEngine ----------------------------
(***************************************************************************)
(* The policy engine of internal/policy/engine.go as pure operators:       *)
(* the three pattern matchers, Evaluate and EvaluateWithParams over a      *)
(* CompiledPolicy value.  Strings are sequences over a small alphabet that *)
(* holds the two characters the matchers look at, "*" and "@"; the         *)
(* namespace keywords "internal" and "external" are two such strings.      *)
(* A decision names the grant that produced it instead of copying its      *)
(* Src, AuditLevel and RateLimit.                                          *)
(***************************************************************************)
EXTENDS Naturals, Sequences

CONSTANTS
    Alphabet,      \* characters of caller names, patterns and values
    MaxLen,        \* the longest string considered
    Tools,         \* tool names a request may carry
    ParamNames,    \* parameter names
    Internal,      \* the string "internal"
    External       \* the string "external"

Str == UNION {[1..n -> Alphabet] : n \in 0..MaxLen}

ASSUME PolicyAssumption ==
    /\ {"*", "@"} \subseteq Alphabet
    /\ MaxLen \in Nat
    /\ {Internal, External} \subseteq Str
    /\ Internal # External
    /\ "*" \notin Tools

Star == <<"*">>

\* A capability of a grant: a tool name or the wildcard.
Caps == Tools \cup {"*"}

\* Grant: Src, Dst, App and ParameterConstraints (a map from parameter name
\* to pattern).  RateLimit and AuditLevel are carried by the grant's index.
Grants ==
    [src : Str, dst : Str, app : Seq(Caps),
     pc : UNION {[D -> Str] : D \in SUBSET ParamNames}]

\* CompiledPolicy: the ordered grants and the denied tool names.
Policies == [grants : Seq(Grants), denied : SUBSET Tools]

\* The params map of EvaluateWithParams.
ParamMaps == UNION {[D -> Str] : D \in SUBSET ParamNames}

Reasons == {"denied", "default-allow", "granted", "no-grant", "param"}

\* Decision.  grant: index of the grant it came from (0: none); param: the
\* parameter named by a constraint violation, as a set of at most one.
Decisions ==
    [allowed : BOOLEAN, reason : Reasons, grant : Nat, param : SUBSET ParamNames]

Deny(reason) == [allowed |-> FALSE, reason |-> reason, grant |-> 0, param |-> {}]

-----------------------------------------------------------------------------
(* strings.HasPrefix, strings.HasSuffix, strings.Contains(s, "@") *)
HasPrefix(s, pre) == Len(pre) <= Len(s) /\ SubSeq(s, 1, Len(pre)) = pre
HasSuffix(s, suf) ==
    Len(suf) <= Len(s) /\ SubSeq(s, Len(s) - Len(suf) + 1, Len(s)) = suf
ContainsAt(s) == \E i \in 1..Len(s) : s[i] = "@"

\* strings.TrimSuffix(p, "*") when p ends in "*", TrimPrefix(p, "*") when
\* it starts with one: both drop exactly that one character.
EndsWithStar(p) == p # <<>> /\ p[Len(p)] = "*"
StartsWithStar(p) == p # <<>> /\ p[1] = "*"
TrimSuffixStar(p) == SubSeq(p, 1, Len(p) - 1)

matchCaller(pattern, caller) ==
    IF pattern = Star THEN TRUE
    ELSE IF EndsWithStar(pattern)
         THEN HasPrefix(caller, TrimSuffixStar(pattern))
         ELSE pattern = caller

matchNamespace(dst, caller) ==
    IF dst = Star THEN TRUE
    ELSE IF dst = Internal THEN ContainsAt(caller)
    ELSE IF dst = External THEN ~ContainsAt(caller)
    ELSE dst = caller

matchPattern(pattern, value) ==
    IF pattern = Star THEN TRUE
    ELSE IF StartsWithStar(pattern) THEN HasSuffix(value, Tail(pattern))
    ELSE IF EndsWithStar(pattern)
         THEN HasPrefix(value, TrimSuffixStar(pattern))
         ELSE pattern = value

-----------------------------------------------------------------------------
\* The grants loop of Evaluate: a grant is skipped unless both matchers
\* accept the caller, then its App is searched for the tool or "*".
GrantAllows(g, caller, tool) ==
    /\ matchCaller(g.src, caller)
    /\ matchNamespace(g.dst, caller)
    /\ \E j \in 1..Len(g.app) : g.app[j] = tool \/ g.app[j] = "*"

\* The loop of EvaluateWithParams, written as the code writes it: skip a
\* grant when either matcher rejects, skip a cap that is neither the tool
\* nor "*"; the first cap that survives selects the grant.
GrantApplies(g, caller, tool) ==
    /\ ~(~matchCaller(g.src, caller) \/ ~matchNamespace(g.dst, caller))
    /\ \E j \in 1..Len(g.app) : ~(g.app[j] # tool /\ g.app[j] # "*")

\* A loop over the grants in order that returns at the first hit: the least
\* of the indices whose grant passes the loop's test, 0 when none does.
FirstOf(hits) == IF hits = {} THEN 0 ELSE CHOOSE k \in hits : \A j \in hits : k <= j

FirstAllowing(gs, caller, tool) ==
    FirstOf({k \in 1..Len(gs) : GrantAllows(gs[k], caller, tool)})

FirstApplying(gs, caller, tool) ==
    FirstOf({k \in 1..Len(gs) : GrantApplies(gs[k], caller, tool)})

\* Engine.Evaluate: denied list first, then default-allow on no grants,
\* then the first grant that allows.
Evaluate(pol, caller, tool) ==
    IF tool \in pol.denied THEN Deny("denied")
    ELSE IF pol.grants = <<>>
         THEN [allowed |-> TRUE, reason |-> "default-allow", grant |-> 0,
               param |-> {}]
    ELSE LET k == FirstAllowing(pol.grants, caller, tool)
         IN  IF k = 0 THEN Deny("no-grant")
             ELSE [allowed |-> TRUE, reason |-> "granted", grant |-> k,
                   param |-> {}]

\* The constraints of grant g that the params violate: a constraint on a
\* parameter that is absent is not checked.
Violated(g, params) ==
    {n \in DOMAIN g.pc \cap DOMAIN params : ~matchPattern(g.pc[n], params[n])}

\* The second half of EvaluateWithParams, given the decision d of its
\* Evaluate call and the grants it re-reads: the set of decisions it may
\* return.  Go ranges over a map in an unspecified order, so a decision
\* may name any violated constraint.
CheckParams(d, gs, caller, tool, params) ==
    LET k == FirstApplying(gs, caller, tool)
    IN  IF ~d.allowed \/ k = 0 \/ Violated(gs[k], params) = {} THEN {d}
        ELSE {[allowed |-> FALSE, reason |-> "param", grant |-> k,
               param |-> {n}] : n \in Violated(gs[k], params)}

\* Engine.EvaluateWithParams on a policy that does not change under it.
EvaluateWithParams(pol, caller, tool, params) ==
    CheckParams(Evaluate(pol, caller, tool), pol.grants, caller, tool, params)

=============================================================================
