--------------------------- MODULE MCPolicyReload ---------------------------
(* Small policies for model checking PolicyReload. *)
EXTENDS PolicyReload, TLC

CONSTANTS t1, t2, target

\* The namespace keywords, as two strings of the small alphabet.
MCInternal == <<"a", "a">>
MCExternal == <<"@", "@">>

NoParams == [x \in {} |-> <<>>]

\* agent-* style prefix grant, for tailnet callers, of t1 only, with a
\* constraint target = "a*".
PrefixGrant ==
    [src |-> <<"a", "*">>, dst |-> MCInternal, app |-> <<t1>>,
     pc |-> [x \in {target} |-> <<"a", "*">>]]

\* An operator grant: any caller, any namespace, every tool.
WildGrant == [src |-> Star, dst |-> Star, app |-> <<"*">>, pc |-> NoParams]

\* An external-only grant of t2 with a suffix constraint target = "*@".
ExternalGrant ==
    [src |-> Star, dst |-> MCExternal, app |-> <<t2>>,
     pc |-> [x \in {target} |-> <<"*", "@">>]]

MCPolicyFiles ==
    { [grants |-> <<>>, denied |-> {t1}],
      [grants |-> <<PrefixGrant, WildGrant>>, denied |-> {}],
      [grants |-> <<ExternalGrant>>, denied |-> {t2}] }

\* Two policies that both deny t2, the second denying one tool more and
\* granting every tool to every caller.
MCTornFiles ==
    { [grants |-> <<ExternalGrant>>, denied |-> {t2}],
      [grants |-> <<WildGrant>>, denied |-> {t1, t2}] }

MCCallers == {<<"a", "@">>, <<"a">>, <<"@">>}

MCParamSets ==
    {NoParams, [x \in {target} |-> <<"a">>], [x \in {target} |-> <<"@">>]}

=============================================================================
