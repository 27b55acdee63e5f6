----------------------------- MODULE MCPipeline -----------------------------
(* Two concurrent requests through the handler chain, for model checking. *)
EXTENDS Pipeline, TLC

CONSTANTS t1, t2, unk, target, q1, q2

MCInternal == <<"a", "a">>
MCExternal == <<"@", "@">>

NoParams == [x \in {} |-> <<>>]

Tailnet == <<"a", "@">>
Plain == <<"a">>

\* Tailnet callers may call t1 with target = "a*"; the one plain caller
\* may call anything but t2, which is denied outright.
MCPol ==
    [grants |-> << [src |-> Star, dst |-> MCInternal, app |-> <<t1>>,
                    pc |-> [x \in {target} |-> <<"a", "*">>]],
                   [src |-> Star, dst |-> Plain, app |-> <<"*">>,
                    pc |-> NoParams] >>,
     denied |-> {t2}]

Good == [x \in {target} |-> <<"a">>]
Bad == [x \in {target} |-> <<"@">>]

Req(valid, method, name, params, hdr, user) ==
    [valid |-> valid, method |-> method, name |-> name, params |-> params,
     hdr |-> hdr, user |-> user, remote |-> Plain]

\* Requests a client can send: allowed and denied tool calls, a call whose
\* arguments break the constraint, calls without a name (the grants allow
\* "unknown" to the plain caller and not to the tailnet one), another
\* method and an empty method carrying their own X-HexStrike-Tool, and a
\* body that does not parse.
MCInputs ==
    { Req(TRUE, "tools/call", t1, Good, NoTag, Tailnet),
      Req(TRUE, "tools/call", t1, Bad, NoTag, Tailnet),
      Req(TRUE, "tools/call", t1, Good, NoTag, <<>>),
      Req(TRUE, "tools/call", t2, Good, NoTag, Tailnet),
      Req(TRUE, "tools/call", NoName, Good, t1, <<>>),
      Req(TRUE, "tools/call", NoName, Good, NoTag, Tailnet),
      Req(TRUE, "other", NoName, Good, t1, <<>>),
      Req(TRUE, "", NoName, Good, t1, Tailnet),
      Req(FALSE, "tools/call", t1, Good, NoTag, Tailnet) }

\* The policy gate's verdict on each input, evaluated once.
VerdictTable == [x \in MCInputs |-> Verdict(x)]

MCPermitted(r) == VerdictTable[in[r]]

MCCallers == {Tailnet, Plain}
MCParamSets == {Good, Bad}

=============================================================================
