------------------------------- MODULE Broker -------------------------------
(***************************************************************************)
(* credentials.Broker of internal/credentials: the chain built by         *)
(* NewBrokerWithConfig and one call of Resolve(key), one resolver per     *)
(* step.  The sources behind the resolvers (environment, the sops file,   *)
(* the KeePassXC sidecar, the Setec server) are a store of what each      *)
(* holds for each key; exec and network failures are nondeterministic.    *)
(***************************************************************************)
EXTENDS Naturals, Sequences

CONSTANTS
    Keys,      \* credential keys
    Secrets,   \* non-empty secret values
    Empty,     \* the empty string
    Absent,    \* the source holds nothing for the key
    NotFound,  \* the "not found in any source" error
    None,      \* Resolve has not returned yet
    Configs,   \* BrokerConfigs: which of sops, kdbx, setec are configured
    Stores     \* what the sources hold

Sources == {"env", "sops", "kdbx", "setec"}
Values == Secrets \cup {Empty}

\* The answer of the sidecar's juggler_keys_resolve: a JSON-RPC response
\* carrying the value, which is not the value itself.
Envelope(v) == <<"jsonrpc", v>>

\* A Resolver's (value, error): ok is err == nil.
Ok(v) == [ok |-> TRUE, val |-> v]
Err == [ok |-> FALSE, val |-> Empty]

\* The broker's test: err == nil && val != "".
Hit(o) == o.ok /\ o.val # Empty

\* NewBrokerWithConfig: env and sops always, kdbx and setec when configured.
WithKdbx(cfg) ==
    IF cfg.kdbx THEN Append(<<"env", "sops">>, "kdbx") ELSE <<"env", "sops">>
Chain(cfg) ==
    IF cfg.setec THEN Append(WithKdbx(cfg), "setec") ELSE WithKdbx(cfg)

\* EnvResolver: an unset (or empty) variable is an error.
EnvResolve(st, k) ==
    IF st["env"][k] \in Secrets THEN {Ok(st["env"][k])} ELSE {Err}

\* SopsResolver: unconfigured path, a sops run that fails (no such key,
\* decryption error), or the trimmed output.
SopsResolve(cfg, st, k) ==
    IF ~cfg.sops \/ st["sops"][k] = Absent THEN {Err}
    ELSE {Ok(st["sops"][k]), Err}

\* KDBXResolver: curl fails, or the response mentions "error" (no such
\* key), or the whole trimmed response is returned.
KdbxResolve(st, k) ==
    IF st["kdbx"][k] = Absent THEN {Err}
    ELSE {Ok(Envelope(st["kdbx"][k])), Err}

\* SetecResolver: a transport error, a non-200 status, or the decoded
\* value, which may be empty.
SetecResolve(st, k) ==
    IF st["setec"][k] = Absent THEN {Err}
    ELSE {Ok(st["setec"][k]), Err}

Outcomes(src, cfg, st, k) ==
    CASE src = "env"   -> EnvResolve(st, k)
      [] src = "sops"  -> SopsResolve(cfg, st, k)
      [] src = "kdbx"  -> KdbxResolve(st, k)
      [] src = "setec" -> SetecResolve(st, k)

\* The loop returns at the first hit: its index in the outcomes, 0 if none.
FirstHit(os) ==
    LET hits == {i \in 1..Len(os) : Hit(os[i])}
    IN  IF hits = {} THEN 0 ELSE CHOOSE i \in hits : \A j \in hits : i <= j

VARIABLES
    cfg,    \* the BrokerConfig the broker was built with
    store,  \* what the sources hold
    key,    \* the key being resolved
    tried,  \* the outcomes of the resolvers called so far, in order
    out     \* what Resolve returned

vars == <<cfg, store, key, tried, out>>

Init ==
    /\ cfg \in Configs
    /\ store \in Stores
    /\ key \in Keys
    /\ tried = <<>>
    /\ out = None

\* One iteration of Broker.Resolve's loop: call the next resolver and
\* return its value if it is a hit.
Try ==
    /\ out = None
    /\ Len(tried) < Len(Chain(cfg))
    /\ \E o \in Outcomes(Chain(cfg)[Len(tried) + 1], cfg, store, key) :
          /\ tried' = Append(tried, o)
          /\ out' = IF Hit(o) THEN o.val ELSE None
    /\ UNCHANGED <<cfg, store, key>>

\* The loop ran out of resolvers.
GiveUp ==
    /\ out = None
    /\ Len(tried) = Len(Chain(cfg))
    /\ out' = NotFound
    /\ UNCHANGED <<cfg, store, key, tried>>

Next == Try \/ GiveUp

Spec == Init /\ [][Next]_vars

-----------------------------------------------------------------------------
\* Resolve returns the value of the first resolver, in chain order, that
\* gave a non-empty value without error, and NotFound only after every
\* resolver of the chain failed.
ResolveFirstHit ==
    /\ out \notin {None, NotFound} =>
          FirstHit(tried) # 0 /\ out = tried[FirstHit(tried)].val
    /\ out = NotFound =>
          Len(tried) = Len(Chain(cfg)) /\ FirstHit(tried) = 0

\* A resolved credential is the secret that one of the chain's sources
\* holds for the key (spec 4.2: the resolver maps the key to its value).
SecretFidelity ==
    out \notin {None, NotFound} =>
        \E i \in 1..Len(Chain(cfg)) : out = store[Chain(cfg)[i]][key]

=============================================================================
