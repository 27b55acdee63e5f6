# Formal models of the HexStrike gateway

This directory holds TLA+ models of the Go gateway under `src/gateway`, the
TLC configurations that model-check them, and TLAPS proofs about them.
`PROJECT.json` gives the machine-readable inventory:
- components;
- runs;
- mutants;
- the map from each definition to the source lines it translates;
- findings;
- hazards;
- theorems.

## The system

The gateway is one process. `cmd/hexstrike-gateway/main.go` wires it together:

1. **Policy engine** (`internal/policy/engine.go`). It takes a compiled YAML
   policy. `Evaluate(caller, tool)` first checks the denied list. If there are
   no grants at all, it allows. Otherwise it takes the first grant whose caller
   and namespace patterns match, and denies if none match.
   `EvaluateWithParams` re-scans the grants for the first one that matches the
   capability, then checks that grant's parameter constraints.
2. **Policy middleware** (`internal/policy/middleware.go`). It buffers the
   body (1 MiB) and parses it as JSON-RPC. For `tools/call` it takes the
   caller from the `Tailscale-User-Login` header and the tool from
   `params.name`, answers 403 on a deny, and tags the request with
   `X-HexStrike-Tool`.
3. **Circuit breaker and webhook** (`internal/aperture/webhook.go`). This is a
   set of tripped tool names under an RWMutex. Aperture webhooks trip or reset
   entries.
4. **Metering middleware** (`internal/aperture/metering.go`). It answers 429
   when the tagged tool is tripped. Otherwise it forwards the request and then
   fires `RecordAsync` in a goroutine of its own.
5. **MCP bridge** (`internal/proxy/mcp_proxy.go`, `handler.go`). It is one
   child process spoken to over stdin/stdout as line-delimited JSON-RPC.
   `SendRequest` holds `p.mu` from the write of the request to the read of
   one response line. `NewMCPProxy` performs the `initialize` handshake.
   `Stop` closes stdin, kills the child and waits for it.
6. **Credential broker** (`internal/credentials`). It is an ordered chain of
   resolvers (env, sops, kdbx, setec), and the first non-empty value wins.
7. **Health, metrics, S3 export.** These are read-only reporting.
   `health` reports `mcp: up` iff `MCPProxy.Alive()`, and status `ok` iff
   `mcp` is up. `MCPBridge` models this as `HealthMCP` and `HealthStatus`,
   and `AliveReflectsChild` is stated on `HealthStatus`.

A request flows through policy, then metering, then metrics, then the
bridge handler (`main.go:100-104`). The webhook endpoint and the request
handlers run concurrently in `net/http` goroutines.

`main.go:83` calls `mcpProxy.SetCredentialBroker(broker)`, which `MCPProxy`
does not define, so the gateway as checked in does not compile. The models
follow each component's own code. The wiring is taken as `main.go` would be
without that line.

## Modules

### `MCPBridge` — the subprocess protocol bridge

State:
- `phase`: `init` during `NewMCPProxy`, then `ready` or `failed`, then
  `stopped` after `Stop`.
- `pc[p]`: where each caller is inside `SendRequest`, either `idle` or
  `read` (past its write, waiting for a line).
- `mu`: the holder of `p.mu`.
- `nextID`: the id counter.
- `reqId[p]`: the id p last sent.
- `last[p]`: what `SendRequest` last returned to p.
- `toBackend` / `fromBackend`: the two pipes, as sequences of lines.
- `proc`: whether the child runs.
- `stdinClosed`: set by `Stop`.
- `waited`: `cmd.Wait` ran, so `ProcessState` is set.

The callers are `Main`, which sends the `initialize` call of `NewMCPProxy`,
and a set `Clients` of HTTP handler goroutines, which may call only once the
proxy is built.

`SendRequest` is split at its one blocking point:
- `SendWrite`: lock, take the id, write.
- `SendWriteFails`: the write fails on a closed stdin or an exited child.
- `SendRead`: one line is read and unmarshalled. An error object becomes an
  error and anything else becomes a result, as in `json.Unmarshal` into
  `jsonrpcResponse`.
- `SendReadFails`: EOF after the child exits, or a closed pipe after `Wait`.

Each of these ends in `Return`. `Return` models the deferred unlock and,
for `Main`, the handshake's outcome: kill and `log.Fatalf`, or ready.

The backend is the environment, modelled from spec §§4-7 because its code is
not in this repository:
- `BackendServe` answers the line it reads, echoing its id.
- `BackendNotify` writes a line that answers nothing. This is an MCP
  notification, allowed only when the constant `BackendNotifies` is TRUE.
- `BackendCrash` makes the child exit, allowed when `BackendCanCrash` is TRUE.

`Terminated` is the stuttering end state after a failed handshake or after
`Stop` with no caller inside `SendRequest`.

Data is abstracted away: a request is its id and method, and a response line
is its kind and id. Byte content, framing and logging are left out. The
request body never influences the bridge's control.

### `BridgeRPC` — what `SendRequest` promises

This is the abstract specification of the bridge. It has no pipes, no child
process and no lines. A call is `Begin(p)` followed by `Finish(p)`, or a
single `FailFast(p)`. Each call uses one id (`issued`), and at most one
caller has a call in flight (`holder`). A call ends with `"result"`,
`"rpcerror"` or `"ioerror"`. `Settle` makes the handshake decide the
gateway's phase: ready after a result, failed otherwise.

`MCPBridge` refines it through `RPC == INSTANCE BridgeRPC WITH ...`:

| abstract | concrete |
|---|---|
| `aphase` | `phase` |
| `holder` | `mu` |
| `issued` | `nextID - 1` |
| `reply[p]` | `ReplyOf[p]`: `last[p].kind`, except `"misattributed"` when an idle caller's result or rpc error carries an id other than its own |

The step correspondence is:
- `SendWrite` is `Begin`;
- `SendWriteFails` is `FailFast`;
- `SendRead` and `SendReadFails` are `Finish`;
- `Stop` is `Stop`;
- the backend's steps and `Terminated` are stutters.

`ImplementsRPC == RPC!Spec` is therefore the claim that the bridge is an
atomic call answered by its own response. No abstract step produces
`"misattributed"`.

### `MCMCPBridge`

This is the TLC wrapper. It is also the place for symmetry.

### `PolicyEngine` — the policy engine as pure operators

`engine.go` is translated operator by operator:
- `matchCaller`, `matchNamespace` and `matchPattern` keep their names.
- `Evaluate` follows the code's three early returns: the denied list, then
  default-allow on an empty grant list, then the first grant that allows.
- `EvaluateWithParams` is `CheckParams` applied to `Evaluate`'s decision.

Data abstraction:
- Strings are sequences over a small alphabet that holds the two characters
  the matchers inspect, `*` and `@`. The prefix and suffix globs are
  therefore checked on real strings.
- `internal` and `external` are two constants of that string set.
- A `Decision` names the index of its grant instead of copying the grant's
  `Src`, `AuditLevel` and `RateLimit`.
- The loop "first grant that passes the test" is the least passing index
  (`FirstOf`).
- `EvaluateWithParams` ranges over a Go map, whose order is unspecified. It
  therefore returns a *set* of possible decisions, one per violated
  constraint.

### `PolicyReload` — hot reload against concurrent evaluations

Both reload mechanisms of `internal/policy` are modelled, selected by the
constant `HotReload`. `Spec` and `FairSpec` (next-state relation `Next`)
are the cache. `ReloadSpec` (`ReloadNext`) is `Engine.Reload`. Both share
the file writer and the readers (`ReaderStep`).

- **`"cache"` (`cache.go`).**
  - `WatchStat` is the ticker's `os.Stat` and mtime comparison.
  - `WatchLoad` is the locked `NewEngine` and swap. On a parse error it keeps
    the old engine and the old `modTime`.
  - `StopCache` is `Stop`.
  - A reader's `Begin` is `c.Engine()`. Its reads then go to the engine it
    took, which nothing mutates.
- **`"engine"` (`engine.go` `Reload`).**
  - `ReloadRead` is the `NewEngine` call, and the start of the unlocked
    struct copy `e.policy = newEngine.policy`. `ReloadCopy` is its end.
  - Readers read the live `e.policy`. The copy moves two slice headers
    (pointer and length each), and Go promises neither atomicity nor an
    order for it. So while it runs, a read of a header may pair the old or
    the new pointer with the old or the new length (`DeniedReads`,
    `LenReads`, `GrantsReads`):
    - `TornSlices` gives the grant slices such a read can see.
    - `TornSets` gives the denied lists. The file may list the denied
      names in any order, so the first `k` names are any `k` of them.
    - Elements read past a slice's own length are zero values, which
      match nothing. Reads beyond the capacity are left out.

A reader's steps are the reads of `e.policy` that `Evaluate` and
`EvaluateWithParams` make:
- `ReadDenied`: the denied loop.
- `ReadLen`: `len(Grants) == 0`.
- `ReadScan`: the grant loop.
- `ReadRescan`: the second loop of `EvaluateWithParams`.

The policy file is written by saves (`Truncate`, then `Fill`). The two
writes of a save fall in one timestamp tick. With `CoarseMTime`, two
*different* saves may also share an mtime.

The variable `seen[p]` is the history the properties need: the policies
whose words the reader's engine held during its call. A copy that overlaps
the call adds the new policy when it starts.

### `PolicyProofs`

This module holds the theorems about the two modules above; see *Proofs*.

### `Pipeline` — the `POST /mcp` handler chain

`Pipeline` composes, for a set `Reqs` of concurrent handler goroutines, the
four stages that `main.go:100-104` chains. It uses `PolicyEngine`'s
`Evaluate` on a fixed policy `Pol`. Each goroutine serves one request from
`Inputs`: a body that parses or not, a method (`tools/call`, another one, or
empty), a tool name or none, arguments, a client-set `X-HexStrike-Tool`
header or none, an identity header or none, and a remote address.

| action | code |
|---|---|
| `PolicyStage(r)` | `policy.Middleware`: 400 on a bad body; for `tools/call`, `Evaluate` on `callerFromRequest` and `ExtractToolName`, then 403 or the tag |
| `MeterCheck(r)` | `MeteringMiddleware`: 429 on a tripped tag, otherwise the status writers start at 200 |
| `Handler(r)` | `NewMCPHandler`: 400 on an empty method, otherwise `SendRequest` |
| `Acquire(r)`, `Complete(r)` | `SendRequest` takes and releases `p.mu`; an error is written as 500 through the writers |
| `Record(r)` | the `UsageEvent` handed to `RecordAsync`, success read from the `statusWriter` |
| `Trip(t)`, `Reset(t)` | `WebhookHandler`'s two actions |

The bridge is reduced to its lock and an outcome, ok or error. `MCPBridge`
checks what happens inside it. `WriteHeader` follows the writer chain: the
metrics `responseWriter` forwards to the aperture `statusWriter`, which
forwards to the connection. `checked[r]` and `trippedAt[t]` number the
webhook signals, so that a property can say which came first.

`FairSpec` adds weak fairness of each request's six actions. The Go runtime
keeps every handler goroutine running. `Complete` returns because
`SendRequest` returns, which is `CallsReturn` of `MCPBridge` for a backend
that answers what it reads. The webhook gets no fairness: signals come when
they come. Weak fairness of `Acquire` is enough, although another request
can take the lock first. Each request takes `p.mu` once, so the lock is
eventually free for good.

### `Gateway` — what the handler chain promises

`Gateway` is the abstract specification of `POST /mcp`. The middlewares, the
status writers and the breaker are hidden. Each request is `pending`, at the
`backend` or `answered`.
- `Refuse(r)`: a pending request is answered with 400, 403 or 429. A 403 is
  allowed only if the policy gate stops the request.
- `Forward(r)`: a permitted request goes to the idle backend. One request is
  served at a time.
- `Return(r)`: the backend answers 200 or 500, and becomes idle again.
- `Account(r)`: an answered request gets a usage record whose success flag
  matches the status its client saw.

`Pipeline` implements it (`ImplementsGateway`) under this mapping:

| `Gateway` | `Pipeline` |
|---|---|
| `stage[r]` | `GStage`: `backend` while `pc[r] = "bridge"`, `answered` once `resp[r] # 0`, otherwise `pending` |
| `permitted[r]` | `Permitted(r)`: the body parses, and a `tools/call` passes `Evaluate` on `callerFromRequest` and `ExtractToolName` |
| `holder` | `owner`, the holder of the bridge's `p.mu` |
| `answer` | `resp` |
| `usage` | the usage events, with the tag left out |

Each pipeline step maps to one step of the abstract specification:
- a 400 or 403 from the policy, a 429 from the breaker, or the handler's 400
  for an empty method is `Refuse`;
- `Acquire` is `Forward`;
- `Complete` is `Return`;
- `Record` is `Account`.

Every other step is a stutter.

### `MCPipeline`

`MCPipeline` gives the instance:
- two requests and the tools `t1`, `t2` and `unk` (the "unknown" sentinel);
- a policy granting `t1` to tailnet callers with the constraint
  `target = "a*"`, all tools to the plain caller `a`, and denying `t2`;
- eight client requests (`MCInputs`). Among them are a call that breaks the
  constraint, a call with no tool name, and two non-tool methods with a
  forged tag.
  There is also an unnamed call from a tailnet caller, which the policy
  denies.
- `Permitted` overridden by `MCPermitted`, a table of `Verdict` over
  `MCInputs` computed once, so that checking the refinement does not
  re-evaluate the policy in every state.

### `Broker` — the credential broker

`Broker` models `NewBrokerWithConfig` and one `Broker.Resolve(key)`:
- `Chain(cfg)` is the resolver list: env and sops always, then kdbx and
  setec when configured, appended in that order.
- The sources are a store, giving for each source what it holds for the
  key: a secret, the empty string, or nothing.
- Each resolver's outcomes (`EnvResolve`, `SopsResolve`, `KdbxResolve`,
  `SetecResolve`) follow its code. Each has its unconfigured or missing-key
  error, and an exec or network failure wherever the code can meet one.
- `KdbxResolve` returns `Envelope(v)`, the sidecar's JSON-RPC response,
  because that is what the code returns.
- `Try` is one iteration of the loop: call the next resolver, return on
  `err == nil && val != ""`. `GiveUp` is the not-found error.
- `tried` keeps the outcomes, so that a property can name the first hit.

`MCBroker` enumerates the eight configurations and every combination of
`s1`, `s2`, empty and nothing across the four sources.

### `BrokerProofs`

This module holds the broker's theorems; see *Proofs (`BrokerProofs`)*.

## Runs

| run | cfg | expect | what it shows |
|---|---|---|---|
| `bridge_lockstep` | `MCPBridge.cfg` | pass | With 2 clients, the handshake, a crashing backend and `Stop` at any moment, `ResponseCorrelation` and `Lockstep` hold, and the bridge implements `BridgeRPC` (`ImplementsRPC`). |
| `bridge_progress` | `MCPBridgeProgress.cfg` | pass | Under `FairSpec`, `CallsReturn` holds even for a backend that writes up to 2 unsolicited lines and may crash: the misattribution of the notification run never blocks a caller. |
| `bridge_notification` | `MCPBridgeNotify.cfg` | violation | One unsolicited backend line makes `SendRequest` return it as the handshake's result. Every later caller then gets the previous caller's answer. |
| `bridge_alive_after_crash` | `MCPBridgeAlive.cfg` | violation | After the child exits on its own, `Alive()` still says it is up. |
| `policy_cache` | `PolicyReloadCache.cfg` | pass | Under `FairSpec` with `WatchingCache`, see below. |
| `policy_engine_denial` | `PolicyReloadDenial.cfg` | violation | `DenialAbsolute`, between an old policy denying `t2` and a new one denying `t1` and `t2` and granting everything: during the copy, the reader reads the new `Denied` pointer with the old length 1. It sees only `t1`, and `t2` is granted although both policies deny it. |
| `policy_engine_reload_race` | `PolicyReloadEngine.cfg` | violation | During the copy, a reader reads the old denied list and then the new, empty grant list. It default-allows `t1`, which the old policy denies and the new one grants to nobody. This happens even if each header were copied atomically. |
| `policy_cache_coarse_mtime` | `PolicyReloadCoarse.cfg` | violation | A save whose mtime equals the one the cache recorded at creation or at its last load is never loaded. |
| `pipeline` | `Pipeline.cfg` | pass | With two requests and three webhook signals in any order, `TypeOK`, `BreakerAdmission` and `UsageMatchesOutcome` hold. Under `FairSpec` every request is answered (`RequestsAnswered`). A written status never changes (`AnswerFinal`), and the chain implements `Gateway` (`ImplementsGateway`). 1.3M distinct states, about 2 minutes. |
| `pipeline_param_constraints` | `PipelineParams.cfg` | violation | A tailnet `tools/call t1` with `target = "@"` reaches the bridge: the gate never checks the grant's constraint. |
| `pipeline_forged_tool` | `PipelineForged.cfg` | violation | A non-tool request with `X-HexStrike-Tool: t1` yields a usage event for `t1`. |
| `broker_kdbx_envelope` | `BrokerFidelity.cfg` | violation | With kdbx configured and the key missing from env and sops, `Resolve` returns `<<"jsonrpc", s1>>`, the sidecar's response, instead of `s1`. |

In `policy_cache`, two properties hold:
- `SnapshotDecision`: every evaluation returns a decision of one whole
  policy.
- `ReloadConverges`: a completed save is eventually loaded, even when the
  watcher read the half-written file first.

The policy runs use:
- three policy files: deny-only with no grants, a prefix grant with a
  constraint followed by a wildcard grant, and an external-only grant with a
  suffix constraint;
- three caller names (`a@`, `a`, `@`) and three params maps;
- both tools, and both `Evaluate` and `EvaluateWithParams`.

Together these reach every early return of `Evaluate`, a constraint
violation and the default-allow path. The runs allow two saves, which is
enough for a reload during a call and a load after a failed parse. One reader
suffices because readers never interact: the race is between a reader and
the reloader.

The fairness of `FairSpec` is weak fairness of `WatchStat` and `WatchLoad`.
The 5-second ticker keeps firing while the watcher runs.

Bounds:
- `MaxID = 5` lets the handshake and four handler calls happen. That covers
  every pair of clients racing for the lock twice, plus a crash or a `Stop`
  between any two steps.
- Ids are the only unbounded counter. Once `nextID > MaxID` no new call
  starts, which in a run is the same as no more inbound requests.
- One notification is enough for the violation: it shifts the stream by one
  line for good.

Fairness (`Fairness` in `MCPBridge`):
- weak fairness of `BackendServe`, because the backend answers each request
  it reads (spec §4.4);
- weak fairness of each caller's read and of its failure, because the Go
  runtime keeps running a goroutine that is blocked on a pipe which has data
  or is closed.

No fairness is assumed for new calls, crashes, notifications or `Stop`.
`CallsReturn` therefore says a blocked caller returns without relying on any
of those. A backend that reads and never answers is outside this fairness. In
the code it blocks every caller forever, since `ReadBytes` has no timeout.

Mutants: each property of the passing run is broken by a plausible code bug,
under the run's own cfg.

| mutant | breaks |
|---|---|
| writing without taking `p.mu` (`SendWriteUnlocked`) | `ResponseCorrelation` |
| an error return that skips the unlock (`ReturnKeepsLock`) | `Lockstep` |
| a handshake that accepts an rpc error as success (`ReturnHandshakeAnyAnswer`) | `ImplementsRPC` |
| a rescan that asks the cache for the engine again (`ReadRescanFresh`) | `SnapshotDecision` |
| a watcher that records the mtime even when the parse fails (`WatchLoadRecordsFailure`) | `ReloadConverges` |
| a read that fails only on a closed pipe, never on EOF (`SendReadFailsOnClose`) | `CallsReturn` |
| `ExtractToolName` without its "unknown" sentinel (`ExtractToolNameRaw`) | `TypeOK` (pipeline) |
| the breaker check reading the client's header, as when metering wraps policy (`MeterCheckBeforePolicy`) | `BreakerAdmission` |
| a metrics writer that does not forward `WriteHeader` (`WriteHeaderUnforwarded`) | `UsageMatchesOutcome` |
| an error return from `SendRequest` that keeps `p.mu` (`CompleteKeepsLock`) | `RequestsAnswered` |
| a policy denial that writes 403 but does not return (`PolicyStageNoReturn`) | `AnswerFinal` |
| a gate that evaluates only named tool calls (`PolicyStageSkipsUnnamed`) | `ImplementsGateway` |

## Findings

- **Response ids are never checked** (`mcp_proxy.go:113-122`). `SendRequest`
  returns whatever line comes next. A backend that emits one notification
  (legal MCP) misattributes every later response: a caller receives the result
  of another caller's tool call. The spec calls the lockstep a deliberate
  simplification, but requires nothing of the backend that would exclude this.
- **Health after a crash** (`mcp_proxy.go:131`). `Alive()` is
  `ProcessState == nil`, and only `cmd.Wait()` sets it. Only `Stop()` calls
  `Wait()`. After an unexpected exit, `/health` keeps reporting `up`, while
  spec §7 says it flips to down.

In `pipeline`, these properties hold:
- `BreakerAdmission`: a request on its way to the bridge (in the handler,
  waiting for `p.mu`, or holding it) for a tool that is tripped now passed
  its breaker check before that tool's last trip. The check is a snapshot
  taken before the wait for the lock. Trips that land during the wait
  cannot stop the request, and the property bounds that window to the
  requests already admitted.
- `UsageMatchesOutcome`: each usage event's success flag agrees with the
  status the client received. That holds only because the metrics writer
  forwards `WriteHeader` to the aperture writer below it.
- `RequestsAnswered`: every request ends with a status written to its
  client. The handlers serialise on `p.mu`, so one path that returns with
  the lock held leaves every later client waiting.
- `AnswerFinal` (an action property): once a status is written, it stays,
  and the goroutine goes only to recording. Each `http.Error` in the chain
  is followed by a `return`. One missing return after the 403 would let the
  request go on to the breaker and the bridge.
- `ImplementsGateway`: the chain implements `Gateway`. Only permitted requests
  reach the backend, one at a time. A 403 goes only to a request the policy
  stops. Usage records match the answers.

Bounds: two requests are enough for one to wait on `p.mu` while the other
holds it. Three signals allow a trip, a reset and a second trip, so a request
can be admitted between two trips of the same tool. The model stops when
every request has been answered and the signals are spent, so the pipeline
cfgs set `CHECK_DEADLOCK FALSE`.

## Findings (pipeline)

- **Parameter constraints are never enforced** (`middleware.go:34`). The
  gate calls `engine.Evaluate`, so `EvaluateWithParams` and every grant's
  `ParameterConstraints` are dead code on the request path. The spec (§2,
  §3) evaluates (caller, tool, parameters).
- **Metering trusts a client header** (`metering.go:92`). `X-HexStrike-Tool`
  is overwritten only on an allowed `tools/call`. On any other method a
  client-chosen tag is breaker-checked and metered as a call of that tool,
  with a caller that is itself taken from a client header.

## Findings (broker)

- **KDBX returns the JSON-RPC envelope** (`broker.go:149-155`). The code
  comments "Extract value from JSON-RPC response" and then returns the whole
  trimmed response. Every credential resolved through the sidecar is a JSON
  document, not the secret.
- Nothing calls `Broker.Resolve` today (`main.go:83` calls a method
  `MCPProxy` does not have).

## Findings (policy)

- **`Engine.Reload` is not atomic** (`engine.go:195`). It runs
  `e.policy = newEngine.policy` without a lock, while `Evaluate` reads
  `Denied` and then `Grants`. Spec §4.1 and §5 promise an atomic swap. The
  `policy_engine_reload_race` run shows a tool allowed that neither policy
  allows.
- **A torn copy breaks the denied list's precedence** (`engine.go:195`).
  The copy can be seen with a torn `Denied` header. Then even a tool that
  both the old and the new policy deny can be allowed
  (`policy_engine_denial`). This contradicts "absolute precedence"
  (`engine.go:78`) and spec §5.
- Nothing outside tests calls `Reload` today. `WatchingCache` swaps
  whole engines instead and is proved safe (below).
- **Coarse mtimes hide saves** (`cache.go:68`). A save within the same
  timestamp tick as the recorded mtime is never loaded. Linux takes file
  timestamps from a coarse clock, so two saves milliseconds apart can share
  one.
- `WatchingCache` is not created anywhere in `main.go`. The running gateway
  never hot-reloads, and the engine built at startup (or `DefaultEngine`,
  allow-all, when the file fails to load) serves until restart.

## Proofs (`PipelineProofs`)

All proofs check with `tlapm PipelineProofs.tla`. They hold for every set of
requests, tools and callers and every `MaxSignals`, under
`PipelineAssumption` and `PolicyAssumption`.

- `TypeCorrect`: `Spec => []TypeOK`.
- `BreakerSound`: `Spec => []BreakerAdmission`.
- `UsageSound`: `Spec => []UsageMatchesOutcome`.

Both safety properties rest on one inductive invariant,
`IInv == TypeOK /\ Stamps /\ BreakerAdmission /\ Writers /\ Events`. TLC
checked it on the `pipeline` instance first.
- `Stamps`: no check and no Trip carries a signal number above `signals`.
  So a Trip that lands after a request's check is stamped later than that
  check.
- `Writers`: no status reaches the client before the handler writes. The
  aperture writer holds 200 while the handler runs, and holds what the
  client got once it has written.
- `Events`: a request with a `UsageEvent` has finished, so its status no
  longer changes, and the event's flag matches that status.

There is one lemma per action (`PolicyStageRest`, `MeterCheckRest`,
`HandlerRest`, `AcquireRest`, `CompleteRest`, `RecordRest`, `TripRest`,
`ResetRest`), and `NextIInv` combines them. `RequestsAnswered` is liveness
and stays with TLC.

- `AnswerIsFinal`: `Spec => AnswerFinal`. Once a status is written, it never
  changes, and the request is at `record` or `done`. Every action that writes
  returns right after writing. The argument is `Writers` from `IInv`: an
  answered request is at `record` or `done` (`AnsweredStage`). Only `Record`
  moves such a request, and it does not touch `resp` (`AnswerStays`).
- `GatewayRefinement`: `Spec => ImplementsGateway`. The `POST /mcp` chain
  implements `Gateway` under the mapping in the `Gateway` section. It rests
  on `GInv == IInv /\ Gate /\ Lock /\ Answered`:
  - `Gate`: a request past the policy stage (`meter`, `handler`, `wait`,
    `bridge`) is `Permitted`. `Forward`'s guard needs it at `Acquire`.
  - `Lock`: `pc[r] = "bridge"` exactly when `owner = r`. Without it,
    `holder = None` at `Acquire` and `holder' = None` at `Complete` cannot
    be derived.
  - `Answered`: a request at `record` or `done` has a status. Without it,
    `GStage` at `Record` would not be `answered`.

  TLC checked `GInv` on the `pipeline` instance before the proof. There is
  one lemma per action (`PolicyStageGRest` ... `WebhookGRest`) for `GInv`.
  The step lemmas `RefuseStep`, `ForwardStep`, `ReturnStep`, `AccountStep`
  and `HiddenStep` show each kind of pipeline step to be a `Gateway!Next`
  step or a stutter. `GatewayStep` combines them.

## Proofs (`PolicyProofs`)

These hold for every policy, caller, tool and parameter map, and any number
of readers.

- `RescanSameGrant`. The second loop of `EvaluateWithParams` selects the same
  grant as `Evaluate`'s loop, on any grant sequence. The code writes its test
  with double negations; lemma `AppliesIffAllows` shows it equivalent. This
  settles, for one snapshot, the open question of spec §9.
- `ParamsCheckDecidingGrant`. `EvaluateWithParams` allows iff `Evaluate`
  allows and the deciding grant has no violated constraint, and it names that
  grant. The verdict does not depend on the map's iteration order. The proof
  is by cases on `Evaluate`'s early returns (lemma `EvalCases`).
- `CacheSnapshotDecision`: with `HotReload = "cache"`,
  `Spec => []SnapshotDecision`. The inductive invariant `SnapInv` says, for
  each reader:
  - in a call, its history is exactly the policy of the engine it took;
  - at each read, the reads before established facts about that policy:
    - the tool is not denied;
    - at the scan, the grant list is non-empty;
    - at the rescan, `dec` is `Evaluate` of it;
  - when idle, its last decision is an outcome of that policy.

  There is one lemma per reader step. `EnvSnapInv` covers the writer, the
  watcher and `Stop`: a swap changes `cur`, never a reader's engine.
- `DenialAbsolute` under `Engine.Reload` is not proved: it does not hold.
  The copy at `engine.go:195` can be torn (`policy_engine_denial`).

## Proofs (`BrokerProofs`)

The theorems take as hypothesis `BrokerHyp`: configurations and stores have
their shape, and the markers `None`, `NotFound` and `Absent` are not values.
- `ResolveCorrect`: `Spec => []ResolveFirstHit`. A returned value is the
  value of the first hit of `tried`. `NotFound` comes only after the whole
  chain failed.
- `EnvWins`: `Spec => []EnvPrecedence`. A key set in the environment
  resolves to the environment's value.
- `ResolvesFromChain`: `Spec => []ResolvedFromChain`. A credential
  `Resolve` hands out is what some resolver of `Chain(cfg)` gets from its
  source for the key (`SourceValue`). For kdbx that is the JSON-RPC
  envelope around the value. So no unconfigured resolver is asked, and no
  error path yields a value. Lemma `HitValue` shows this for one resolver's
  outcomes, case by case.

The three temporal theorems rest on the inductive invariant `IInv`. It says:
- while the loop runs, every outcome so far was a miss;
- a returned value is the last outcome, and it is a hit after misses;
- `NotFound` means the chain is exhausted with misses only;
- when the environment holds the key, the first outcome is that value;
- the `i`-th outcome is an outcome of the `i`-th resolver of the chain.

The last conjunct is what `EnvWins` needs: `ChainShape` puts env first in
every chain. TLC checks `IInv`, `ResolveFirstHit` and `EnvPrecedence` on the
`MCBroker` instance as well.

## Proofs (`MCPBridgeProofs`)

All proofs check with `tlapm MCPBridgeProofs.tla`. They hold for any finite
or infinite set of clients and any `MaxID`, under `BridgeAssumption`.

- `TypeCorrect`: `Spec => []TypeOK`.
- `Correlation`: assuming `~BackendNotifies`, `Spec => []ResponseCorrelation`.
- `LockstepHolds`: assuming `~BackendNotifies`, `Spec => []Lockstep`.
- `Refinement`: assuming `~BackendNotifies`, `Spec => ImplementsRPC` (that is, `RPC!Spec`).

`ResponseCorrelation` is not inductive on its own. A returned result is
correct only because of what the pipes held when it was read. The inductive
invariant is `IInv == TypeOK /\ Lockstep /\ ResponseCorrelation`. Lockstep
says:
- only the lock holder is past its write, and at most one process holds the
  lock;
- while the child runs, the pipes together hold at most one line, and that
  line carries the holder's id;
- `fromBackend` never holds more than one line, none of them a notification;
- after `Wait` nothing is left to read.

The proof has one lemma per kind of step:
- `ProcStepIInv` for the callers;
- `EnvStepIInv` for the backend, `Stop` and `Terminated`.

`BackendServe` keeps the invariant because `Lockstep` forces `toBackend` to
be exactly the holder's request when it runs. `SendRead` keeps
`ResponseCorrelation` because the line it takes carries the reader's own id.
The assumption `~BackendNotifies` is needed exactly where the
`bridge_notification` run shows it.

`Refinement` is a step simulation under `IInv /\ IInv'`
(`StepSimulation`), with one step per kind of concrete action. Two lemmas
compute the mapped reply:
- `ReturnReply`: a return changes only the caller's reply, to the kind it
  returned. The correlation of the new state rules out `"misattributed"`.
- `WriteReply`: `SendWrite` changes no reply, since the caller's previous
  answer was correlated.

The initial state maps to `RPC!Init`. The temporal step combines the
simulation with `InitIInv` and `NextIInv` by PTL.

Only TLC checks these:
- `CallsReturn`, a liveness property: TLAPS does not reason about fairness
  here;
- the violations.

## Plan

The order in which the rest of the gateway is to be modelled:

1. **PolicyEngine / PolicyReload.** Done.
2. **Pipeline.** Done. It models the middleware chain, the breaker, the
   webhook and usage events. Unbounded `RecordAsync` goroutines are a rate
   issue and are left as a hazard.
3. **PolicyCache.** Done (in `PolicyReload`).
4. **CredentialBroker.** Done (`Broker`, `BrokerProofs`).
5. **BridgeRPC.** Done. `MCPBridge` refines it. TLC checks the refinement
   in `bridge_lockstep`, and `Refinement` proves it.

## Not modelled

- Metrics counters and S3 export: counters and HTTP pulls that no other
  part reads. The metrics `responseWriter` is modelled in `Pipeline`.
- The POST of a usage event to Aperture (`RecordUsage`): outbound I/O whose
  failures are only logged.
- Flag parsing, TLS and listeners: I/O.
- The Go JSON decoder's case-insensitive field matching (a policy/parser
  differential on `Name` vs `name`): below the abstraction of a tool name.
