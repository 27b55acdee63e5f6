------------------------------ MODULE Pipeline ------------------------------
(***************************************************************************)
(* The POST /mcp handler chain of cmd/hexstrike-gateway/main.go:          *)
(* policy.Middleware -> aperture.MeteringMiddleware -> metrics.Middleware *)
(* -> proxy.NewMCPHandler, for concurrent requests, with the Aperture     *)
(* webhook tripping and resetting the circuit breaker in between.  The    *)
(* bridge is its exclusive section (MCPProxy.mu) and an outcome, ok or a  *)
(* BackendError; MCPBridge models what happens inside it.  The policy is  *)
(* the fixed snapshot Pol; PolicyReload models its reload.                *)
(***************************************************************************)
EXTENDS PolicyEngine

CONSTANTS
    Reqs,        \* concurrent inbound requests
    Callers,     \* identities: identity header values and remote addresses
    ParamSets,   \* tools/call arguments
    Pol,         \* the engine's policy
    Unknown,     \* the tool name "unknown" of ExtractToolName
    NoName,      \* a tools/call whose params carry no usable name
    NoTag,       \* no X-HexStrike-Tool header
    None,        \* no owner of the bridge lock
    MaxSignals   \* webhook signals the model sends

\* The request as the client sent it: a body that parses or not, its method,
\* the tool name in its params, its arguments, the X-HexStrike-Tool and
\* Tailscale-User-Login headers it carries (<<>>: absent) and its RemoteAddr.
Inputs ==
    [valid : BOOLEAN, method : {"tools/call", "other", ""},
     name : Tools \cup {NoName}, params : ParamSets, hdr : Tools \cup {NoTag},
     user : Callers \cup {<<>>}, remote : Callers]

ASSUME PipelineAssumption ==
    /\ Callers \subseteq Str
    /\ ParamSets \subseteq ParamMaps
    /\ Pol \in Policies
    /\ Unknown \in Tools
    /\ {NoName, NoTag, None} \cap (Tools \cup Reqs) = {}
    /\ MaxSignals \in Nat

Codes == {0, 200, 400, 403, 429, 500}

VARIABLES
    in,        \* the request each handler goroutine serves
    pc,        \* where that goroutine is
    tag,       \* its X-HexStrike-Tool header as the later stages read it
    resp,      \* the status the client received (0: none yet)
    mst,       \* metrics responseWriter.statusCode
    ast,       \* aperture statusWriter.status
    checked,   \* webhook signals applied when its breaker check ran
    owner,     \* the goroutine holding MCPProxy.mu
    result,    \* the outcome of its SendRequest
    tripped,   \* CircuitBreaker.tripped
    trippedAt, \* the signal number of the last Trip of each tool
    signals,   \* webhook signals applied so far
    usage      \* UsageEvents handed to RecordAsync

vars == <<in, pc, tag, resp, mst, ast, checked, owner, result, tripped,
          trippedAt, signals, usage>>

\* callerFromRequest, and the same fallback in MeteringMiddleware.
Caller(x) == IF x.user # <<>> THEN x.user ELSE x.remote

CallerOf(r) == Caller(in[r])

\* A handler that passes the params' name on without its sentinel.
ExtractToolNameRaw(n) == n

\* proxy.ExtractToolName: the params' name, "unknown" when absent or bad.
ExtractToolName(n) == IF n = NoName THEN Unknown ELSE n

Init ==
    /\ in \in [Reqs -> Inputs]
    /\ pc = [r \in Reqs |-> "policy"]
    /\ tag = [r \in Reqs |-> in[r].hdr]
    /\ resp = [r \in Reqs |-> 0]
    /\ mst = [r \in Reqs |-> 0]
    /\ ast = [r \in Reqs |-> 0]
    /\ checked = [r \in Reqs |-> 0]
    /\ owner = None
    /\ result = [r \in Reqs |-> "none"]
    /\ tripped = {}
    /\ trippedAt = [t \in Tools |-> 0]
    /\ signals = 0
    /\ usage = {}

\* A metrics responseWriter whose WriteHeader does not forward the code
\* to the writer it wraps.
WriteHeaderUnforwarded(r, code) ==
    /\ mst' = [mst EXCEPT ![r] = code]
    /\ ast' = ast
    /\ resp' = [resp EXCEPT ![r] = code]

\* A status written through the chain the handler sees: the metrics
\* responseWriter records it and forwards to the aperture statusWriter,
\* which records it and forwards to the connection.
WriteHeader(r, code) ==
    /\ mst' = [mst EXCEPT ![r] = code]
    /\ ast' = [ast EXCEPT ![r] = code]
    /\ resp' = [resp EXCEPT ![r] = code]

\* A goroutine that has written its reply, with nothing left to do.
Reply(r, code) ==
    /\ resp' = [resp EXCEPT ![r] = code]
    /\ pc' = [pc EXCEPT ![r] = "done"]

-----------------------------------------------------------------------------
\* Mutant of PolicyStage: a tools/call whose params name no tool is passed
\* on without evaluating the policy for the "unknown" tool.
PolicyStageSkipsUnnamed(r) ==
    /\ pc[r] = "policy"
    /\ IF ~in[r].valid THEN Reply(r, 400) /\ UNCHANGED tag
       ELSE IF in[r].method = "tools/call" /\ in[r].name # NoName
       THEN LET tool == ExtractToolName(in[r].name)
            IN  IF ~Evaluate(Pol, CallerOf(r), tool).allowed
                THEN Reply(r, 403) /\ UNCHANGED tag
                ELSE /\ tag' = [tag EXCEPT ![r] = tool]
                     /\ pc' = [pc EXCEPT ![r] = "meter"]
                     /\ UNCHANGED resp
       ELSE pc' = [pc EXCEPT ![r] = "meter"] /\ UNCHANGED <<tag, resp>>
    /\ UNCHANGED <<in, mst, ast, checked, owner, result, tripped, trippedAt,
                   signals, usage>>

\* Mutant of PolicyStage: the 403 is written but the missing return lets
\* the denied call go on down the chain.
PolicyStageNoReturn(r) ==
    /\ pc[r] = "policy"
    /\ IF ~in[r].valid THEN Reply(r, 400) /\ UNCHANGED tag
       ELSE IF in[r].method = "tools/call"
       THEN LET tool == ExtractToolName(in[r].name)
            IN  /\ tag' = [tag EXCEPT ![r] = tool]
                /\ pc' = [pc EXCEPT ![r] = "meter"]
                /\ IF ~Evaluate(Pol, CallerOf(r), tool).allowed
                   THEN resp' = [resp EXCEPT ![r] = 403]
                   ELSE UNCHANGED resp
       ELSE pc' = [pc EXCEPT ![r] = "meter"] /\ UNCHANGED <<tag, resp>>
    /\ UNCHANGED <<in, mst, ast, checked, owner, result, tripped, trippedAt,
                   signals, usage>>

\* policy.Middleware: a body that does not parse is a 400; a tools/call is
\* evaluated for its tool and caller, a denial is a 403, an allowed call
\* is tagged with the tool; any other method passes with its headers.
PolicyStage(r) ==
    /\ pc[r] = "policy"
    /\ IF ~in[r].valid THEN Reply(r, 400) /\ UNCHANGED tag
       ELSE IF in[r].method = "tools/call"
       THEN LET tool == ExtractToolName(in[r].name)
            IN  IF ~Evaluate(Pol, CallerOf(r), tool).allowed
                THEN Reply(r, 403) /\ UNCHANGED tag
                ELSE /\ tag' = [tag EXCEPT ![r] = tool]
                     /\ pc' = [pc EXCEPT ![r] = "meter"]
                     /\ UNCHANGED resp
       ELSE pc' = [pc EXCEPT ![r] = "meter"] /\ UNCHANGED <<tag, resp>>
    /\ UNCHANGED <<in, mst, ast, checked, owner, result, tripped, trippedAt,
                   signals, usage>>

\* The breaker check as it runs when MeteringMiddleware wraps
\* policy.Middleware instead of the other way round: it reads the header
\* the client sent, before the policy stage has set it.
MeterCheckBeforePolicy(r) ==
    /\ pc[r] = "meter"
    /\ IF in[r].hdr # NoTag /\ in[r].hdr \in tripped
       THEN Reply(r, 429) /\ UNCHANGED <<mst, ast, checked>>
       ELSE /\ pc' = [pc EXCEPT ![r] = "handler"]
            /\ mst' = [mst EXCEPT ![r] = 200]
            /\ ast' = [ast EXCEPT ![r] = 200]
            /\ checked' = [checked EXCEPT ![r] = signals]
            /\ UNCHANGED resp
    /\ UNCHANGED <<in, tag, owner, result, tripped, trippedAt, signals, usage>>

\* MeteringMiddleware's circuit breaker check (IsTripped under RLock): a
\* tagged tool that is tripped is a 429; otherwise both status writers are
\* set up with status 200 and metrics.Middleware calls the handler.
MeterCheck(r) ==
    /\ pc[r] = "meter"
    /\ IF tag[r] # NoTag /\ tag[r] \in tripped
       THEN Reply(r, 429) /\ UNCHANGED <<mst, ast, checked>>
       ELSE /\ pc' = [pc EXCEPT ![r] = "handler"]
            /\ mst' = [mst EXCEPT ![r] = 200]
            /\ ast' = [ast EXCEPT ![r] = 200]
            /\ checked' = [checked EXCEPT ![r] = signals]
            /\ UNCHANGED resp
    /\ UNCHANGED <<in, tag, owner, result, tripped, trippedAt, signals, usage>>

\* NewMCPHandler: the replayed body parses (policy.Middleware parsed the
\* same bytes); an empty method is a 400 through the status writers,
\* anything else goes to SendRequest.
Handler(r) ==
    /\ pc[r] = "handler"
    /\ IF in[r].method = ""
       THEN WriteHeader(r, 400) /\ pc' = [pc EXCEPT ![r] = "record"]
       ELSE pc' = [pc EXCEPT ![r] = "wait"] /\ UNCHANGED <<resp, mst, ast>>
    /\ UNCHANGED <<in, tag, checked, owner, result, tripped, trippedAt,
                   signals, usage>>

\* SendRequest takes p.mu: the request goes to the backend.
Acquire(r) ==
    /\ pc[r] = "wait"
    /\ owner = None
    /\ owner' = r
    /\ pc' = [pc EXCEPT ![r] = "bridge"]
    /\ UNCHANGED <<in, tag, resp, mst, ast, checked, result, tripped,
                   trippedAt, signals, usage>>

\* Mutant of Complete: an error path of SendRequest that returns without
\* p.mu.Unlock().
CompleteKeepsLock(r) ==
    /\ pc[r] = "bridge"
    /\ \E out \in {"ok", "err"} :
          /\ result' = [result EXCEPT ![r] = out]
          /\ IF out = "err" THEN WriteHeader(r, 500) /\ UNCHANGED owner
             ELSE /\ resp' = [resp EXCEPT ![r] = 200] /\ UNCHANGED <<mst, ast>>
                  /\ owner' = None
    /\ pc' = [pc EXCEPT ![r] = "record"]
    /\ UNCHANGED <<in, tag, checked, tripped, trippedAt, signals, usage>>

\* SendRequest returns and releases p.mu; NewMCPHandler writes a 500 for
\* an error and the encoded result, with the implicit 200, otherwise.
Complete(r) ==
    /\ pc[r] = "bridge"
    /\ \E out \in {"ok", "err"} :
          /\ result' = [result EXCEPT ![r] = out]
          /\ IF out = "err" THEN WriteHeader(r, 500)
             ELSE resp' = [resp EXCEPT ![r] = 200] /\ UNCHANGED <<mst, ast>>
    /\ owner' = None
    /\ pc' = [pc EXCEPT ![r] = "record"]
    /\ UNCHANGED <<in, tag, checked, tripped, trippedAt, signals, usage>>

\* After next.ServeHTTP: a tagged request hands a UsageEvent, its success
\* read from the aperture statusWriter, to RecordAsync.
Record(r) ==
    /\ pc[r] = "record"
    /\ usage' = IF tag[r] = NoTag THEN usage
                ELSE usage \cup {[req |-> r, caller |-> CallerOf(r),
                                  tool |-> tag[r], success |-> ast[r] < 400]}
    /\ pc' = [pc EXCEPT ![r] = "done"]
    /\ UNCHANGED <<in, tag, resp, mst, ast, checked, owner, result, tripped,
                   trippedAt, signals>>

\* WebhookHandler with a "trip" or a "reset" action, under cb.mu.
Trip(t) ==
    /\ signals < MaxSignals
    /\ signals' = signals + 1
    /\ tripped' = tripped \cup {t}
    /\ trippedAt' = [trippedAt EXCEPT ![t] = signals + 1]
    /\ UNCHANGED <<in, pc, tag, resp, mst, ast, checked, owner, result, usage>>

Reset(t) ==
    /\ signals < MaxSignals
    /\ signals' = signals + 1
    /\ tripped' = tripped \ {t}
    /\ UNCHANGED <<in, pc, tag, resp, mst, ast, checked, owner, result,
                   trippedAt, usage>>

Next ==
    \/ \E r \in Reqs :
          \/ PolicyStage(r) \/ MeterCheck(r) \/ Handler(r)
          \/ Acquire(r) \/ Complete(r) \/ Record(r)
    \/ \E t \in Tools : Trip(t) \/ Reset(t)

Spec == Init /\ [][Next]_vars

\* Each handler goroutine is scheduled by the Go runtime and keeps running;
\* SendRequest returns (CallsReturn of MCPBridge, for a backend that
\* answers what it reads).  Webhook signals come when they come.
Fairness ==
    \A r \in Reqs :
        /\ WF_vars(PolicyStage(r)) /\ WF_vars(MeterCheck(r))
        /\ WF_vars(Handler(r)) /\ WF_vars(Acquire(r))
        /\ WF_vars(Complete(r)) /\ WF_vars(Record(r))

FairSpec == Spec /\ Fairness

-----------------------------------------------------------------------------
TypeOK ==
    /\ in \in [Reqs -> Inputs]
    /\ pc \in [Reqs -> {"policy", "meter", "handler", "wait", "bridge",
                        "record", "done"}]
    /\ tag \in [Reqs -> Tools \cup {NoTag}]
    /\ resp \in [Reqs -> Codes] /\ mst \in [Reqs -> Codes]
    /\ ast \in [Reqs -> Codes]
    /\ checked \in [Reqs -> 0..MaxSignals]
    /\ owner \in Reqs \cup {None}
    /\ result \in [Reqs -> {"none", "ok", "err"}]
    /\ tripped \subseteq Tools
    /\ trippedAt \in [Tools -> 0..MaxSignals]
    /\ signals \in 0..MaxSignals

\* The breaker is read once, before the handler waits for p.mu: a request
\* on its way to the backend for a tool that is tripped now must have
\* passed its check before the last Trip of that tool, never after it.
BreakerAdmission ==
    \A r \in Reqs :
        pc[r] \in {"handler", "wait", "bridge"} /\ tag[r] \in tripped
            => checked[r] < trippedAt[tag[r]]

\* MeteringMiddleware's Success flag agrees with the status the client got,
\* through the metrics writer that sits between it and the handler.
UsageMatchesOutcome ==
    \A e \in usage : e.success <=> resp[e.req] < 400

\* Usage is accounted only for tool invocations: every UsageEvent belongs
\* to a tools/call request that the policy gate let through.
UsageAccounted ==
    \A e \in usage : in[e.req].method = "tools/call"

\* A status, once written to the client, is the answer: it never changes,
\* and the request never goes on to the handler, p.mu or the backend.
\* Each early http.Error/WriteHeader in policy.Middleware, the breaker
\* check and NewMCPHandler must be followed by a return.
AnswerFinal ==
    [][\A r \in Reqs :
         resp[r] # 0 =>
            /\ resp'[r] = resp[r]
            /\ pc'[r] \in {"record", "done"}]_vars

\* Every request is answered: whatever the policy, the breaker and the
\* backend decide, and however the handlers queue on p.mu, each goroutine
\* writes a status to its client and finishes.  A path that keeps p.mu
\* or never writes a reply leaves a client hanging.
RequestsAnswered == \A r \in Reqs : <>(pc[r] = "done" /\ resp[r] # 0)

\* A tools/call reaches the backend only if the policy, parameter
\* constraints included, allows its caller, tool and arguments.
ParamConstraintsEnforced ==
    \A r \in Reqs :
        pc[r] = "bridge" /\ in[r].method = "tools/call"
            => \E d \in EvaluateWithParams(Pol, CallerOf(r),
                          ExtractToolName(in[r].name), in[r].params) :
                  d.allowed


-----------------------------------------------------------------------------
(* The handler chain implements Gateway.  A request is at the backend     *)
(* while it holds p.mu, answered once a status went to its client, and    *)
(* pending before; the policy gate's verdict is a parsed body that is not *)
(* a tools/call or is one that Evaluate allows.  The breaker, the status  *)
(* writers and the stages in between are hidden: their steps stutter.     *)

\* What policy.Middleware decides for a request x.
Verdict(x) ==
    /\ x.valid
    /\ x.method = "tools/call" =>
          Evaluate(Pol, Caller(x), ExtractToolName(x.name)).allowed

Permitted(r) == Verdict(in[r])

GStage ==
    [r \in Reqs |-> IF pc[r] = "bridge" THEN "backend"
                    ELSE IF resp[r] # 0 THEN "answered" ELSE "pending"]

GW == INSTANCE Gateway
        WITH stage <- GStage, permitted <- [r \in Reqs |-> Permitted(r)],
             holder <- owner, answer <- resp,
             usage <- {[req |-> e.req, success |-> e.success] : e \in usage}

\* The chain as a whole is the gateway it promises to be: a request is
\* refused or forwarded, only what the policy lets through reaches the
\* backend, one request at a time, a 403 only for what it stops, and usage
\* records exactly the outcome the client saw.
ImplementsGateway == GW!Spec

=============================================================================
