------------------------------ MODULE MCPBridge ------------------------------
(***************************************************************************)
(* The subprocess protocol bridge: proxy.MCPProxy in                       *)
(* src/gateway/internal/proxy/mcp_proxy.go.                                 *)
(*                                                                         *)
(* The gateway talks to the backend MCP server over the child's stdin and  *)
(* stdout, one JSON-RPC object per line.  SendRequest holds p.mu for the   *)
(* whole round trip: it takes an id from p.nextID, writes one line, reads  *)
(* one line and parses it.  The response id is never compared with the    *)
(* request id: correlation rests on the lock and on the backend writing    *)
(* exactly one line per request.                                           *)
(*                                                                         *)
(* Processes are the goroutines that call SendRequest: the HTTP handlers   *)
(* (Clients) and the main goroutine (Main), which runs the "initialize"    *)
(* handshake inside NewMCPProxy and calls Stop at shutdown.  The backend   *)
(* process is modelled by its observable behaviour on the two pipes.       *)
(* JSON encoding is abstracted to records: a request line carries its id   *)
(* and method, a response line its kind and the id it echoes.              *)
(***************************************************************************)
EXTENDS Naturals, Sequences

CONSTANTS
    Clients,          \* HTTP handler goroutines calling SendRequest
    Main,             \* the main goroutine
    MaxID,            \* bound on the ids p.nextID hands out
    BackendCanCrash,  \* the backend may exit on its own
    BackendNotifies,  \* the backend may write lines that answer no request
    MaxNotify         \* bound on such lines

ASSUME BridgeAssumption ==
    /\ Main \notin Clients
    /\ MaxID \in Nat \ {0}
    /\ BackendCanCrash \in BOOLEAN
    /\ BackendNotifies \in BOOLEAN
    /\ MaxNotify \in Nat

Procs == Clients \cup {Main}

Ids == 1..MaxID

\* A request line written to the child's stdin (jsonrpcRequest).
Requests == [id : Ids, method : {"initialize", "tools"}]

\* A line read from the child's stdout.  A notification has no "id" member,
\* so json.Unmarshal leaves jsonrpcResponse.ID at 0.
Lines == [kind : {"result", "rpcerror", "notification"}, id : 0..MaxID]

\* What SendRequest returns: a result, an rpc error carrying the id of the
\* line it came from, or a transport error (write, read or unmarshal).
Outcomes == [kind : {"none", "result", "rpcerror", "ioerror"}, id : 0..MaxID]

NoOutcome == [kind |-> "none", id |-> 0]
IOError   == [kind |-> "ioerror", id |-> 0]

VARIABLES
    phase,        \* "init" (NewMCPProxy running), "ready", "failed", "stopped"
    pc,           \* pc[p] = "read" while p is inside SendRequest after the write
    mu,           \* p.mu: the set of its holders
    nextID,       \* p.nextID
    reqId,        \* reqId[p]: the id of p's last request
    last,         \* last[p]: what p's last SendRequest returned
    toBackend,    \* bytes in the stdin pipe not yet read by the child
    fromBackend,  \* lines in the stdout pipe not yet read by the gateway
    proc,         \* the child: "running" or "exited"
    stdinClosed,  \* p.stdin.Close() has been called
    waited,       \* cmd.Wait() has returned, so cmd.ProcessState # nil
    notified      \* lines written by the child that answer no request

vars == <<phase, pc, mu, nextID, reqId, last, toBackend, fromBackend, proc,
          stdinClosed, waited, notified>>

TypeOK ==
    /\ phase \in {"init", "ready", "failed", "stopped"}
    /\ pc \in [Procs -> {"idle", "read"}]
    /\ mu \in SUBSET Procs
    /\ nextID \in 1..(MaxID + 1)
    /\ reqId \in [Procs -> 0..MaxID]
    /\ last \in [Procs -> Outcomes]
    /\ toBackend \in Seq(Requests)
    /\ fromBackend \in Seq(Lines)
    /\ proc \in {"running", "exited"}
    /\ stdinClosed \in BOOLEAN
    /\ waited \in BOOLEAN
    /\ notified \in 0..MaxNotify

\* NewMCPProxy after cmd.Start() and before the initialize call.
Init ==
    /\ phase = "init"
    /\ pc = [p \in Procs |-> "idle"]
    /\ mu = {}
    /\ nextID = 1
    /\ reqId = [p \in Procs |-> 0]
    /\ last = [p \in Procs |-> NoOutcome]
    /\ toBackend = <<>>
    /\ fromBackend = <<>>
    /\ proc = "running"
    /\ stdinClosed = FALSE
    /\ waited = FALSE
    /\ notified = 0

\* Alive(): the process was started and cmd.ProcessState is still nil.
Alive == ~waited

\* health.Handler: the "mcp" field is "up" exactly when Alive() holds, and
\* the overall status is "ok" when it is up and "degraded" otherwise.
HealthMCP == IF Alive THEN "up" ELSE "down"
HealthStatus == IF HealthMCP = "up" THEN "ok" ELSE "degraded"

\* The method p sends: Main only ever sends "initialize" (NewMCPProxy);
\* a handler sends the method of its inbound request, and may only do so
\* once NewMCPProxy has returned.
MayCall(p) ==
    IF p = Main THEN phase = "init" ELSE phase \in {"ready", "stopped"}

Method(p) == IF p = Main THEN "initialize" ELSE "tools"

\* json.Unmarshal of a line into jsonrpcResponse: an error object becomes an
\* error, anything else (a notification included) a result.
Parse(line) ==
    [kind |-> IF line.kind = "rpcerror" THEN "rpcerror" ELSE "result",
     id   |-> line.id]

\* Mutant of Return: an error path that returns without p.mu.Unlock().
ReturnKeepsLock(p, out) ==
    /\ last' = [last EXCEPT ![p] = out]
    /\ mu' = mu
    /\ pc' = [pc EXCEPT ![p] = "idle"]
    /\ IF p = Main
         THEN IF out.kind = "result"
                THEN phase' = "ready" /\ UNCHANGED proc
                ELSE phase' = "failed" /\ proc' = "exited"
         ELSE UNCHANGED <<phase, proc>>

\* Mutant of Return: NewMCPProxy only checks that SendRequest returned a
\* response, so an rpc error to "initialize" counts as a handshake.
ReturnHandshakeAnyAnswer(p, out) ==
    /\ last' = [last EXCEPT ![p] = out]
    /\ mu' = {}
    /\ pc' = [pc EXCEPT ![p] = "idle"]
    /\ IF p = Main
         THEN IF out.kind # "ioerror"
                THEN phase' = "ready" /\ UNCHANGED proc
                ELSE phase' = "failed" /\ proc' = "exited"
         ELSE UNCHANGED <<phase, proc>>

\* SendRequest returns out to p; the deferred p.mu.Unlock() runs.  When it
\* is the initialize call of NewMCPProxy, a failure kills the child and
\* the gateway exits (log.Fatalf in main).
Return(p, out) ==
    /\ last' = [last EXCEPT ![p] = out]
    /\ mu' = {}
    /\ pc' = [pc EXCEPT ![p] = "idle"]
    /\ IF p = Main
         THEN IF out.kind = "result"
                THEN phase' = "ready" /\ UNCHANGED proc
                ELSE phase' = "failed" /\ proc' = "exited"
         ELSE UNCHANGED <<phase, proc>>

\* Mutant of SendWrite: the write is not done under p.mu.
SendWriteUnlocked(p) ==
    /\ pc[p] = "idle"
    /\ MayCall(p)
    /\ nextID <= MaxID
    /\ nextID' = nextID + 1
    /\ reqId' = [reqId EXCEPT ![p] = nextID]
    /\ ~stdinClosed
    /\ proc = "running"
    /\ toBackend' = Append(toBackend, [id |-> nextID, method |-> Method(p)])
    /\ mu' = {p}
    /\ pc' = [pc EXCEPT ![p] = "read"]
    /\ UNCHANGED <<phase, last, fromBackend, proc, stdinClosed, waited, notified>>

\* SendRequest up to the write: lock, take the id, write the line.
SendWrite(p) ==
    /\ pc[p] = "idle"
    /\ MayCall(p)
    /\ mu = {}
    /\ nextID <= MaxID
    /\ nextID' = nextID + 1
    /\ reqId' = [reqId EXCEPT ![p] = nextID]
    /\ ~stdinClosed
    /\ proc = "running"
    /\ toBackend' = Append(toBackend, [id |-> nextID, method |-> Method(p)])
    /\ mu' = {p}
    /\ pc' = [pc EXCEPT ![p] = "read"]
    /\ UNCHANGED <<phase, last, fromBackend, proc, stdinClosed, waited, notified>>

\* The write fails: stdin was closed by Stop, or the child is gone (EPIPE).
SendWriteFails(p) ==
    /\ pc[p] = "idle"
    /\ MayCall(p)
    /\ mu = {}
    /\ nextID <= MaxID
    /\ nextID' = nextID + 1
    /\ reqId' = [reqId EXCEPT ![p] = nextID]
    /\ stdinClosed \/ proc = "exited"
    /\ Return(p, IOError)
    /\ UNCHANGED <<toBackend, fromBackend, stdinClosed, waited, notified>>

\* p.stdout.ReadBytes('\n') returns a line, which is parsed.
SendRead(p) ==
    /\ pc[p] = "read"
    /\ ~waited
    /\ fromBackend # <<>>
    /\ fromBackend' = Tail(fromBackend)
    /\ Return(p, Parse(Head(fromBackend)))
    /\ UNCHANGED <<nextID, reqId, toBackend, stdinClosed, waited, notified>>

\* Mutant of SendReadFails: a read that only fails once the pipe is closed,
\* never on EOF from an exited child.
SendReadFailsOnClose(p) ==
    /\ pc[p] = "read"
    /\ waited
    /\ Return(p, IOError)
    /\ UNCHANGED <<nextID, reqId, toBackend, fromBackend, stdinClosed, waited,
                   notified>>

\* ReadBytes fails: EOF once the child has exited and the pipe is drained,
\* or "file already closed" once cmd.Wait() has closed the pipe.
SendReadFails(p) ==
    /\ pc[p] = "read"
    /\ waited \/ (proc = "exited" /\ fromBackend = <<>>)
    /\ Return(p, IOError)
    /\ UNCHANGED <<nextID, reqId, toBackend, fromBackend, stdinClosed, waited,
                   notified>>

\* Stop(): close stdin, kill the child, wait for it.  Wait closes the
\* stdout pipe, so what was left in either pipe is gone.  main calls Stop
\* once explicitly and once more through defer; the second call only
\* collects errors it ignores, so it is not a separate step.
Stop ==
    /\ phase = "ready"
    /\ phase' = "stopped"
    /\ stdinClosed' = TRUE
    /\ proc' = "exited"
    /\ waited' = TRUE
    /\ toBackend' = <<>>
    /\ fromBackend' = <<>>
    /\ UNCHANGED <<pc, mu, nextID, reqId, last, notified>>

(***************************************************************************)
(* The backend.  It answers each request line with one response line that  *)
(* echoes its id; if BackendNotifies it may also write lines that answer   *)
(* nothing (MCP notifications); if BackendCanCrash it may exit.            *)
(***************************************************************************)
BackendServe ==
    /\ proc = "running"
    /\ toBackend # <<>>
    /\ \E k \in {"result", "rpcerror"} :
         fromBackend' = Append(fromBackend, [kind |-> k, id |-> Head(toBackend).id])
    /\ toBackend' = Tail(toBackend)
    /\ UNCHANGED <<phase, pc, mu, nextID, reqId, last, proc, stdinClosed,
                   waited, notified>>

BackendNotify ==
    /\ BackendNotifies
    /\ proc = "running"
    /\ notified < MaxNotify
    /\ notified' = notified + 1
    /\ fromBackend' = Append(fromBackend, [kind |-> "notification", id |-> 0])
    /\ UNCHANGED <<phase, pc, mu, nextID, reqId, last, toBackend, proc,
                   stdinClosed, waited>>

BackendCrash ==
    /\ BackendCanCrash
    /\ proc = "running"
    /\ proc' = "exited"
    /\ UNCHANGED <<phase, pc, mu, nextID, reqId, last, toBackend, fromBackend,
                   stdinClosed, waited, notified>>

\* The gateway has stopped: it exited after a failed handshake, or Stop
\* ran and no handler is inside SendRequest.
Terminated ==
    /\ phase \in {"failed", "stopped"}
    /\ \A p \in Procs : pc[p] = "idle"
    /\ UNCHANGED vars

Next ==
    \/ \E p \in Procs :
         \/ SendWrite(p)
         \/ SendWriteFails(p)
         \/ SendRead(p)
         \/ SendReadFails(p)
    \/ Stop
    \/ BackendServe
    \/ BackendNotify
    \/ BackendCrash
    \/ Terminated

Spec == Init /\ [][Next]_vars

\* The backend keeps answering what it has read, and a goroutine inside
\* SendRequest keeps running: both are scheduled by the OS and the Go
\* runtime.  No fairness for crashes, notifications, Stop or new calls.
Fairness ==
    /\ WF_vars(BackendServe)
    /\ \A p \in Procs : WF_vars(SendRead(p)) /\ WF_vars(SendReadFails(p))

FairSpec == Spec /\ Fairness

-----------------------------------------------------------------------------
(***************************************************************************)
(* Properties.                                                             *)
(***************************************************************************)

\* Every result or rpc error SendRequest hands to a caller is the backend's
\* answer to that caller's own request: the line it parsed echoes the id
\* the caller wrote.  The code never compares resp.ID with id, so this rests
\* on p.mu being held from the write to the read and on every error path
\* (write, read, unmarshal) leaving no line of its own in the pipes.
ResponseCorrelation ==
    \A p \in Procs :
        (pc[p] = "idle" /\ last[p].kind \in {"result", "rpcerror"})
            => last[p].id = reqId[p]

\* The lockstep discipline of SendRequest: only the holder of p.mu is past
\* its write; while the child runs, the two pipes together hold at most the
\* holder's request or the answer to it, and nothing else; once cmd.Wait()
\* has run nothing is left to read.
Lockstep ==
    /\ \A p \in Procs : pc[p] = "read" <=> p \in mu
    /\ \A p, q \in mu : p = q
    /\ proc = "running" =>
         /\ Len(toBackend) + Len(fromBackend) <= 1
         /\ \A i \in 1..Len(toBackend) :
              \E p \in mu : toBackend[i].id = reqId[p]
    /\ Len(fromBackend) <= 1
    /\ \A i \in 1..Len(fromBackend) :
         /\ fromBackend[i].kind # "notification"
         /\ \E p \in mu : fromBackend[i].id = reqId[p]
    /\ waited => (proc = "exited" /\ fromBackend = <<>>)

\* A caller blocked in SendRequest eventually returns, with a result or an
\* error, when the backend answers what it reads: a crash or Stop ends the
\* read with EOF or a closed pipe rather than leaving the caller blocked.
CallsReturn == \A p \in Procs : pc[p] = "read" ~> pc[p] = "idle"

\* The health endpoint reports the backend up only while the child process
\* runs: spec section 7 says a crash flips liveness to down for subsequent
\* health reporting.
AliveReflectsChild == (phase = "ready" /\ HealthStatus = "ok") => proc = "running"


-----------------------------------------------------------------------------
(***************************************************************************)
(* Refinement of BridgeRPC.  The holder of p.mu is the caller with a call  *)
(* in flight, nextID - 1 the ids used, phase the gateway's phase.  What a  *)
(* returned caller last got is its kind, except that a result or rpc      *)
(* error echoing another request's id is "misattributed", which the       *)
(* abstract calls never produce.                                          *)
(***************************************************************************)
ReplyOf ==
    [p \in Procs |->
        IF pc[p] = "idle" /\ last[p].kind \in {"result", "rpcerror"}
                         /\ last[p].id # reqId[p]
          THEN "misattributed"
          ELSE last[p].kind]

RPC == INSTANCE BridgeRPC
         WITH aphase <- phase, holder <- mu, issued <- nextID - 1,
              reply <- ReplyOf

\* SendRequest behaves as an atomic remote call: one caller at a time has
\* a call in flight, each call uses one id, every call ends with the
\* caller's own answer or a transport error, and the gateway is ready only
\* after the backend answered "initialize" with a result.
ImplementsRPC == RPC!Spec

=============================================================================
