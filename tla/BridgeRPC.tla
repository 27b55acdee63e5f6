------------------------------ MODULE BridgeRPC ------------------------------
(***************************************************************************)
(* What proxy.MCPProxy promises its callers, with the pipes, the child    *)
(* process and the JSON lines hidden: SendRequest is a remote call that   *)
(* one goroutine at a time may have in flight, that uses up one request   *)
(* id, and that ends with the backend's answer to that very call (a       *)
(* result or an rpc error) or with a transport error.  The handshake of   *)
(* NewMCPProxy is the first call, made by the main goroutine; the gateway *)
(* is ready once it returned a result and has failed otherwise.          *)
(***************************************************************************)
EXTENDS Naturals

CONSTANTS
    Procs,  \* the goroutines that call SendRequest
    Main,   \* the main goroutine, which makes the handshake
    MaxID   \* bound on the request ids

VARIABLES
    aphase,  \* "init", "ready", "failed", "stopped"
    holder,  \* the goroutines with a call in flight
    issued,  \* how many request ids have been used
    reply    \* reply[p]: how p's last call ended

avars == <<aphase, holder, issued, reply>>

\* How a call ends, from its caller's point of view.
Replies == {"none", "result", "rpcerror", "ioerror"}

Init ==
    /\ aphase = "init"
    /\ holder = {}
    /\ issued = 0
    /\ reply = [p \in Procs |-> "none"]

\* Main calls only for the handshake, the handlers only after it.
MayCall(p) ==
    IF p = Main THEN aphase = "init" ELSE aphase \in {"ready", "stopped"}

\* p's call ends with k; the handshake decides the gateway's phase.
Settle(p, k) ==
    /\ reply' = [reply EXCEPT ![p] = k]
    /\ holder' = {}
    /\ IF p = Main
         THEN aphase' = IF k = "result" THEN "ready" ELSE "failed"
         ELSE UNCHANGED aphase

\* A call starts when no other is in flight.
Begin(p) ==
    /\ holder = {}
    /\ MayCall(p)
    /\ issued < MaxID
    /\ issued' = issued + 1
    /\ holder' = {p}
    /\ UNCHANGED <<aphase, reply>>

\* A call that fails before it is in flight; it still uses up an id.
FailFast(p) ==
    /\ holder = {}
    /\ MayCall(p)
    /\ issued < MaxID
    /\ issued' = issued + 1
    /\ Settle(p, "ioerror")

\* The call in flight ends with its own answer or a transport error.
Finish(p) ==
    /\ p \in holder
    /\ \E k \in Replies \ {"none"} : Settle(p, k)
    /\ UNCHANGED issued

Stop ==
    /\ aphase = "ready"
    /\ aphase' = "stopped"
    /\ UNCHANGED <<holder, issued, reply>>

Next ==
    \/ \E p \in Procs : Begin(p) \/ FailFast(p) \/ Finish(p)
    \/ Stop

Spec == Init /\ [][Next]_avars

=============================================================================
