------------------------------ MODULE Gateway ------------------------------
(***************************************************************************)
(* What the POST /mcp handler chain promises, with the middlewares, the   *)
(* status writers and the circuit breaker hidden: every request is either *)
(* refused with an error status or forwarded to the one backend, which    *)
(* serves one forwarded request at a time and answers it with 200 or 500. *)
(* Only a request that the policy gate lets through is forwarded, a 403   *)
(* goes only to one it stops, and usage is recorded only for an answered  *)
(* request, with the success the client saw.                              *)
(***************************************************************************)
EXTENDS Naturals

CONSTANTS
    Reqs,   \* the inbound requests
    None    \* no request at the backend

VARIABLES
    stage,      \* stage[r]: "pending", "backend" or "answered"
    permitted,  \* permitted[r]: the policy gate lets r through
    holder,     \* the request the backend is serving, or None
    answer,     \* answer[r]: the status r's client received (0: none)
    usage       \* the usage records: a request and whether it succeeded

gvars == <<stage, permitted, holder, answer, usage>>

Init ==
    /\ stage = [r \in Reqs |-> "pending"]
    /\ permitted \in [Reqs -> BOOLEAN]
    /\ holder = None
    /\ answer = [r \in Reqs |-> 0]
    /\ usage = {}

\* A request is answered without reaching the backend; only one that the
\* policy stops gets a 403.
Refuse(r) ==
    /\ stage[r] = "pending"
    /\ \E c \in {400, 403, 429} :
          /\ c = 403 => ~permitted[r]
          /\ answer' = [answer EXCEPT ![r] = c]
    /\ stage' = [stage EXCEPT ![r] = "answered"]
    /\ UNCHANGED <<permitted, holder, usage>>

\* A request that the policy lets through goes to the idle backend.
Forward(r) ==
    /\ stage[r] = "pending"
    /\ permitted[r]
    /\ holder = None
    /\ holder' = r
    /\ stage' = [stage EXCEPT ![r] = "backend"]
    /\ UNCHANGED <<permitted, answer, usage>>

\* The backend answers the request it serves, with a result or an error.
Return(r) ==
    /\ stage[r] = "backend"
    /\ holder' = None
    /\ \E c \in {200, 500} : answer' = [answer EXCEPT ![r] = c]
    /\ stage' = [stage EXCEPT ![r] = "answered"]
    /\ UNCHANGED <<permitted, usage>>

\* An answered request is recorded with the outcome its client saw.
Account(r) ==
    /\ stage[r] = "answered"
    /\ usage' = usage \cup {[req |-> r, success |-> answer[r] < 400]}
    /\ UNCHANGED <<stage, permitted, holder, answer>>

Next == \E r \in Reqs : Refuse(r) \/ Forward(r) \/ Return(r) \/ Account(r)

Spec == Init /\ [][Next]_gvars

=============================================================================
