--------------------------- MODULE PipelineProofs ---------------------------
(***************************************************************************)
(* Proofs about the POST /mcp handler chain for every set of requests,    *)
(* tools, callers and every bound on webhook signals: the type invariant, *)
(* that the breaker check admits no request after the Trip that closed    *)
(* its tool (BreakerAdmission), and that every UsageEvent's Success flag  *)
(* agrees with the status the client received (UsageMatchesOutcome).     *)
(***************************************************************************)
EXTENDS Pipeline, TLAPS

USE PipelineAssumption, PolicyAssumption

\* The steps of one request's goroutine.
ReqStep(r) ==
    \/ PolicyStage(r) \/ MeterCheck(r) \/ Handler(r)
    \/ Acquire(r) \/ Complete(r) \/ Record(r)

-----------------------------------------------------------------------------
(* Type correctness.                                                       *)

\* The tool name the policy stage tags a request with is a tool.
LEMMA ExtractToolNameType ==
    ASSUME NEW n \in Tools \cup {NoName}
    PROVE  ExtractToolName(n) \in Tools
BY DEF ExtractToolName

\* Writing a status through the chain keeps the three codes in Codes.
LEMMA WriteHeaderType ==
    ASSUME TypeOK, NEW r \in Reqs, NEW code \in Codes, WriteHeader(r, code)
    PROVE  /\ resp' \in [Reqs -> Codes]
           /\ mst' \in [Reqs -> Codes]
           /\ ast' \in [Reqs -> Codes]
BY DEF WriteHeader, TypeOK

\* The handler chain starts in a well-typed state.
LEMMA InitTypeOK == Init => TypeOK
<1> SUFFICES ASSUME Init PROVE TypeOK
  OBVIOUS
<1>1. tag \in [Reqs -> Tools \cup {NoTag}]
  <2>1. \A r \in Reqs : in[r] \in Inputs
    BY DEF Init
  <2>2. QED
    BY <2>1 DEF Init, Inputs
<1>2. /\ resp \in [Reqs -> Codes] /\ mst \in [Reqs -> Codes]
      /\ ast \in [Reqs -> Codes]
  BY DEF Init, Codes
<1>3. /\ checked \in [Reqs -> 0..MaxSignals]
      /\ trippedAt \in [Tools -> 0..MaxSignals]
      /\ signals \in 0..MaxSignals
  BY DEF Init
<1>4. QED
  BY <1>1, <1>2, <1>3 DEF Init, TypeOK

\* Every step keeps the variables in their types.
LEMMA NextTypeOK == TypeOK /\ [Next]_vars => TypeOK'
<1> SUFFICES ASSUME TypeOK, [Next]_vars PROVE TypeOK'
  OBVIOUS
<1>1. ASSUME NEW r \in Reqs, PolicyStage(r) PROVE TypeOK'
  <2>1. ExtractToolName(in[r].name) \in Tools
    BY ExtractToolNameType DEF TypeOK, Inputs
  <2>2. QED
    BY <1>1, <2>1 DEF PolicyStage, Reply, TypeOK, Codes
<1>2. ASSUME NEW r \in Reqs, MeterCheck(r) PROVE TypeOK'
  BY <1>2 DEF MeterCheck, Reply, TypeOK, Codes
<1>3. ASSUME NEW r \in Reqs, Handler(r) PROVE TypeOK'
  <2>1. CASE in[r].method = ""
    <3>1. WriteHeader(r, 400) /\ pc' = [pc EXCEPT ![r] = "record"]
      BY <1>3, <2>1 DEF Handler
    <3>2. 400 \in Codes
      BY DEF Codes
    <3>3. QED
      BY <1>3, <3>1, <3>2, WriteHeaderType DEF Handler, TypeOK
  <2>2. CASE in[r].method # ""
    BY <1>3, <2>2 DEF Handler, TypeOK
  <2>3. QED
    BY <2>1, <2>2
<1>4. ASSUME NEW r \in Reqs, Acquire(r) PROVE TypeOK'
  BY <1>4 DEF Acquire, TypeOK
<1>5. ASSUME NEW r \in Reqs, Complete(r) PROVE TypeOK'
  <2>1. PICK out \in {"ok", "err"} :
           /\ result' = [result EXCEPT ![r] = out]
           /\ IF out = "err" THEN WriteHeader(r, 500)
              ELSE resp' = [resp EXCEPT ![r] = 200] /\ UNCHANGED <<mst, ast>>
    BY <1>5 DEF Complete
  <2>2. CASE out = "err"
    BY <1>5, <2>1, <2>2, WriteHeaderType DEF Complete, TypeOK, Codes
  <2>3. CASE out = "ok"
    BY <1>5, <2>1, <2>3 DEF Complete, TypeOK, Codes
  <2>4. QED
    BY <2>2, <2>3
<1>6. ASSUME NEW r \in Reqs, Record(r) PROVE TypeOK'
  BY <1>6 DEF Record, TypeOK
<1>7. ASSUME NEW t \in Tools, Trip(t) \/ Reset(t) PROVE TypeOK'
  BY <1>7 DEF Trip, Reset, TypeOK
<1>8. CASE UNCHANGED vars
  BY <1>8 DEF vars, TypeOK
<1>9. QED
  BY <1>1, <1>2, <1>3, <1>4, <1>5, <1>6, <1>7, <1>8 DEF Next

\* The variables of the handler chain keep their types.
THEOREM TypeCorrect == Spec => []TypeOK
BY InitTypeOK, NextTypeOK, PTL DEF Spec


-----------------------------------------------------------------------------
(* Breaker admission and usage accounting.  Neither property is inductive  *)
(* alone.  BreakerAdmission needs that no check and no Trip is stamped     *)
(* with a signal number from the future.  UsageMatchesOutcome needs what   *)
(* the status writers hold at each stage: no reply before the handler has *)
(* written, 200 in the writers while it runs, the code that went to the client once it has written,    *)
(* and that a request with a UsageEvent has finished, so that its status   *)
(* can no longer change.                                                   *)

\* Check and Trip stamps are never ahead of the signal count.
Stamps ==
    /\ \A r \in Reqs : checked[r] <= signals
    /\ \A t \in Tools : trippedAt[t] <= signals

\* What the aperture statusWriter holds, against what the client got.
Writers ==
    /\ \A r \in Reqs : pc[r] \notin {"record", "done"} => resp[r] = 0
    /\ \A r \in Reqs : pc[r] \in {"handler", "wait", "bridge"} => ast[r] = 200
    /\ \A r \in Reqs : pc[r] = "record" => ast[r] = resp[r]

\* Every UsageEvent is of a finished request and records its status.
Events ==
    \A e \in usage :
        /\ e.req \in Reqs
        /\ pc[e.req] = "done"
        /\ e.success <=> resp[e.req] < 400

IInv == TypeOK /\ Stamps /\ BreakerAdmission /\ Writers /\ Events

\* The handler chain starts with no check, no Trip and no UsageEvent.
LEMMA InitIInv == Init => IInv
<1> SUFFICES ASSUME Init PROVE IInv
  OBVIOUS
<1>1. TypeOK
  BY InitTypeOK
<1>2. Stamps /\ BreakerAdmission /\ Writers /\ Events
  BY DEF Init, Stamps, BreakerAdmission, Writers, Events
<1>3. QED
  BY <1>1, <1>2 DEF IInv

\* The part of IInv beyond the types.
Rest == Stamps /\ BreakerAdmission /\ Writers /\ Events

\* The policy stage ends in a reply or passes the request to the breaker
\* check: nothing it touches is constrained yet.
LEMMA PolicyStageRest ==
    ASSUME IInv, TypeOK', NEW r \in Reqs, PolicyStage(r)
    PROVE  Rest'
<1>1. /\ pc'[r] \in {"done", "meter"} /\ pc[r] = "policy"
      /\ pc'[r] = "meter" => resp'[r] = resp[r]
      /\ \A q \in Reqs \ {r} : pc'[q] = pc[q] /\ resp'[q] = resp[q]
                              /\ tag'[q] = tag[q]
      /\ UNCHANGED <<mst, ast, checked, tripped, trippedAt, signals, usage>>
  BY DEF PolicyStage, Reply, IInv, TypeOK
<1>2. \A e \in usage : e.req # r
  BY <1>1 DEF IInv, Events
<1>3. QED
  BY <1>1, <1>2 DEF Rest, IInv, Stamps, BreakerAdmission, Writers, Events,
                    TypeOK

\* The breaker check: a request it admits has an untripped (or no) tool
\* and is stamped with the current signal count.
LEMMA MeterCheckRest ==
    ASSUME IInv, TypeOK', NEW r \in Reqs, MeterCheck(r)
    PROVE  Rest'
<1>1. \A e \in usage : e.req # r
  BY DEF MeterCheck, IInv, Events
<1>2. NoTag \notin tripped
  BY DEF IInv, TypeOK
<1>3. CASE tag[r] # NoTag /\ tag[r] \in tripped
  BY <1>1, <1>3 DEF MeterCheck, Reply, Rest, IInv, Stamps, BreakerAdmission,
                    Writers, Events, TypeOK
<1>4. CASE ~(tag[r] # NoTag /\ tag[r] \in tripped)
  <2>1. tag[r] \notin tripped
    BY <1>2, <1>4
  <2>2. /\ pc' = [pc EXCEPT ![r] = "handler"] /\ pc[r] = "meter"
        /\ ast' = [ast EXCEPT ![r] = 200] /\ resp' = resp
        /\ checked' = [checked EXCEPT ![r] = signals]
        /\ UNCHANGED <<tag, tripped, trippedAt, signals, usage>>
    BY <1>4 DEF MeterCheck
  <2>3. Stamps'
    BY <2>2 DEF IInv, Stamps, TypeOK
  <2>4. BreakerAdmission'
    BY <2>1, <2>2 DEF IInv, BreakerAdmission, TypeOK
  <2>5. Writers'
    BY <2>2 DEF IInv, Writers, TypeOK
  <2>6. Events'
    BY <1>1, <2>2 DEF IInv, Events, TypeOK
  <2>7. QED
    BY <2>3, <2>4, <2>5, <2>6 DEF Rest
<1>5. QED
  BY <1>3, <1>4

\* NewMCPHandler's own 400 goes through both status writers at once.
LEMMA HandlerRest ==
    ASSUME IInv, TypeOK', NEW r \in Reqs, Handler(r)
    PROVE  Rest'
<1>1. pc[r] = "handler" /\ \A e \in usage : e.req # r
  BY DEF Handler, IInv, Events
<1>2. CASE in[r].method = ""
  <2>1. /\ pc' = [pc EXCEPT ![r] = "record"]
        /\ ast' = [ast EXCEPT ![r] = 400] /\ resp' = [resp EXCEPT ![r] = 400]
        /\ UNCHANGED <<tag, checked, tripped, trippedAt, signals, usage>>
    BY <1>2 DEF Handler, WriteHeader
  <2>2. QED
    BY <1>1, <2>1 DEF Rest, IInv, Stamps, BreakerAdmission, Writers, Events,
                      TypeOK
<1>3. CASE in[r].method # ""
  <2>1. /\ pc' = [pc EXCEPT ![r] = "wait"]
        /\ UNCHANGED <<ast, resp, tag, checked, tripped, trippedAt, signals,
                       usage>>
    BY <1>3 DEF Handler
  <2>2. QED
    BY <1>1, <2>1 DEF Rest, IInv, Stamps, BreakerAdmission, Writers, Events,
                      TypeOK
<1>4. QED
  BY <1>2, <1>3

\* Taking p.mu moves the request along without touching what IInv reads.
LEMMA AcquireRest ==
    ASSUME IInv, TypeOK', NEW r \in Reqs, Acquire(r)
    PROVE  Rest'
BY DEF Acquire, Rest, IInv, Stamps, BreakerAdmission, Writers, Events, TypeOK

\* SendRequest returns: a 500 goes through both writers, a result leaves
\* the writers at the 200 they were set to and sends the implicit 200.
LEMMA CompleteRest ==
    ASSUME IInv, TypeOK', NEW r \in Reqs, Complete(r)
    PROVE  Rest'
<1>1. pc[r] = "bridge" /\ ast[r] = 200 /\ \A e \in usage : e.req # r
  BY DEF Complete, IInv, Writers, Events
<1>2. PICK out \in {"ok", "err"} :
         /\ IF out = "err" THEN WriteHeader(r, 500)
            ELSE resp' = [resp EXCEPT ![r] = 200] /\ UNCHANGED <<mst, ast>>
  BY DEF Complete
<1>3. /\ pc' = [pc EXCEPT ![r] = "record"]
      /\ UNCHANGED <<tag, checked, tripped, trippedAt, signals, usage>>
  BY DEF Complete
<1>4. CASE out = "err"
  <2>1. ast' = [ast EXCEPT ![r] = 500] /\ resp' = [resp EXCEPT ![r] = 500]
    BY <1>2, <1>4 DEF WriteHeader
  <2>2. QED
    BY <1>1, <1>3, <2>1 DEF Rest, IInv, Stamps, BreakerAdmission, Writers,
                            Events, TypeOK
<1>5. CASE out = "ok"
  <2>1. ast' = ast /\ resp' = [resp EXCEPT ![r] = 200]
    BY <1>2, <1>5
  <2>2. QED
    BY <1>1, <1>3, <2>1 DEF Rest, IInv, Stamps, BreakerAdmission, Writers,
                            Events, TypeOK
<1>6. QED
  BY <1>4, <1>5

\* The UsageEvent takes its Success from the aperture writer, which holds
\* the code the client got; the request is finished from then on.
LEMMA RecordRest ==
    ASSUME IInv, TypeOK', NEW r \in Reqs, Record(r)
    PROVE  Rest'
<1>1. pc[r] = "record" /\ ast[r] = resp[r]
  BY DEF Record, IInv, Writers
<1>2. /\ pc' = [pc EXCEPT ![r] = "done"]
      /\ UNCHANGED <<tag, resp, ast, checked, tripped, trippedAt, signals>>
  BY DEF Record
<1>3. \A e \in usage' : e \in usage \/ (e.req = r /\ e.success = (ast[r] < 400))
  BY DEF Record
<1>4. Events'
  <2> SUFFICES ASSUME NEW e \in usage'
               PROVE  /\ e.req \in Reqs /\ pc'[e.req] = "done"
                      /\ e.success <=> resp'[e.req] < 400
    BY DEF Events
  <2>1. CASE e \in usage
    <3>1. e.req \in Reqs /\ pc[e.req] = "done" /\ (e.success <=> resp[e.req] < 400)
      BY <2>1 DEF IInv, Events
    <3>2. e.req # r
      BY <1>1, <3>1
    <3>3. QED
      BY <1>2, <3>1, <3>2 DEF IInv, TypeOK
  <2>2. CASE e.req = r /\ e.success = (ast[r] < 400)
    BY <1>1, <1>2, <2>2 DEF IInv, TypeOK
  <2>3. QED
    BY <1>3, <2>1, <2>2
<1>5. Stamps' /\ BreakerAdmission' /\ Writers'
  BY <1>1, <1>2 DEF IInv, Stamps, BreakerAdmission, Writers, TypeOK
<1>6. QED
  BY <1>4, <1>5 DEF Rest

\* A Trip is stamped with the new signal count, after every check so far.
LEMMA TripRest ==
    ASSUME IInv, TypeOK', NEW t \in Tools, Trip(t)
    PROVE  Rest'
<1>1. /\ signals' = signals + 1
      /\ tripped' = tripped \cup {t}
      /\ trippedAt' = [trippedAt EXCEPT ![t] = signals + 1]
      /\ UNCHANGED <<pc, tag, resp, ast, checked, usage>>
  BY DEF Trip
<1>2. Stamps'
  BY <1>1 DEF IInv, Stamps, TypeOK
<1>3. BreakerAdmission'
  BY <1>1 DEF IInv, Stamps, BreakerAdmission, TypeOK
<1>4. QED
  BY <1>1, <1>2, <1>3 DEF Rest, IInv, Writers, Events

\* A Reset only shrinks the tripped set.
LEMMA ResetRest ==
    ASSUME IInv, TypeOK', NEW t \in Tools, Reset(t)
    PROVE  Rest'
BY DEF Reset, Rest, IInv, Stamps, BreakerAdmission, Writers, Events, TypeOK

\* The inductive step.
LEMMA NextIInv == IInv /\ [Next]_vars => IInv'
<1> SUFFICES ASSUME IInv, [Next]_vars PROVE IInv'
  OBVIOUS
<1>1. TypeOK'
  BY NextTypeOK DEF IInv
<1>2. ASSUME NEW r \in Reqs, ReqStep(r) PROVE Rest'
  BY <1>1, <1>2, PolicyStageRest, MeterCheckRest, HandlerRest, AcquireRest,
     CompleteRest, RecordRest DEF ReqStep
<1>3. ASSUME NEW t \in Tools, Trip(t) \/ Reset(t) PROVE Rest'
  BY <1>1, <1>3, TripRest, ResetRest
<1>4. ASSUME UNCHANGED vars PROVE Rest'
  <2>1. UNCHANGED <<pc, tag, resp, ast, checked, tripped, trippedAt, signals,
                    usage>>
    BY <1>4 DEF vars
  <2>2. QED
    BY <2>1 DEF Rest, IInv, Stamps, BreakerAdmission, Writers, Events
<1>5. Rest'
  <2>1. CASE Next
    <3>1. \/ \E r \in Reqs : ReqStep(r)
          \/ \E t \in Tools : Trip(t) \/ Reset(t)
      BY <2>1 DEF Next, ReqStep
    <3>2. QED
      BY <3>1, <1>2, <1>3
  <2>2. QED
    BY <2>1, <1>4
<1>6. QED
  BY <1>1, <1>5 DEF IInv, Rest

\* A request reaches the backend for a tool that is tripped now only if
\* its breaker check in MeteringMiddleware ran before the Trip that
\* closed the tool: the check is never stale by more than the window
\* between IsTripped and SendRequest.
THEOREM BreakerSound == Spec => []BreakerAdmission
BY InitIInv, NextIInv, PTL DEF Spec, IInv

\* The Success flag MeteringMiddleware hands to RecordAsync is the status
\* the client received, for every UsageEvent, with any number of
\* concurrent requests and webhook signals.
THEOREM UsageSound == Spec => []UsageMatchesOutcome
<1>1. IInv => UsageMatchesOutcome
  BY DEF IInv, Events, UsageMatchesOutcome
<1>2. QED
  BY <1>1, InitIInv, NextIInv, PTL DEF Spec

-----------------------------------------------------------------------------
(* A written status is final.  Writers says that a request has no reply   *)
(* until it reaches "record"; from "record" and "done" only Record moves  *)
(* it, and Record writes no status.  A step of another goroutine or of   *)
(* the webhook changes only its own entries.                              *)

\* A request that has been answered is at "record" or "done".
LEMMA AnsweredStage ==
    ASSUME IInv, NEW r \in Reqs, resp[r] # 0
    PROVE  pc[r] \in {"record", "done"}
BY DEF IInv, Writers

\* No step of any goroutine or of the webhook changes an answered
\* request's status or sends it back up the chain.
LEMMA AnswerStays ==
    ASSUME IInv, [Next]_vars, NEW r \in Reqs, resp[r] # 0
    PROVE  resp'[r] = resp[r] /\ pc'[r] \in {"record", "done"}
<1>1. pc[r] \in {"record", "done"}
  BY AnsweredStage
<1>2. ASSUME NEW s \in Reqs, ReqStep(s)
      PROVE  resp'[r] = resp[r] /\ pc'[r] \in {"record", "done"}
  <2>1. CASE PolicyStage(s)
    BY <1>1, <2>1 DEF PolicyStage, Reply, IInv, TypeOK
  <2>2. CASE MeterCheck(s)
    BY <1>1, <2>2 DEF MeterCheck, Reply, IInv, TypeOK
  <2>3. CASE Handler(s)
    <3>1. CASE in[s].method = ""
      <4>1. s # r
        BY <1>1, <2>3 DEF Handler
      <4>2. resp' = [resp EXCEPT ![s] = 400] /\ pc' = [pc EXCEPT ![s] = "record"]
        BY <2>3, <3>1 DEF Handler, WriteHeader
      <4>3. QED
        BY <1>1, <4>1, <4>2 DEF IInv, TypeOK
    <3>2. CASE in[s].method # ""
      BY <1>1, <2>3, <3>2 DEF Handler, IInv, TypeOK
    <3>3. QED
      BY <3>1, <3>2
  <2>4. CASE Acquire(s)
    BY <1>1, <2>4 DEF Acquire, IInv, TypeOK
  <2>5. CASE Complete(s)
    BY <1>1, <2>5 DEF Complete, WriteHeader, IInv, TypeOK
  <2>6. CASE Record(s)
    BY <1>1, <2>6 DEF Record, IInv, TypeOK
  <2>7. QED
    BY <1>2, <2>1, <2>2, <2>3, <2>4, <2>5, <2>6 DEF ReqStep
<1>3. ASSUME NEW t \in Tools, Trip(t) \/ Reset(t)
      PROVE  resp'[r] = resp[r] /\ pc'[r] \in {"record", "done"}
  BY <1>1, <1>3 DEF Trip, Reset
<1>4. ASSUME UNCHANGED vars
      PROVE  resp'[r] = resp[r] /\ pc'[r] \in {"record", "done"}
  BY <1>1, <1>4 DEF vars
<1>5. QED
  BY <1>2, <1>3, <1>4 DEF Next, ReqStep

\* Once a goroutine has written a status to its client (a 400 for a bad
\* body, the policy 403, the breaker 429, the handler's 400, 500 or 200),
\* that status is the answer and the request never goes on to p.mu or the
\* backend: every early reply in the chain is followed by a return.
THEOREM AnswerIsFinal == Spec => AnswerFinal
<1>1. IInv /\ [Next]_vars =>
        [\A r \in Reqs :
            resp[r] # 0 =>
               /\ resp'[r] = resp[r]
               /\ pc'[r] \in {"record", "done"}]_vars
  BY AnswerStays
<1>2. QED
  BY <1>1, InitIInv, NextIInv, PTL DEF Spec, AnswerFinal

-----------------------------------------------------------------------------
(* The chain implements Gateway.  The refinement needs, beyond IInv, that *)
(* a request past the policy stage was let through by it (Gate), that     *)
(* p.mu is held by exactly the request at the bridge (Lock), and that a   *)
(* request at "record" or "done" has its answer (Answered), so that GStage *)
(* moves only as Gateway's actions do.                                     *)

Gate == \A r \in Reqs : pc[r] \in {"meter", "handler", "wait", "bridge"} => Permitted(r)

Lock == \A r \in Reqs : pc[r] = "bridge" <=> owner = r

Answered == \A r \in Reqs : pc[r] \in {"record", "done"} => resp[r] # 0

GInv == IInv /\ Gate /\ Lock /\ Answered

\* The part of GInv beyond IInv.
GRest == Gate /\ Lock /\ Answered

LEMMA InitGInv == Init => GInv
<1> SUFFICES ASSUME Init PROVE GInv
  OBVIOUS
<1>1. IInv
  BY InitIInv
<1>2. GRest
  BY PipelineAssumption DEF Init, GRest, Gate, Lock, Answered
<1>3. QED
  BY <1>1, <1>2 DEF GInv, GRest

\* The policy stage passes on only what Evaluate allows, and its replies
\* go straight to "done".
LEMMA PolicyStageGRest ==
    ASSUME GInv, NEW r \in Reqs, PolicyStage(r)
    PROVE  GRest'
<1>1. UNCHANGED <<in, owner>>
  BY DEF PolicyStage
<1>2. pc[r] = "policy" /\ TypeOK
  BY DEF PolicyStage, GInv, IInv
<1>3. Gate'
  <2>1. pc'[r] = "meter" => Permitted(r)
    <3> SUFFICES ASSUME pc'[r] = "meter" PROVE Permitted(r)
      OBVIOUS
    <3>1. in[r].valid
      BY <1>2 DEF PolicyStage, Reply, TypeOK
    <3>2. in[r].method = "tools/call" =>
             Evaluate(Pol, CallerOf(r), ExtractToolName(in[r].name)).allowed
      BY <1>2 DEF PolicyStage, Reply, TypeOK
    <3>3. QED
      BY <3>1, <3>2 DEF Permitted, Verdict, CallerOf
  <2>2. QED
    BY <1>1, <1>2, <2>1 DEF PolicyStage, Reply, Gate, GInv, TypeOK, Permitted
<1>4. Lock'
  BY <1>1, <1>2 DEF PolicyStage, Reply, Lock, GInv, TypeOK
<1>5. Answered'
  BY <1>2 DEF PolicyStage, Reply, Answered, GInv, TypeOK
<1>6. QED
  BY <1>3, <1>4, <1>5 DEF GRest

\* The breaker check and the handler move a request down the chain or
\* answer it.
LEMMA MeterCheckGRest ==
    ASSUME GInv, NEW r \in Reqs, MeterCheck(r)
    PROVE  GRest'
BY DEF MeterCheck, Reply, GRest, Gate, Lock, Answered, GInv, IInv, TypeOK,
       Permitted

LEMMA HandlerGRest ==
    ASSUME GInv, NEW r \in Reqs, Handler(r)
    PROVE  GRest'
<1>1. UNCHANGED <<in, owner>> /\ pc[r] = "handler" /\ TypeOK
  BY DEF Handler, GInv, IInv
<1>2. CASE in[r].method = ""
  <2>1. pc' = [pc EXCEPT ![r] = "record"] /\ resp' = [resp EXCEPT ![r] = 400]
    BY <1>2 DEF Handler, WriteHeader
  <2>2. QED
    BY <1>1, <2>1 DEF GRest, Gate, Lock, Answered, GInv, TypeOK, Permitted
<1>3. CASE in[r].method # ""
  <2>1. pc' = [pc EXCEPT ![r] = "wait"] /\ resp' = resp
    BY <1>3 DEF Handler
  <2>2. QED
    BY <1>1, <2>1 DEF GRest, Gate, Lock, Answered, GInv, TypeOK, Permitted
<1>4. QED
  BY <1>2, <1>3

\* Acquire takes the free p.mu; no other request is at the bridge then.
LEMMA AcquireGRest ==
    ASSUME GInv, NEW r \in Reqs, Acquire(r)
    PROVE  GRest'
<1>1. \A s \in Reqs : pc[s] # "bridge"
  BY PipelineAssumption DEF Acquire, GInv, Lock
<1>2. QED
  BY <1>1 DEF Acquire, GRest, Gate, Lock, Answered, GInv, IInv, TypeOK,
     Permitted

\* Complete releases p.mu and writes the answer.
LEMMA CompleteGRest ==
    ASSUME GInv, NEW r \in Reqs, Complete(r)
    PROVE  GRest'
<1>1. owner = r
  BY DEF Complete, GInv, Lock
<1>2. QED
  BY <1>1, PipelineAssumption DEF Complete, WriteHeader, GRest, Gate, Lock,
     Answered, GInv, IInv, TypeOK, Permitted

LEMMA RecordGRest ==
    ASSUME GInv, NEW r \in Reqs, Record(r)
    PROVE  GRest'
BY DEF Record, GRest, Gate, Lock, Answered, GInv, IInv, TypeOK, Permitted

LEMMA WebhookGRest ==
    ASSUME GInv, NEW t \in Tools, Trip(t) \/ Reset(t)
    PROVE  GRest'
BY DEF Trip, Reset, GRest, Gate, Lock, Answered, GInv, Permitted

LEMMA NextGInv == GInv /\ [Next]_vars => GInv'
<1> SUFFICES ASSUME GInv, [Next]_vars PROVE GInv'
  OBVIOUS
<1>1. IInv'
  BY NextIInv DEF GInv
<1>2. ASSUME NEW r \in Reqs, ReqStep(r) PROVE GRest'
  BY <1>2, PolicyStageGRest, MeterCheckGRest, HandlerGRest, AcquireGRest,
     CompleteGRest, RecordGRest DEF ReqStep
<1>3. ASSUME UNCHANGED vars PROVE GRest'
  BY <1>3 DEF vars, GRest, Gate, Lock, Answered, GInv, Permitted
<1>4. GRest'
  BY <1>2, <1>3, WebhookGRest DEF Next, ReqStep
<1>5. QED
  BY <1>1, <1>4 DEF GInv, GRest

\* The gateway's view of the usage events.
GUsage == {[req |-> e.req, success |-> e.success] : e \in usage}

\* The policy gate's verdicts depend on the request alone.
LEMMA PermittedFrame ==
    ASSUME in' = in
    PROVE  [r \in Reqs |-> Permitted(r)]' = [r \in Reqs |-> Permitted(r)]
BY DEF Permitted

\* Gateway's view of a set of events grows by the view of the new one.
LEMMA ViewAdd ==
    ASSUME NEW S, NEW x
    PROVE  {[req |-> e.req, success |-> e.success] : e \in S \cup {x}}
             = {[req |-> e.req, success |-> e.success] : e \in S}
               \cup {[req |-> x.req, success |-> x.success]}
BY Zenon

\* The chain starts as the gateway does: nothing answered, p.mu free, no
\* usage, and a verdict for every request.
LEMMA GatewayInit == Init => GW!Init
<1> SUFFICES ASSUME Init PROVE GW!Init
  OBVIOUS
<1>1. \A r \in Reqs : Permitted(r) \in BOOLEAN
  BY DEF Permitted, Verdict
<1>2. QED
  BY <1>1 DEF Init, GW!Init, GStage

\* Answering one request changes GStage at that request only.
LEMMA GStageExcept ==
    ASSUME NEW r \in Reqs, NEW v
    PROVE  [GStage EXCEPT ![r] = v]
             = [s \in Reqs |-> IF s = r THEN v ELSE GStage[s]]
BY DEF GStage

\* A step that answers a pending request with an error and leaves the
\* other requests, p.mu and the usage alone is Gateway's Refuse.
LEMMA RefuseStep ==
    ASSUME TypeOK, TypeOK', NEW r \in Reqs,
           pc[r] # "bridge", resp[r] = 0, resp'[r] \in {400, 403, 429},
           resp'[r] = 403 => Permitted(r) = FALSE,
           resp' = [resp EXCEPT ![r] = resp'[r]], pc'[r] # "bridge",
           \A s \in Reqs \ {r} : pc'[s] = pc[s],
           UNCHANGED <<in, owner, usage>>
    PROVE  GW!Refuse(r)
<1> DEFINE c == resp'[r]
<1>1. GStage[r] = "pending"
  BY DEF GStage
<1>2. GStage' = [GStage EXCEPT ![r] = "answered"]
  <2>1. resp'[r] = c /\ c # 0
    OBVIOUS
  <2>2. GStage'[r] = "answered"
    BY <2>1 DEF GStage
  <2>3. \A s \in Reqs \ {r} : GStage'[s] = GStage[s]
    BY DEF GStage, TypeOK
  <2>4. GStage' = [s \in Reqs |-> IF s = r THEN "answered" ELSE GStage[s]]
    BY <2>2, <2>3 DEF GStage
  <2>5. QED
    BY <2>4, GStageExcept
<1>3. [s \in Reqs |-> Permitted(s)]' = [s \in Reqs |-> Permitted(s)]
  BY PermittedFrame
<1>4. \E cc \in {400, 403, 429} :
         /\ cc = 403 => ~[s \in Reqs |-> Permitted(s)][r]
         /\ resp' = [resp EXCEPT ![r] = cc]
  <2>0. c = 403 => ~Permitted(r)
    OBVIOUS
  <2>1. [s \in Reqs |-> Permitted(s)][r] <=> Permitted(r)
    BY Zenon
  <2>2. \A cc \in {400, 403, 429} :
           cc = c => /\ cc = 403 => ~[s \in Reqs |-> Permitted(s)][r]
                     /\ resp' = [resp EXCEPT ![r] = cc]
    BY <2>0, <2>1
  <2>3. QED
    BY <2>2
<1>5. owner' = owner
      /\ {[req |-> e.req, success |-> e.success] : e \in usage'}
           = {[req |-> e.req, success |-> e.success] : e \in usage}
  OBVIOUS
<1>6. QED
  BY <1>1, <1>2, <1>3, <1>4, <1>5 DEF GW!Refuse

\* RefuseStep for a 400: a body that does not parse or carries no method.
LEMMA RefuseBadRequest ==
    ASSUME TypeOK, TypeOK', NEW r \in Reqs,
           pc[r] # "bridge", resp[r] = 0,
           resp' = [resp EXCEPT ![r] = 400], pc'[r] # "bridge",
           \A s \in Reqs \ {r} : pc'[s] = pc[s],
           UNCHANGED <<in, owner, usage>>
    PROVE  GW!Refuse(r)
<1>1. /\ resp'[r] \in {400, 403, 429}
      /\ resp'[r] = 403 => Permitted(r) = FALSE
      /\ resp' = [resp EXCEPT ![r] = resp'[r]]
  BY DEF TypeOK
<1>2. QED
  BY <1>1, RefuseStep

\* A step that moves requests only between stages short of the bridge and
\* writes no status is hidden: it is a stutter of Gateway.
LEMMA HiddenStep ==
    ASSUME TypeOK, TypeOK', UNCHANGED <<in, owner, usage, resp>>,
           \A s \in Reqs : pc'[s] = "bridge" <=> pc[s] = "bridge"
    PROVE  UNCHANGED GW!gvars
<1>1. \A s \in Reqs : GStage'[s] = GStage[s]
  BY DEF GStage
<1>2. GStage' = GStage
  BY <1>1 DEF GStage
<1>3. [r \in Reqs |-> Permitted(r)]' = [r \in Reqs |-> Permitted(r)]
  BY PermittedFrame
<1>4. QED
  BY <1>2, <1>3 DEF GW!gvars

\* Record of a tagged request adds its event: Gateway's Account.
LEMMA AccountStep ==
    ASSUME GInv, TypeOK', NEW r \in Reqs, Record(r), tag[r] # NoTag
    PROVE  GW!Account(r)
<1>1. pc[r] = "record" /\ resp[r] # 0 /\ ast[r] = resp[r]
  BY DEF Record, GInv, IInv, Answered, Writers
<1>2. GStage[r] = "answered"
  BY <1>1 DEF GStage
<1>3. GStage' = GStage
  BY <1>1 DEF Record, GStage, TypeOK
<1>4. {[req |-> e.req, success |-> e.success] : e \in usage'}
        = {[req |-> e.req, success |-> e.success] : e \in usage}
          \cup {[req |-> r, success |-> resp[r] < 400]}
  <2> DEFINE ev == [req |-> r, caller |-> CallerOf(r), tool |-> tag[r],
                    success |-> ast[r] < 400]
  <2>1. usage' = usage \cup {ev}
    BY DEF Record
  <2>2. {[req |-> e.req, success |-> e.success] : e \in usage \cup {ev}}
          = {[req |-> e.req, success |-> e.success] : e \in usage}
            \cup {[req |-> ev.req, success |-> ev.success]}
    BY ViewAdd
  <2>3. [req |-> ev.req, success |-> ev.success]
          = [req |-> r, success |-> resp[r] < 400]
    BY <1>1
  <2>4. QED
    BY <2>1, <2>2, <2>3
<1>5. QED
  BY <1>2, <1>3, <1>4 DEF GW!Account, Record, Permitted

\* Acquire takes the free p.mu for a request the policy let through:
\* Gateway's Forward.
LEMMA ForwardStep ==
    ASSUME GInv, TypeOK', NEW r \in Reqs, Acquire(r)
    PROVE  GW!Forward(r)
<1>1. pc[r] = "wait" /\ resp[r] = 0 /\ owner = None /\ TypeOK
  BY DEF Acquire, GInv, IInv, Writers
<1>2. GStage[r] = "pending"
  BY <1>1 DEF GStage
<1>3. [s \in Reqs |-> Permitted(s)][r]
  <2>1. Permitted(r)
    BY <1>1 DEF GInv, Gate
  <2>2. QED
    BY <2>1, Zenon
<1>4. GStage' = [GStage EXCEPT ![r] = "backend"]
  <2>1. GStage'[r] = "backend"
    BY DEF Acquire, GStage, TypeOK
  <2>2. \A s \in Reqs \ {r} : GStage'[s] = GStage[s]
    BY DEF Acquire, GStage, TypeOK
  <2>3. GStage' = [s \in Reqs |-> IF s = r THEN "backend" ELSE GStage[s]]
    BY <2>1, <2>2 DEF GStage
  <2>4. QED
    BY <2>3, GStageExcept
<1>5. /\ [s \in Reqs |-> Permitted(s)]' = [s \in Reqs |-> Permitted(s)]
      /\ {[req |-> e.req, success |-> e.success] : e \in usage'}
           = {[req |-> e.req, success |-> e.success] : e \in usage}
      /\ resp' = resp /\ owner' = r
  BY PermittedFrame DEF Acquire
<1>6. QED
  BY <1>1, <1>2, <1>3, <1>4, <1>5 DEF GW!Forward

\* Complete releases p.mu and writes the backend's answer: Gateway's
\* Return.
LEMMA ReturnStep ==
    ASSUME GInv, TypeOK', NEW r \in Reqs, Complete(r)
    PROVE  GW!Return(r)
<1>1. pc[r] = "bridge" /\ TypeOK
  BY DEF Complete, GInv, IInv
<1>2. GStage[r] = "backend"
  BY <1>1 DEF GStage
<1>3. \/ resp' = [resp EXCEPT ![r] = 200]
      \/ resp' = [resp EXCEPT ![r] = 500]
  BY DEF Complete, WriteHeader
<1>4. \E c \in {200, 500} : resp' = [resp EXCEPT ![r] = c]
  BY <1>3
<1>5. GStage' = [GStage EXCEPT ![r] = "answered"]
  <2>1. resp'[r] # 0 /\ pc'[r] = "record"
    BY <1>1, <1>3 DEF Complete, TypeOK
  <2>2. GStage'[r] = "answered"
    BY <2>1 DEF GStage
  <2>3. \A s \in Reqs \ {r} : GStage'[s] = GStage[s]
    BY <1>1, <1>3 DEF Complete, GStage, TypeOK
  <2>4. GStage' = [s \in Reqs |-> IF s = r THEN "answered" ELSE GStage[s]]
    BY <2>2, <2>3 DEF GStage
  <2>5. QED
    BY <2>4, GStageExcept
<1>6. /\ [s \in Reqs |-> Permitted(s)]' = [s \in Reqs |-> Permitted(s)]
      /\ {[req |-> e.req, success |-> e.success] : e \in usage'}
           = {[req |-> e.req, success |-> e.success] : e \in usage}
      /\ owner' = None
  BY PermittedFrame DEF Complete
<1>7. QED
  BY <1>2, <1>4, <1>5, <1>6 DEF GW!Return

\* A step of Gateway, or a stutter of it.
GStep == GW!Next \/ UNCHANGED GW!gvars

\* The policy stage refuses a bad body (400) and a denied tools/call
\* (403), and hides a request it passes on.
LEMMA PolicyStageMaps ==
    ASSUME GInv, TypeOK', NEW r \in Reqs, PolicyStage(r)
    PROVE  GStep
<1>1. pc[r] = "policy" /\ resp[r] = 0 /\ TypeOK
  BY DEF PolicyStage, GInv, IInv, Writers
<1>2. CASE ~in[r].valid
  <2>1. /\ resp' = [resp EXCEPT ![r] = 400] /\ pc'[r] = "done"
        /\ \A s \in Reqs \ {r} : pc'[s] = pc[s]
        /\ UNCHANGED <<in, owner, usage>>
    BY <1>1, <1>2 DEF PolicyStage, Reply, TypeOK
  <2>2. GW!Refuse(r)
    BY <1>1, <2>1, RefuseBadRequest
  <2>3. QED
    BY <2>2 DEF GStep, GW!Next
<1>3. CASE /\ in[r].valid /\ in[r].method = "tools/call"
           /\ ~Evaluate(Pol, CallerOf(r), ExtractToolName(in[r].name)).allowed
  <2>1. /\ resp' = [resp EXCEPT ![r] = 403] /\ pc'[r] = "done"
        /\ \A s \in Reqs \ {r} : pc'[s] = pc[s]
        /\ UNCHANGED <<in, owner, usage>>
    BY <1>1, <1>3 DEF PolicyStage, Reply, TypeOK
  <2>2. resp'[r] = 403 /\ Permitted(r) = FALSE
    BY <1>1, <1>3, <2>1 DEF Permitted, Verdict, CallerOf, TypeOK
  <2>3. GW!Refuse(r)
    BY <1>1, <2>1, <2>2, RefuseStep
  <2>4. QED
    BY <2>3 DEF GStep, GW!Next
<1>4. CASE /\ in[r].valid
           /\ in[r].method = "tools/call" =>
                 Evaluate(Pol, CallerOf(r), ExtractToolName(in[r].name)).allowed
  <2>1. /\ UNCHANGED <<in, owner, usage, resp>>
        /\ \A s \in Reqs : pc'[s] = "bridge" <=> pc[s] = "bridge"
    BY <1>1, <1>4 DEF PolicyStage, TypeOK
  <2>2. QED
    BY <1>1, <2>1, HiddenStep DEF GStep
<1>5. QED
  BY <1>2, <1>3, <1>4

\* The breaker check refuses a tripped tool (429) and hides the rest.
LEMMA MeterCheckMaps ==
    ASSUME GInv, TypeOK', NEW r \in Reqs, MeterCheck(r)
    PROVE  GStep
<1>1. pc[r] = "meter" /\ resp[r] = 0 /\ TypeOK
  BY DEF MeterCheck, GInv, IInv, Writers
<1>2. CASE tag[r] # NoTag /\ tag[r] \in tripped
  <2>1. /\ resp' = [resp EXCEPT ![r] = 429] /\ pc'[r] = "done"
        /\ \A s \in Reqs \ {r} : pc'[s] = pc[s]
        /\ UNCHANGED <<in, owner, usage>>
    BY <1>1, <1>2 DEF MeterCheck, Reply, TypeOK
  <2>2. GW!Refuse(r)
    <3>1. /\ resp'[r] \in {400, 403, 429}
          /\ resp'[r] = 403 => Permitted(r) = FALSE
          /\ resp' = [resp EXCEPT ![r] = resp'[r]]
      BY <1>1, <2>1 DEF TypeOK
    <3>2. QED
      BY <1>1, <2>1, <3>1, RefuseStep
  <2>3. QED
    BY <2>2 DEF GStep, GW!Next
<1>3. CASE ~(tag[r] # NoTag /\ tag[r] \in tripped)
  <2>1. /\ UNCHANGED <<in, owner, usage, resp>>
        /\ \A s \in Reqs : pc'[s] = "bridge" <=> pc[s] = "bridge"
    BY <1>1, <1>3 DEF MeterCheck, TypeOK
  <2>2. QED
    BY <1>1, <2>1, HiddenStep DEF GStep
<1>4. QED
  BY <1>2, <1>3

\* The handler refuses an empty method (400) and hides the rest.
LEMMA HandlerMaps ==
    ASSUME GInv, TypeOK', NEW r \in Reqs, Handler(r)
    PROVE  GStep
<1>1. pc[r] = "handler" /\ resp[r] = 0 /\ TypeOK
  BY DEF Handler, GInv, IInv, Writers
<1>2. CASE in[r].method = ""
  <2>1. /\ resp' = [resp EXCEPT ![r] = 400]
        /\ pc' = [pc EXCEPT ![r] = "record"]
        /\ UNCHANGED <<in, owner, usage>>
    BY <1>2 DEF Handler, WriteHeader
  <2>2. /\ resp' = [resp EXCEPT ![r] = 400] /\ pc'[r] = "record"
        /\ \A s \in Reqs \ {r} : pc'[s] = pc[s]
        /\ UNCHANGED <<in, owner, usage>>
    BY <1>1, <2>1 DEF TypeOK
  <2>3. GW!Refuse(r)
    BY <1>1, <2>2, RefuseBadRequest
  <2>4. QED
    BY <2>3 DEF GStep, GW!Next
<1>3. CASE in[r].method # ""
  <2>1. pc' = [pc EXCEPT ![r] = "wait"] /\ UNCHANGED <<in, owner, usage, resp>>
    BY <1>3 DEF Handler
  <2>2. \A s \in Reqs : pc'[s] = "bridge" <=> pc[s] = "bridge"
    BY <1>1, <2>1 DEF TypeOK
  <2>3. QED
    BY <1>1, <2>1, <2>2, HiddenStep DEF GStep
<1>4. QED
  BY <1>2, <1>3

\* Record accounts a tagged request and hides an untagged one.
LEMMA RecordMaps ==
    ASSUME GInv, TypeOK', NEW r \in Reqs, Record(r)
    PROVE  GStep
<1>1. CASE tag[r] # NoTag
  BY <1>1, AccountStep DEF GStep, GW!Next
<1>2. CASE tag[r] = NoTag
  <2>1. /\ UNCHANGED <<in, owner, usage, resp>>
        /\ \A s \in Reqs : pc'[s] = "bridge" <=> pc[s] = "bridge"
    BY <1>2 DEF Record, GInv, IInv, TypeOK
  <2>2. QED
    BY <2>1, HiddenStep DEF GStep, GInv, IInv
<1>3. QED
  BY <1>1, <1>2

\* Every step of the chain is a step of Gateway or hidden from it.
LEMMA GatewayStep == GInv /\ [Next]_vars => GStep
<1> SUFFICES ASSUME GInv, [Next]_vars PROVE GStep
  OBVIOUS
<1>1. TypeOK /\ TypeOK'
  BY NextTypeOK DEF GInv, IInv
<1>2. ASSUME NEW r \in Reqs, ReqStep(r) PROVE GStep
  <2>1. CASE PolicyStage(r)
    BY <1>1, <2>1, PolicyStageMaps
  <2>2. CASE MeterCheck(r)
    BY <1>1, <2>2, MeterCheckMaps
  <2>3. CASE Handler(r)
    BY <1>1, <2>3, HandlerMaps
  <2>4. CASE Acquire(r)
    BY <1>1, <2>4, ForwardStep DEF GStep, GW!Next
  <2>5. CASE Complete(r)
    BY <1>1, <2>5, ReturnStep DEF GStep, GW!Next
  <2>6. CASE Record(r)
    BY <1>1, <2>6, RecordMaps
  <2>7. QED
    BY <1>2, <2>1, <2>2, <2>3, <2>4, <2>5, <2>6 DEF ReqStep
<1>3. ASSUME NEW t \in Tools, Trip(t) \/ Reset(t) PROVE GStep
  <2>1. /\ UNCHANGED <<in, owner, usage, resp>>
        /\ \A s \in Reqs : pc'[s] = "bridge" <=> pc[s] = "bridge"
    BY <1>3 DEF Trip, Reset
  <2>2. QED
    BY <1>1, <2>1, HiddenStep DEF GStep
<1>4. ASSUME UNCHANGED vars PROVE GStep
  <2>1. /\ UNCHANGED <<in, owner, usage, resp>>
        /\ \A s \in Reqs : pc'[s] = "bridge" <=> pc[s] = "bridge"
    BY <1>4 DEF vars
  <2>2. QED
    BY <1>1, <2>1, HiddenStep DEF GStep
<1>5. QED
  BY <1>2, <1>3, <1>4 DEF Next, ReqStep

\* The handler chain, with its middlewares, status writers, breaker and
\* lock, is the gateway it promises to be (ImplementsGateway): a request
\* is refused or forwarded, only a request the policy gate lets through
\* reaches the backend, one at a time, a 403 goes only to a request the
\* policy stops, and every usage record carries the outcome its client
\* received.  For every set of requests, tools, callers and policy.
THEOREM GatewayRefinement == Spec => ImplementsGateway
<1>1. Init => GW!Init
  BY GatewayInit
<1>2. GInv /\ [Next]_vars => [GW!Next]_GW!gvars
  BY GatewayStep DEF GStep
<1>3. QED
  BY <1>1, <1>2, InitGInv, NextGInv, PTL
     DEF Spec, ImplementsGateway, GW!Spec
=============================================================================
