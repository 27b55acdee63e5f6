--------------------------- MODULE MCPBridgeProofs ---------------------------
(***************************************************************************)
(* Proofs about MCPBridge for every value of its constants: the type       *)
(* invariant, and that with a backend that writes exactly one line per     *)
(* request every result SendRequest returns is the answer to the caller's  *)
(* own request (ResponseCorrelation), through the lockstep invariant.      *)
(***************************************************************************)
EXTENDS MCPBridge, TLAPS

USE BridgeAssumption

\* The actions of one goroutine inside SendRequest.
ProcStep(p) ==
    SendWrite(p) \/ SendWriteFails(p) \/ SendRead(p) \/ SendReadFails(p)

\* Next split into the steps of the goroutines and the rest.
LEMMA NextSplit ==
    Next <=> \/ \E p \in Procs : ProcStep(p)
             \/ Stop \/ BackendServe \/ BackendNotify \/ BackendCrash
             \/ Terminated
BY DEF Next, ProcStep

-----------------------------------------------------------------------------
(* Type correctness.                                                       *)

\* Returning from SendRequest keeps the variables it touches in their types.
LEMMA ReturnType ==
    ASSUME TypeOK, NEW p \in Procs, NEW out \in Outcomes, Return(p, out)
    PROVE  /\ last' \in [Procs -> Outcomes]
           /\ pc' \in [Procs -> {"idle", "read"}]
           /\ mu' \in SUBSET Procs
           /\ phase' \in {"init", "ready", "failed", "stopped"}
           /\ proc' \in {"running", "exited"}
BY DEF Return, TypeOK

\* Parsing a line of the stdout pipe yields an outcome of SendRequest.
LEMMA ParseType ==
    ASSUME NEW line \in Lines
    PROVE  Parse(line) \in Outcomes
BY DEF Parse, Lines, Outcomes

\* NewMCPProxy starts in a well-typed state.
LEMMA InitTypeOK == Init => TypeOK
<1> SUFFICES ASSUME Init PROVE TypeOK
  OBVIOUS
<1>1. NoOutcome \in Outcomes
  BY DEF NoOutcome, Outcomes
<1>2. <<>> \in Seq(Requests) /\ <<>> \in Seq(Lines)
  OBVIOUS
<1>3. 1 \in 1..(MaxID + 1) /\ 0 \in 0..MaxID /\ 0 \in 0..MaxNotify
  OBVIOUS
<1>4. QED
  BY <1>1, <1>2, <1>3 DEF Init, TypeOK

\* Every step, of a goroutine, the backend or Stop, keeps the types.
LEMMA NextTypeOK == TypeOK /\ [Next]_vars => TypeOK'
<1> SUFFICES ASSUME TypeOK, [Next]_vars PROVE TypeOK'
  OBVIOUS
<1>1. ASSUME NEW p \in Procs, SendWrite(p) PROVE TypeOK'
  BY <1>1 DEF SendWrite, TypeOK, Requests, Ids, Method
<1>2. ASSUME NEW p \in Procs, SendWriteFails(p) PROVE TypeOK'
  <2>1. IOError \in Outcomes
    BY DEF IOError, Outcomes
  <2>2. QED
    BY <1>2, <2>1, ReturnType DEF SendWriteFails, TypeOK
<1>3. ASSUME NEW p \in Procs, SendRead(p) PROVE TypeOK'
  <2>1. Head(fromBackend) \in Lines /\ Tail(fromBackend) \in Seq(Lines)
    BY <1>3 DEF SendRead, TypeOK
  <2>2. Parse(Head(fromBackend)) \in Outcomes
    BY <2>1, ParseType
  <2>3. QED
    BY <1>3, <2>1, <2>2, ReturnType DEF SendRead, TypeOK
<1>4. ASSUME NEW p \in Procs, SendReadFails(p) PROVE TypeOK'
  <2>1. IOError \in Outcomes
    BY DEF IOError, Outcomes
  <2>2. QED
    BY <1>4, <2>1, ReturnType DEF SendReadFails, TypeOK
<1>5. CASE Stop
  BY <1>5 DEF Stop, TypeOK
<1>6. CASE BackendServe
  <2>0. Head(toBackend) \in Requests
    BY <1>6 DEF BackendServe, TypeOK
  <2>1. Head(toBackend).id \in 0..MaxID
    BY <2>0 DEF Requests, Ids
  <2>2. QED
    BY <1>6, <2>1 DEF BackendServe, TypeOK, Lines
<1>7. CASE BackendNotify
  BY <1>7 DEF BackendNotify, TypeOK, Lines
<1>8. CASE BackendCrash
  BY <1>8 DEF BackendCrash, TypeOK
<1>9. CASE Terminated \/ UNCHANGED vars
  BY <1>9 DEF Terminated, vars, TypeOK
<1>10. QED
  BY <1>1, <1>2, <1>3, <1>4, <1>5, <1>6, <1>7, <1>8, <1>9, NextSplit
     DEF ProcStep

\* The type invariant holds in every reachable state.
THEOREM TypeCorrect == Spec => []TypeOK
BY InitTypeOK, NextTypeOK, PTL DEF Spec

-----------------------------------------------------------------------------
(* Response correlation.  ResponseCorrelation alone is not inductive: a    *)
(* line in the stdout pipe could belong to another caller.  Lockstep says  *)
(* who a line in either pipe belongs to; with TypeOK it makes the          *)
(* invariant inductive.                                                    *)

IInv == TypeOK /\ Lockstep /\ ResponseCorrelation

\* Under Lockstep the goroutine past its write is the only holder of p.mu.
LEMMA HolderUnique ==
    ASSUME TypeOK, Lockstep, NEW p \in Procs, pc[p] = "read"
    PROVE  mu = {p}
BY DEF Lockstep, TypeOK

\* With p.mu free both pipes are empty while the child runs, and the stdout
\* pipe is empty in any case.
LEMMA FreeLockEmptyPipes ==
    ASSUME TypeOK, Lockstep, mu = {}
    PROVE  /\ fromBackend = <<>>
           /\ proc = "running" => toBackend = <<>>
           /\ \A q \in Procs : pc[q] = "idle"
BY DEF Lockstep, TypeOK

\* NewMCPProxy starts with empty pipes and nobody holding p.mu.
LEMMA InitIInv == Init => IInv
<1> SUFFICES ASSUME Init PROVE IInv
  OBVIOUS
<1>1. TypeOK
  BY InitTypeOK
<1>2. Lockstep
  BY DEF Init, Lockstep
<1>3. ResponseCorrelation
  BY DEF Init, ResponseCorrelation, NoOutcome
<1>4. QED
  BY <1>1, <1>2, <1>3 DEF IInv

\* A step of one goroutine preserves the lockstep invariant and the
\* correlation of what it returns.
LEMMA ProcStepIInv ==
    ASSUME IInv, NEW p \in Procs, ProcStep(p)
    PROVE  Lockstep' /\ ResponseCorrelation'
<1> USE DEF IInv
<1>1. CASE SendWrite(p)
  <2>1. fromBackend = <<>> /\ toBackend = <<>> /\ \A q \in Procs : pc[q] = "idle"
    BY <1>1, FreeLockEmptyPipes DEF SendWrite
  <2>2. Lockstep'
    BY <1>1, <2>1 DEF SendWrite, Lockstep, TypeOK
  <2>3. ResponseCorrelation'
    BY <1>1 DEF SendWrite, ResponseCorrelation, TypeOK
  <2>4. QED
    BY <2>2, <2>3
<1>2. CASE SendWriteFails(p)
  <2>1. fromBackend = <<>> /\ \A q \in Procs : pc[q] = "idle"
    BY <1>2, FreeLockEmptyPipes DEF SendWriteFails
  <2>2. Lockstep'
    BY <1>2, <2>1 DEF SendWriteFails, Return, Lockstep, TypeOK
  <2>3. ResponseCorrelation'
    BY <1>2 DEF SendWriteFails, Return, ResponseCorrelation, TypeOK, IOError
  <2>4. QED
    BY <2>2, <2>3
<1>3. CASE SendRead(p)
  <2>1. mu = {p}
    BY <1>3, HolderUnique DEF SendRead
  <2>2. Len(fromBackend) = 1 /\ Head(fromBackend).id = reqId[p]
    <3>1. fromBackend \in Seq(Lines) /\ fromBackend # <<>> /\ Len(fromBackend) <= 1
      BY <1>3 DEF SendRead, Lockstep, TypeOK
    <3>2. Len(fromBackend) = 1
      BY <3>1
    <3>3. \E q \in mu : fromBackend[1].id = reqId[q]
      BY <3>2 DEF Lockstep
    <3>4. Head(fromBackend) = fromBackend[1]
      BY <3>1, <3>2
    <3>5. QED
      BY <2>1, <3>2, <3>3, <3>4
  <2>3. fromBackend' = <<>>
    BY <1>3, <2>2 DEF SendRead, TypeOK
  <2>4. proc = "running" => toBackend = <<>>
    BY <1>3, <2>2 DEF SendRead, Lockstep, TypeOK
  <2>5. \A q \in Procs \ {p} : pc[q] = "idle"
    BY <2>1 DEF Lockstep, TypeOK
  <2>6. Lockstep'
    BY <1>3, <2>3, <2>4, <2>5 DEF SendRead, Return, Lockstep, TypeOK
  <2>7. ResponseCorrelation'
    BY <1>3, <2>2 DEF SendRead, Return, Parse, ResponseCorrelation, TypeOK
  <2>8. QED
    BY <2>6, <2>7
<1>4. CASE SendReadFails(p)
  <2>1. mu = {p}
    BY <1>4, HolderUnique DEF SendReadFails
  <2>2. fromBackend = <<>>
    BY <1>4 DEF SendReadFails, Lockstep
  <2>3. \A q \in Procs \ {p} : pc[q] = "idle"
    BY <2>1 DEF Lockstep, TypeOK
  <2>4. proc = "running" => toBackend = <<>>
    BY <1>4 DEF SendReadFails, Lockstep
  <2>5. Lockstep'
    BY <1>4, <2>2, <2>3, <2>4 DEF SendReadFails, Return, Lockstep, TypeOK
  <2>6. ResponseCorrelation'
    BY <1>4 DEF SendReadFails, Return, ResponseCorrelation, TypeOK, IOError
  <2>7. QED
    BY <2>5, <2>6
<1>5. QED
  BY <1>1, <1>2, <1>3, <1>4 DEF ProcStep

\* A step of the backend or of Stop preserves the invariant, provided the
\* backend writes nothing but answers.
LEMMA EnvStepIInv ==
    ASSUME IInv, ~BackendNotifies,
           Stop \/ BackendServe \/ BackendNotify \/ BackendCrash
           \/ Terminated \/ UNCHANGED vars
    PROVE  Lockstep' /\ ResponseCorrelation'
<1> USE DEF IInv
<1>1. CASE Stop
  BY <1>1 DEF Stop, Lockstep, ResponseCorrelation, TypeOK
<1>2. CASE BackendServe
  <2>1. PICK q \in mu : Head(toBackend).id = reqId[q]
    <3>1. toBackend \in Seq(Requests) /\ toBackend # <<>> /\ proc = "running"
      BY <1>2 DEF BackendServe, TypeOK
    <3>2. Head(toBackend) = toBackend[1] /\ 1 \in 1..Len(toBackend)
      BY <3>1
    <3>3. QED
      BY <3>1, <3>2 DEF Lockstep
  <2>2. fromBackend = <<>> /\ Tail(toBackend) = <<>>
    <3>1. /\ toBackend \in Seq(Requests) /\ fromBackend \in Seq(Lines)
          /\ toBackend # <<>> /\ proc = "running"
      BY <1>2 DEF BackendServe, TypeOK
    <3>2. Len(toBackend) + Len(fromBackend) <= 1
      BY <3>1 DEF Lockstep
    <3>3. fromBackend = <<>>
      BY <3>1, <3>2
    <3>4. Len(toBackend) <= 1
      BY <3>1, <3>2
    <3>5. Tail(toBackend) = <<>>
      BY <3>1, <3>4
    <3>6. QED
      BY <3>3, <3>5
  <2>3. Lockstep'
    BY <1>2, <2>1, <2>2 DEF BackendServe, Lockstep, TypeOK
  <2>4. ResponseCorrelation'
    BY <1>2 DEF BackendServe, ResponseCorrelation
  <2>5. QED
    BY <2>3, <2>4
<1>3. CASE BackendNotify
  BY <1>3 DEF BackendNotify
<1>4. CASE BackendCrash
  BY <1>4 DEF BackendCrash, Lockstep, ResponseCorrelation
<1>5. CASE Terminated \/ UNCHANGED vars
  BY <1>5 DEF Terminated, vars, Lockstep, ResponseCorrelation
<1>6. QED
  BY <1>1, <1>2, <1>3, <1>4, <1>5

\* The inductive step for the whole next-state relation.
LEMMA NextIInv ==
    ASSUME ~BackendNotifies
    PROVE  IInv /\ [Next]_vars => IInv'
<1> SUFFICES ASSUME IInv, [Next]_vars PROVE IInv'
  OBVIOUS
<1>1. TypeOK'
  BY NextTypeOK DEF IInv
<1>2. Lockstep' /\ ResponseCorrelation'
  BY ProcStepIInv, EnvStepIInv, NextSplit
<1>3. QED
  BY <1>1, <1>2 DEF IInv

\* With a backend that answers each request line with exactly one line,
\* every result or rpc error SendRequest returns answers the caller's own
\* request, however the handlers, the backend, a crash and Stop interleave.
THEOREM Correlation ==
    ASSUME ~BackendNotifies
    PROVE  Spec => []ResponseCorrelation
<1>1. Init => IInv
  BY InitIInv
<1>2. IInv /\ [Next]_vars => IInv'
  BY NextIInv
<1>3. IInv => ResponseCorrelation
  BY DEF IInv
<1>4. QED
  BY <1>1, <1>2, <1>3, PTL DEF Spec

\* The lockstep discipline itself: the pipes never hold a line that is not
\* the current holder's request or its answer.
THEOREM LockstepHolds ==
    ASSUME ~BackendNotifies
    PROVE  Spec => []Lockstep
BY InitIInv, NextIInv, PTL DEF Spec, IInv


-----------------------------------------------------------------------------
(* Refinement of BridgeRPC.  Every step of a goroutine is the matching    *)
(* abstract step (SendWrite a Begin, a failed write a FailFast, a read or  *)
(* a failed read a Finish, Stop a Stop) and the backend's steps are        *)
(* stutters.  The reply mapping never reads "misattributed" because of     *)
(* ResponseCorrelation, which is why the proof runs under IInv.            *)

\* Returning from SendRequest changes the mapped reply of the caller only,
\* to the kind it returned, provided what it returned is correlated.
LEMMA ReturnReply ==
    ASSUME TypeOK, ResponseCorrelation', NEW p \in Procs, NEW out \in Outcomes,
           Return(p, out), \A q \in Procs \ {p} : reqId'[q] = reqId[q]
    PROVE  ReplyOf' = [ReplyOf EXCEPT ![p] = out.kind]
BY DEF Return, ReplyOf, ResponseCorrelation, TypeOK

\* The caller's reply is unchanged by a step that only moves it past its
\* write, as the last call it returned from was correlated.
LEMMA WriteReply ==
    ASSUME TypeOK, ResponseCorrelation, NEW p \in Procs, SendWrite(p)
    PROVE  ReplyOf' = ReplyOf
BY DEF SendWrite, ReplyOf, ResponseCorrelation, TypeOK

\* Each step of MCPBridge is a step of BridgeRPC or leaves the mapped
\* variables unchanged.
LEMMA StepSimulation ==
    ASSUME IInv, IInv', [Next]_vars
    PROVE  [RPC!Next]_RPC!avars
<1> USE DEF IInv
<1>1. ASSUME NEW p \in Procs, SendWrite(p) PROVE RPC!Begin(p)
  <2>1. ReplyOf' = ReplyOf
    BY <1>1, WriteReply
  <2>2. QED
    BY <1>1, <2>1 DEF SendWrite, RPC!Begin, RPC!MayCall, MayCall, TypeOK
<1>2. ASSUME NEW p \in Procs, SendWriteFails(p) PROVE RPC!FailFast(p)
  <2>1. ReplyOf' = [ReplyOf EXCEPT ![p] = "ioerror"]
    <3>1. IOError \in Outcomes /\ IOError.kind = "ioerror"
      BY DEF IOError, Outcomes
    <3>2. QED
      BY <1>2, <3>1, ReturnReply DEF SendWriteFails
  <2>2. QED
    BY <1>2, <2>1 DEF SendWriteFails, Return, IOError, RPC!FailFast,
                      RPC!Settle, RPC!MayCall, MayCall, TypeOK
<1>3. ASSUME NEW p \in Procs, SendRead(p) PROVE RPC!Finish(p)
  <2>1. Head(fromBackend) \in Lines
    BY <1>3 DEF SendRead, TypeOK
  <2>2. Parse(Head(fromBackend)) \in Outcomes
    BY <2>1, ParseType
  <2>3. ReplyOf' = [ReplyOf EXCEPT ![p] = Parse(Head(fromBackend)).kind]
    BY <1>3, <2>2, ReturnReply DEF SendRead
  <2>4. Parse(Head(fromBackend)).kind \in RPC!Replies \ {"none"}
    BY DEF Parse, RPC!Replies
  <2>5. p \in mu
    BY <1>3 DEF SendRead, Lockstep
  <2>6. QED
    BY <1>3, <2>3, <2>4, <2>5 DEF SendRead, Return, RPC!Finish, RPC!Settle
<1>4. ASSUME NEW p \in Procs, SendReadFails(p) PROVE RPC!Finish(p)
  <2>1. ReplyOf' = [ReplyOf EXCEPT ![p] = "ioerror"]
    <3>1. IOError \in Outcomes /\ IOError.kind = "ioerror"
      BY DEF IOError, Outcomes
    <3>2. QED
      BY <1>4, <3>1, ReturnReply DEF SendReadFails
  <2>2. p \in mu
    BY <1>4 DEF SendReadFails, Lockstep
  <2>3. QED
    BY <1>4, <2>1, <2>2 DEF SendReadFails, Return, IOError, RPC!Finish,
                            RPC!Settle, RPC!Replies
<1>5. ASSUME Stop PROVE RPC!Stop
  BY <1>5 DEF Stop, RPC!Stop, ReplyOf
<1>6. ASSUME BackendServe \/ BackendNotify \/ BackendCrash \/ Terminated
                      \/ UNCHANGED vars
      PROVE  UNCHANGED RPC!avars
  BY <1>6 DEF BackendServe, BackendNotify, BackendCrash, Terminated, vars,
              RPC!avars, ReplyOf
<1>7. QED
  BY <1>1, <1>2, <1>3, <1>4, <1>5, <1>6, NextSplit DEF ProcStep, RPC!Next

\* With a backend that answers each request line with exactly one line,
\* proxy.MCPProxy implements the atomic remote call of BridgeRPC: at most
\* one SendRequest in flight, one id per call, every call answered with
\* its own response or a transport error, and the gateway ready only after
\* "initialize" returned a result.
THEOREM Refinement ==
    ASSUME ~BackendNotifies
    PROVE  Spec => ImplementsRPC
<1>1. Init => RPC!Init
  BY DEF Init, RPC!Init, ReplyOf, NoOutcome
<1>2. IInv /\ IInv' /\ [Next]_vars => [RPC!Next]_RPC!avars
  BY StepSimulation
<1>3. QED
  BY <1>1, <1>2, InitIInv, NextIInv, PTL DEF Spec, ImplementsRPC, RPC!Spec

=============================================================================
