---------------------------- MODULE PolicyProofs ----------------------------
(***************************************************************************)
(* Proofs about the policy engine and its hot-reload cache.                *)
(***************************************************************************)
EXTENDS PolicyReload, TLAPS

\* The two loops of engine.go test a grant the same way: the rescan's
\* double negations (skip when either matcher rejects, skip a cap that is
\* neither the tool nor "*") accept exactly the grants Evaluate accepts.
LEMMA AppliesIffAllows ==
    ASSUME NEW g, NEW c, NEW t
    PROVE  GrantApplies(g, c, t) <=> GrantAllows(g, c, t)
BY DEF GrantApplies, GrantAllows

\* The rescan of EvaluateWithParams selects the same grant as the scan of
\* Evaluate, on any grant sequence: the open question of spec 9 about the
\* two passes inspecting different grants does not arise on one snapshot.
THEOREM RescanSameGrant ==
    ASSUME NEW gs, NEW c, NEW t
    PROVE  FirstApplying(gs, c, t) = FirstAllowing(gs, c, t)
<1>1. {k \in 1..Len(gs) : GrantApplies(gs[k], c, t)}
        = {k \in 1..Len(gs) : GrantAllows(gs[k], c, t)}
  BY AppliesIffAllows
<1>. QED BY <1>1 DEF FirstApplying, FirstAllowing

\* EvaluateWithParams checks the constraints of the very grant Evaluate
\* allowed the call on, and only then: it allows exactly when Evaluate
\* allows and that grant (if any) has no violated constraint, and the
\* decision names Evaluate's grant.  Neither the verdict nor the grant
\* depends on the order in which Go ranges over ParameterConstraints.
THEOREM ParamsCheckDecidingGrant ==
    ASSUME NEW P, NEW c, NEW t, NEW prm,
           NEW d \in EvaluateWithParams(P, c, t, prm)
    PROVE  LET d0 == Evaluate(P, c, t)
           IN  /\ d.allowed <=> /\ d0.allowed
                                /\ \/ d0.grant = 0
                                   \/ Violated(P.grants[d0.grant], prm) = {}
               /\ d.grant = d0.grant
<1> DEFINE d0 == Evaluate(P, c, t)
           k == FirstAllowing(P.grants, c, t)
<1>1. FirstApplying(P.grants, c, t) = k
  BY RescanSameGrant
<1>2. d \in CheckParams(d0, P.grants, c, t, prm)
  BY DEF EvaluateWithParams
<1>3. CASE t \in P.denied
  <2>1. d0 = Deny("denied")
    BY <1>3 DEF Evaluate
  <2>2. d = d0
    BY <1>2, <2>1 DEF CheckParams, Deny
  <2>. QED BY <2>1, <2>2 DEF Deny
<1>4. CASE t \notin P.denied /\ P.grants = <<>>
  <2>1. d0 = [allowed |-> TRUE, reason |-> "default-allow", grant |-> 0,
              param |-> {}]
    BY <1>4 DEF Evaluate
  <2>2. k = 0
    <3>1. {i \in 1..Len(P.grants) : GrantAllows(P.grants[i], c, t)} = {}
      BY <1>4
    <3>. QED BY <3>1 DEF FirstAllowing, FirstOf
  <2>3. d = d0
    BY <1>1, <1>2, <2>2 DEF CheckParams
  <2>. QED BY <2>1, <2>3
<1>5. CASE t \notin P.denied /\ P.grants # <<>> /\ k = 0
  <2>1. d0 = Deny("no-grant")
    BY <1>5 DEF Evaluate
  <2>2. d = d0
    BY <1>2, <2>1 DEF CheckParams, Deny
  <2>. QED BY <2>1, <2>2 DEF Deny
<1>6. CASE t \notin P.denied /\ P.grants # <<>> /\ k # 0
  <2>1. d0 = [allowed |-> TRUE, reason |-> "granted", grant |-> k, param |-> {}]
    BY <1>6 DEF Evaluate
  <2>2. CASE Violated(P.grants[k], prm) = {}
    <3>1. d = d0
      BY <1>1, <1>2, <2>2 DEF CheckParams
    <3>. QED BY <2>1, <2>2, <3>1
  <2>3. CASE Violated(P.grants[k], prm) # {}
    <3>1. PICK n \in Violated(P.grants[k], prm) :
            d = [allowed |-> FALSE, reason |-> "param", grant |-> k,
                 param |-> {n}]
      BY <1>1, <1>2, <1>6, <2>1, <2>3 DEF CheckParams
    <3>. QED BY <1>6, <2>1, <2>3, <3>1
  <2>. QED BY <2>2, <2>3
<1>. QED BY <1>3, <1>4, <1>5, <1>6

-----------------------------------------------------------------------------
(***************************************************************************)
(* Snapshot isolation of WatchingCache.  A reader takes c.Engine() once    *)
(* and every read of its call sees that engine's policy, which the watcher *)
(* never mutates: it swaps in a new Engine.  The invariant records, for a  *)
(* reader at each read, what the reads before it established about that    *)
(* one policy.                                                             *)
(***************************************************************************)
RStates == {"idle", "denied", "len", "scan", "rescan"}

ReaderInv(p) ==
    /\ rpc[p] # "idle" => seen[p] = {view[p]}
    /\ rpc[p] \in {"len", "scan", "rescan"} => req[p].tool \notin view[p].denied
    /\ rpc[p] = "scan" => view[p].grants # <<>>
    /\ rpc[p] = "rescan" =>
         /\ dec[p] = Evaluate(view[p], req[p].caller, req[p].tool)
         /\ req[p].withParams
    /\ (rpc[p] = "idle" /\ last[p] # Bad) =>
         last[p] \in UNION {Outcomes(P, req[p]) : P \in seen[p]}

SnapInv ==
    /\ rpc \in [Readers -> RStates]
    /\ DOMAIN req = Readers
    /\ DOMAIN view = Readers
    /\ DOMAIN seen = Readers
    /\ DOMAIN dec = Readers
    /\ DOMAIN last = Readers
    /\ rl = "idle"
    /\ \A p \in Readers : ReaderInv(p)

LEMMA InitSnapInv == Init => SnapInv
<1> SUFFICES ASSUME Init PROVE SnapInv
  OBVIOUS
<1>1. rpc \in [Readers -> RStates]
  BY DEF Init, RStates
<1>2. \A p \in Readers : rpc[p] = "idle" /\ last[p] = Bad
  BY DEF Init
<1>3. \A p \in Readers : ReaderInv(p)
  BY <1>2 DEF ReaderInv
<1>. QED BY <1>1, <1>3 DEF Init, SnapInv

\* What Evaluate returns at each of its early returns.
LEMMA EvalCases ==
    ASSUME NEW P, NEW c, NEW t
    PROVE  /\ t \in P.denied => Evaluate(P, c, t) = Deny("denied")
           /\ (t \notin P.denied /\ P.grants = <<>>) =>
                Evaluate(P, c, t) = [allowed |-> TRUE, reason |-> "default-allow",
                                     grant |-> 0, param |-> {}]
           /\ (t \notin P.denied /\ P.grants # <<>>) =>
                Evaluate(P, c, t) =
                  IF FirstAllowing(P.grants, c, t) = 0 THEN Deny("no-grant")
                  ELSE [allowed |-> TRUE, reason |-> "granted",
                        grant |-> FirstAllowing(P.grants, c, t), param |-> {}]
BY DEF Evaluate

\* A call that returns Evaluate's decision without the constraint check
\* (a plain Evaluate, or an EvaluateWithParams whose Evaluate denied)
\* has exactly that one possible outcome.
LEMMA OutcomeOfEvaluate ==
    ASSUME NEW P, NEW r,
           ~r.withParams \/ ~Evaluate(P, r.caller, r.tool).allowed
    PROVE  Outcomes(P, r) = {Evaluate(P, r.caller, r.tool)}
BY DEF Outcomes, EvaluateWithParams, CheckParams

\* A step that leaves a reader's variables alone keeps its invariant.
LEMMA ReaderInvFrame ==
    ASSUME NEW q, ReaderInv(q),
           rpc'[q] = rpc[q], req'[q] = req[q], view'[q] = view[q],
           seen'[q] = seen[q], dec'[q] = dec[q], last'[q] = last[q]
    PROVE  ReaderInv(q)'
BY DEF ReaderInv

\* With the cache, every read of a reader's call sees its engine's policy.
LEMMA CacheReads ==
    ASSUME HotReload = "cache", NEW p
    PROVE  /\ DeniedReads(p) = {view[p].denied}
           /\ LenReads(p) = {view[p].grants}
           /\ GrantsReads(p) = {view[p].grants}
BY DEF DeniedReads, LenReads, GrantsReads, Copying, Held

\* Begin: the reader takes c.Engine(); its snapshot is that one policy.
LEMMA BeginSnapInv ==
    ASSUME HotReload = "cache", SnapInv, NEW p \in Readers, Begin(p)
    PROVE  SnapInv'
<1>1. rpc' \in [Readers -> RStates]
  BY DEF Begin, SnapInv, RStates
<1>2. /\ DOMAIN req' = Readers /\ DOMAIN view' = Readers
      /\ DOMAIN seen' = Readers /\ DOMAIN dec' = Readers
      /\ DOMAIN last' = Readers /\ rl' = "idle"
  BY DEF Begin, SnapInv
<1>3. ASSUME NEW q \in Readers, q # p PROVE ReaderInv(q)'
  <2>1. /\ rpc'[q] = rpc[q] /\ req'[q] = req[q] /\ view'[q] = view[q]
        /\ seen'[q] = seen[q] /\ dec'[q] = dec[q] /\ last'[q] = last[q]
    BY <1>3 DEF Begin, SnapInv
  <2>. QED BY <2>1, ReaderInvFrame DEF SnapInv
<1>4. ReaderInv(p)'
  <2>1. rpc'[p] = "denied" /\ view'[p] = cur /\ seen'[p] = {cur}
    BY DEF Begin, SnapInv
  <2>. QED BY <2>1 DEF ReaderInv
<1>. QED BY <1>1, <1>2, <1>3, <1>4 DEF SnapInv

\* The denied loop: a denied tool ends the call with what Evaluate (and
\* EvaluateWithParams) returns on the snapshot.
LEMMA ReadDeniedSnapInv ==
    ASSUME HotReload = "cache", SnapInv, NEW p \in Readers, ReadDenied(p)
    PROVE  SnapInv'
<1> DEFINE r == req[p]
           P == view[p]
<1>r. DeniedReads(p) = {P.denied}
  BY CacheReads
<1>0. rpc[p] = "denied" /\ seen[p] = {P}
  BY <1>r DEF ReadDenied, SnapInv, ReaderInv
<1>1. rpc' \in [Readers -> RStates]
  BY <1>r DEF ReadDenied, Finish, SnapInv, RStates
<1>2. /\ DOMAIN req' = Readers /\ DOMAIN view' = Readers
      /\ DOMAIN seen' = Readers /\ DOMAIN dec' = Readers
      /\ DOMAIN last' = Readers /\ rl' = "idle"
  BY <1>r DEF ReadDenied, Finish, SnapInv
<1>3. ASSUME NEW q \in Readers, q # p PROVE ReaderInv(q)'
  <2>1. /\ rpc'[q] = rpc[q] /\ req'[q] = req[q] /\ view'[q] = view[q]
        /\ seen'[q] = seen[q] /\ dec'[q] = dec[q] /\ last'[q] = last[q]
    BY <1>3, <1>r DEF ReadDenied, Finish, SnapInv
  <2>. QED BY <2>1, ReaderInvFrame DEF SnapInv
<1>4. ReaderInv(p)'
  <2>1. CASE r.tool \in P.denied
    <3>1. Evaluate(P, r.caller, r.tool) = Deny("denied")
      BY <2>1, EvalCases
    <3>2. Outcomes(P, r) = {Deny("denied")}
      <4>1. ~Evaluate(P, r.caller, r.tool).allowed
        BY <3>1 DEF Deny
      <4>2. Outcomes(P, r) = {Evaluate(P, r.caller, r.tool)}
        BY <4>1, OutcomeOfEvaluate
      <4>. QED BY <3>1, <4>2
    <3>3. /\ rpc'[p] = "idle" /\ last'[p] = Deny("denied")
          /\ req'[p] = r /\ seen'[p] = {P}
      BY <1>0, <2>1, <1>r DEF ReadDenied, Finish, Held, SnapInv
    <3>. QED BY <3>2, <3>3 DEF ReaderInv
  <2>2. CASE r.tool \notin P.denied
    <3>1. /\ rpc'[p] = "len" /\ req'[p] = r /\ view'[p] = P
          /\ seen'[p] = {P}
      BY <1>0, <2>2, <1>r DEF ReadDenied, Held, SnapInv
    <3>. QED BY <2>2, <3>1 DEF ReaderInv
  <2>. QED BY <2>1, <2>2
<1>. QED BY <1>1, <1>2, <1>3, <1>4 DEF SnapInv

\* len(Grants) == 0: the default-allow is what Evaluate returns on the
\* snapshot, whether the call ends here or goes on to the rescan.
LEMMA ReadLenSnapInv ==
    ASSUME HotReload = "cache", SnapInv, NEW p \in Readers, ReadLen(p)
    PROVE  SnapInv'
<1> DEFINE r == req[p]
           P == view[p]
           d == [allowed |-> TRUE, reason |-> "default-allow", grant |-> 0,
                 param |-> {}]
<1>r. LenReads(p) = {P.grants}
  BY CacheReads
<1>0. /\ rpc[p] = "len" /\ seen[p] = {P} /\ r.tool \notin P.denied
  BY <1>r DEF ReadLen, SnapInv, ReaderInv
<1>1. rpc' \in [Readers -> RStates]
  BY <1>r DEF ReadLen, Finish, SnapInv, RStates
<1>2. /\ DOMAIN req' = Readers /\ DOMAIN view' = Readers
      /\ DOMAIN seen' = Readers /\ DOMAIN dec' = Readers
      /\ DOMAIN last' = Readers /\ rl' = "idle"
  BY <1>r DEF ReadLen, Finish, SnapInv
<1>3. ASSUME NEW q \in Readers, q # p PROVE ReaderInv(q)'
  <2>1. /\ rpc'[q] = rpc[q] /\ req'[q] = req[q] /\ view'[q] = view[q]
        /\ seen'[q] = seen[q] /\ dec'[q] = dec[q] /\ last'[q] = last[q]
    BY <1>3, <1>r DEF ReadLen, Finish, SnapInv
  <2>. QED BY <2>1, ReaderInvFrame DEF SnapInv
<1>4. ReaderInv(p)'
  <2>1. CASE P.grants = <<>> /\ r.withParams
    <3>1. Evaluate(P, r.caller, r.tool) = d
      BY <1>0, <2>1, EvalCases
    <3>2. /\ rpc'[p] = "rescan" /\ dec'[p] = d /\ req'[p] = r
          /\ view'[p] = P /\ seen'[p] = {P}
      BY <1>0, <2>1, <1>r DEF ReadLen, Held, SnapInv
    <3>. QED BY <1>0, <2>1, <3>1, <3>2 DEF ReaderInv
  <2>2. CASE P.grants = <<>> /\ ~r.withParams
    <3>1. Evaluate(P, r.caller, r.tool) = d
      BY <1>0, <2>2, EvalCases
    <3>2. Outcomes(P, r) = {d}
      BY <2>2, <3>1, OutcomeOfEvaluate
    <3>3. /\ rpc'[p] = "idle" /\ last'[p] = d /\ req'[p] = r
          /\ seen'[p] = {P}
      BY <1>0, <2>2, <1>r DEF ReadLen, Finish, Held, SnapInv
    <3>. QED BY <3>2, <3>3 DEF ReaderInv
  <2>3. CASE P.grants # <<>>
    <3>1. /\ rpc'[p] = "scan" /\ req'[p] = r /\ view'[p] = P
          /\ seen'[p] = {P}
      BY <1>0, <2>3, <1>r DEF ReadLen, Held, SnapInv
    <3>. QED BY <1>0, <2>3, <3>1 DEF ReaderInv
  <2>. QED BY <2>1, <2>2, <2>3
<1>. QED BY <1>1, <1>2, <1>3, <1>4 DEF SnapInv

\* The grant scan computes Evaluate's decision on the snapshot.
LEMMA ReadScanSnapInv ==
    ASSUME HotReload = "cache", SnapInv, NEW p \in Readers, ReadScan(p)
    PROVE  SnapInv'
<1> DEFINE r == req[p]
           P == view[p]
           k == FirstAllowing(P.grants, r.caller, r.tool)
           d == IF k = 0 THEN Deny("no-grant")
                ELSE [allowed |-> TRUE, reason |-> "granted", grant |-> k,
                      param |-> {}]
<1>r. GrantsReads(p) = {P.grants}
  BY CacheReads
<1>0. /\ rpc[p] = "scan" /\ seen[p] = {P} /\ r.tool \notin P.denied
      /\ P.grants # <<>>
  BY <1>r DEF ReadScan, SnapInv, ReaderInv
<1>5. Evaluate(P, r.caller, r.tool) = d
  BY <1>0, EvalCases
<1>6. /\ dec' = [dec EXCEPT ![p] = d]
      /\ IF r.withParams /\ d.allowed
           THEN rpc' = [rpc EXCEPT ![p] = "rescan"] /\ UNCHANGED last
           ELSE Finish(p, d)
      /\ UNCHANGED <<req, view, seen>>
  BY <1>r DEF ReadScan
<1>1. rpc' \in [Readers -> RStates]
  BY <1>r DEF ReadScan, Finish, SnapInv, RStates
<1>2. /\ DOMAIN req' = Readers /\ DOMAIN view' = Readers
      /\ DOMAIN seen' = Readers /\ DOMAIN dec' = Readers
      /\ DOMAIN last' = Readers /\ rl' = "idle"
  BY <1>r DEF ReadScan, Finish, SnapInv
<1>3. ASSUME NEW q \in Readers, q # p PROVE ReaderInv(q)'
  <2>1. /\ rpc'[q] = rpc[q] /\ req'[q] = req[q] /\ view'[q] = view[q]
        /\ seen'[q] = seen[q] /\ dec'[q] = dec[q] /\ last'[q] = last[q]
    BY <1>3, <1>r DEF ReadScan, Finish, SnapInv
  <2>. QED BY <2>1, ReaderInvFrame DEF SnapInv
<1>4. ReaderInv(p)'
  <2>1. CASE r.withParams /\ d.allowed
    <3>1. /\ rpc'[p] = "rescan" /\ dec'[p] = d /\ req'[p] = r
          /\ view'[p] = P /\ seen'[p] = {P}
      BY <1>0, <2>1, <1>r DEF ReadScan, Held, SnapInv
    <3>. QED BY <1>0, <1>5, <2>1, <3>1 DEF ReaderInv
  <2>2. CASE ~(r.withParams /\ d.allowed)
    <3>1. Outcomes(P, r) = {d}
      BY <1>5, <2>2, OutcomeOfEvaluate
    <3>2. /\ rpc'[p] = "idle" /\ last'[p] = d /\ req'[p] = r
          /\ seen'[p] = {P}
      BY <1>0, <2>2, <1>6 DEF Finish, SnapInv
    <3>. QED BY <3>1, <3>2 DEF ReaderInv
  <2>. QED BY <2>1, <2>2
<1>. QED BY <1>1, <1>2, <1>3, <1>4 DEF SnapInv

\* The rescan reads the same snapshot, so the call returns one of the
\* decisions EvaluateWithParams has on it.
LEMMA ReadRescanSnapInv ==
    ASSUME HotReload = "cache", SnapInv, NEW p \in Readers, ReadRescan(p)
    PROVE  SnapInv'
<1> DEFINE r == req[p]
           P == view[p]
<1>r. GrantsReads(p) = {P.grants}
  BY CacheReads
<1>0. /\ rpc[p] = "rescan" /\ seen[p] = {P} /\ r.withParams
      /\ dec[p] = Evaluate(P, r.caller, r.tool)
  BY <1>r DEF ReadRescan, SnapInv, ReaderInv
<1>1. rpc' \in [Readers -> RStates]
  BY <1>r DEF ReadRescan, Finish, SnapInv, RStates
<1>2. /\ DOMAIN req' = Readers /\ DOMAIN view' = Readers
      /\ DOMAIN seen' = Readers /\ DOMAIN dec' = Readers
      /\ DOMAIN last' = Readers /\ rl' = "idle"
  BY <1>r DEF ReadRescan, Finish, SnapInv
<1>3. ASSUME NEW q \in Readers, q # p PROVE ReaderInv(q)'
  <2>1. /\ rpc'[q] = rpc[q] /\ req'[q] = req[q] /\ view'[q] = view[q]
        /\ seen'[q] = seen[q] /\ dec'[q] = dec[q] /\ last'[q] = last[q]
    BY <1>3, <1>r DEF ReadRescan, Finish, SnapInv
  <2>. QED BY <2>1, ReaderInvFrame DEF SnapInv
<1>4. ReaderInv(p)'
  <2>1. PICK d \in CheckParams(dec[p], P.grants, r.caller, r.tool, r.params) :
          last' = [last EXCEPT ![p] = d]
    BY <1>r DEF ReadRescan, Finish, Held
  <2>2. d \in Outcomes(P, r)
    BY <1>0, <2>1 DEF Outcomes, EvaluateWithParams
  <2>3. /\ rpc'[p] = "idle" /\ last'[p] = d /\ req'[p] = r
        /\ seen'[p] = {P}
    BY <1>0, <2>1, <1>r DEF ReadRescan, Finish, SnapInv
  <2>. QED BY <2>2, <2>3 DEF ReaderInv
<1>. QED BY <1>1, <1>2, <1>3, <1>4 DEF SnapInv

\* The writer, the watcher and Stop leave the readers alone: a swap of
\* c.engine changes cur, never an Engine a reader holds.
LEMMA EnvSnapInv ==
    ASSUME SnapInv,
           \/ Truncate \/ Fill \/ WatchStat \/ WatchLoad \/ StopCache
           \/ UNCHANGED vars
    PROVE  SnapInv'
<1>2. UNCHANGED <<rpc, req, view, seen, dec, last, rl>>
  BY DEF Truncate, Fill, WatchStat, WatchLoad, StopCache, vars
<1>. QED BY <1>2 DEF SnapInv, ReaderInv

LEMMA NextSnapInv ==
    ASSUME HotReload = "cache"
    PROVE  SnapInv /\ [Next]_vars => SnapInv'
<1> SUFFICES ASSUME SnapInv, [Next]_vars PROVE SnapInv'
  OBVIOUS
<1>1. CASE ReaderStep
  BY <1>1, BeginSnapInv, ReadDeniedSnapInv, ReadLenSnapInv, ReadScanSnapInv,
     ReadRescanSnapInv DEF ReaderStep
<1>2. CASE ~ReaderStep
  BY <1>2, EnvSnapInv DEF Next
<1>. QED BY <1>1, <1>2

\* With WatchingCache, every Evaluate and EvaluateWithParams call returns
\* a decision of one whole policy, for any policies, callers and number of
\* readers, whatever the watcher swaps in during the call.
THEOREM CacheSnapshotDecision ==
    ASSUME HotReload = "cache"
    PROVE  Spec => []SnapshotDecision
<1>1. Init => SnapInv
  BY InitSnapInv
<1>2. SnapInv /\ [Next]_vars => SnapInv'
  BY NextSnapInv
<1>3. SnapInv => SnapshotDecision
  BY DEF SnapInv, ReaderInv, SnapshotDecision
<1>. QED BY <1>1, <1>2, <1>3, PTL DEF Spec

=============================================================================
