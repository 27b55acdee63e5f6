---------------------------- MODULE PolicyReload ----------------------------
(***************************************************************************)
(* Policy hot reload against concurrent evaluations.  Two mechanisms of    *)
(* internal/policy are modelled, selected by HotReload:                    *)
(*   "cache":  WatchingCache (cache.go).  A watcher goroutine polls the    *)
(*             policy file's mtime and swaps in a freshly built Engine     *)
(*             under c.mu; readers take c.Engine() once and evaluate on    *)
(*             that Engine, whose policy never changes.                    *)
(*   "engine": Engine.Reload (engine.go), which copies a new policy into  *)
(*             e.policy of the engine readers are using, with no lock: a   *)
(*             multi-word struct copy that a racing reader can see in any  *)
(*             mix of old and new words, a torn slice header included.     *)
(* Spec and FairSpec are the cache; ReloadSpec is Engine.Reload.           *)
(* Readers run Evaluate or EvaluateWithParams, split at each read of       *)
(* e.policy the code makes.  The file is rewritten by saves: a truncation  *)
(* (a file that does not parse) and then the new content.                  *)
(***************************************************************************)
EXTENDS PolicyEngine, FiniteSets

CONSTANTS
    Readers,       \* goroutines evaluating requests
    Callers,       \* caller identities of requests
    ParamSets,     \* params maps of requests
    PolicyFiles,   \* policies the file may hold
    HotReload,     \* "cache" or "engine"
    CoarseMTime,   \* two saves may get the same mtime
    MaxSaves       \* bound on saves of the file

ASSUME ReloadAssumption ==
    /\ Callers \subseteq Str
    /\ ParamSets \subseteq ParamMaps
    /\ PolicyFiles \subseteq Policies
    /\ HotReload \in {"cache", "engine"}
    /\ CoarseMTime \in BOOLEAN
    /\ MaxSaves \in Nat

\* The content of a file that json.Unmarshal rejects.
Bad == [bad |-> TRUE]

\* An inbound evaluation: EvaluateWithParams when withParams.
Requests ==
    [caller : Callers, tool : Tools, params : ParamSets, withParams : BOOLEAN]

VARIABLES
    file,      \* [pol, mtime]: the policy file on disk
    saves,     \* number of saves so far
    wst,       \* "idle" or "filling": the writer between truncate and fill
    cur,       \* c.engine: the policy of the Engine the cache hands out
    modTime,   \* c.modTime
    wpc,       \* watcher: "idle", or "stat" with the mtime it saw in seenTime
    seenTime,
    stopped,   \* c.stopCh closed
    epol,      \* e.policy of the engine Reload mutates, when no copy is running
    rl,        \* Reload: "idle", or "copy" while it copies staged into e.policy
    staged,
    rpc,       \* reader: "idle", "denied", "len", "scan", "rescan"
    req,       \* the request a reader evaluates
    view,      \* the policy of the Engine a reader took from c.Engine()
    dec,       \* the decision computed so far
    seen,      \* policies whose words the reader's engine held during the call
    last       \* the decision of the reader's last finished call, or Bad

vars == <<file, saves, wst, cur, modTime, wpc, seenTime, stopped, epol,
          rl, staged, rpc, req, view, dec, seen, last>>

\* The e.policy a reader's next read sees.
Held(p) == IF HotReload = "cache" THEN view[p] ELSE epol

Init ==
    /\ \E P \in PolicyFiles :
         /\ file = [pol |-> P, mtime |-> 0]
         /\ cur = P
         /\ epol = P
    /\ saves = 0
    /\ wst = "idle"
    /\ modTime = 0
    /\ wpc = "idle"
    /\ seenTime = 0
    /\ stopped = FALSE
    /\ rl = "idle"
    /\ staged = cur
    /\ rpc = [p \in Readers |-> "idle"]
    /\ req = [p \in Readers |-> CHOOSE r \in Requests : TRUE]
    /\ view = [p \in Readers |-> cur]
    /\ dec = [p \in Readers |-> Deny("no-grant")]
    /\ seen = [p \in Readers |-> {}]
    /\ last = [p \in Readers |-> Bad]

-----------------------------------------------------------------------------
(* The writer of the policy file. *)

\* A save truncates the file; with coarse timestamps it may keep the mtime.
Truncate ==
    /\ wst = "idle"
    /\ saves < MaxSaves
    /\ saves' = saves + 1
    /\ \E t \in IF CoarseMTime THEN {file.mtime, file.mtime + 1}
                               ELSE {file.mtime + 1} :
         file' = [pol |-> Bad, mtime |-> t]
    /\ wst' = "filling"
    /\ UNCHANGED <<cur, modTime, wpc, seenTime, stopped, epol, rl, staged,
                   rpc, req, view, dec, seen, last>>

\* The content is written within the same timestamp tick as the truncation.
Fill ==
    /\ wst = "filling"
    /\ \E P \in PolicyFiles : file' = [pol |-> P, mtime |-> file.mtime]
    /\ wst' = "idle"
    /\ UNCHANGED <<saves, cur, modTime, wpc, seenTime, stopped, epol, rl,
                   staged, rpc, req, view, dec, seen, last>>

-----------------------------------------------------------------------------
(* WatchingCache: watch() and checkReload(). *)

\* A tick: os.Stat, and the early return when the mtime is not After
\* c.modTime (that return changes nothing and is not a step).
WatchStat ==
    /\ HotReload = "cache"
    /\ ~stopped
    /\ wpc = "idle"
    /\ file.mtime > modTime
    /\ wpc' = "stat"
    /\ seenTime' = file.mtime
    /\ UNCHANGED <<file, saves, wst, cur, modTime, stopped, epol, rl, staged,
                   rpc, req, view, dec, seen, last>>

\* Mutant of WatchLoad: c.modTime is advanced even when the parse fails.
WatchLoadRecordsFailure ==
    /\ wpc = "stat"
    /\ wpc' = "idle"
    /\ modTime' = seenTime
    /\ IF file.pol = Bad THEN UNCHANGED cur ELSE cur' = file.pol
    /\ UNCHANGED <<file, saves, wst, seenTime, stopped, epol, rl, staged,
                   rpc, req, view, dec, seen, last>>

\* Under c.mu: NewEngine reads the file as it is now; on a parse error the
\* engine and c.modTime are kept; otherwise both are replaced, c.modTime by
\* the mtime the earlier Stat returned.
WatchLoad ==
    /\ wpc = "stat"
    /\ wpc' = "idle"
    /\ IF file.pol = Bad
         THEN UNCHANGED <<cur, modTime>>
         ELSE cur' = file.pol /\ modTime' = seenTime
    /\ UNCHANGED <<file, saves, wst, seenTime, stopped, epol, rl, staged,
                   rpc, req, view, dec, seen, last>>

\* WatchingCache.Stop: the watcher leaves its loop at the next select.
StopCache ==
    /\ HotReload = "cache"
    /\ ~stopped
    /\ stopped' = TRUE
    /\ UNCHANGED <<file, saves, wst, cur, modTime, wpc, seenTime, epol, rl,
                   staged, rpc, req, view, dec, seen, last>>

-----------------------------------------------------------------------------
(* Engine.Reload(path): NewEngine, then e.policy = newEngine.policy.  The  *)
(* assignment copies two slice headers (pointer and length each) and the  *)
(* version with no lock and in no order Go promises; a reader that reads   *)
(* a header while the copy runs may get the old or the new pointer with   *)
(* the old or the new length.                                              *)

\* The shorter of two lengths.
Shorter(m, n) == IF m <= n THEN m ELSE n

\* The grants a racing range over e.policy.Grants may see: a whole header,
\* or the pointer of one slice with the length of the other.  Elements read
\* past a slice's own length are zero Grants, which match no call.
TornSlices(old, new) ==
    { old, new,
      SubSeq(old, 1, Shorter(Len(old), Len(new))),
      SubSeq(new, 1, Shorter(Len(old), Len(new))) }

\* The same for e.policy.Denied.  A denied list is a set here, and the file
\* may list it in any order, so the first k names of the array are any k of
\* them.
TornSets(old, new) ==
    LET k == Shorter(Cardinality(old), Cardinality(new))
    IN  {old, new} \cup {D \in SUBSET old : Cardinality(D) = k}
                   \cup {D \in SUBSET new : Cardinality(D) = k}

\* NewEngine succeeds (a file that does not parse makes Reload return its
\* error with e.policy untouched) and the copy begins: from now on a reader
\* in a call may see words of staged.
ReloadRead ==
    /\ HotReload = "engine"
    /\ rl = "idle"
    /\ file.pol # Bad
    /\ rl' = "copy"
    /\ staged' = file.pol
    /\ seen' = [p \in Readers |->
                  IF rpc[p] = "idle" THEN seen[p] ELSE seen[p] \cup {file.pol}]
    /\ UNCHANGED <<file, saves, wst, cur, modTime, wpc, seenTime, stopped,
                   epol, rpc, req, view, dec, last>>

\* The copy completes and Reload returns: e.policy is staged.
ReloadCopy ==
    /\ rl = "copy"
    /\ epol' = staged
    /\ rl' = "idle"
    /\ UNCHANGED <<file, saves, wst, cur, modTime, wpc, seenTime, stopped,
                   staged, rpc, req, view, dec, seen, last>>

\* A copy is under way on the engine readers use.
Copying == HotReload = "engine" /\ rl = "copy"

\* What a reader's read of the e.policy.Denied header, of the length word
\* alone of e.policy.Grants (given as the slice whose length it is) and of
\* the e.policy.Grants header for a range may return.
DeniedReads(p) ==
    IF Copying THEN TornSets(epol.denied, staged.denied) ELSE {Held(p).denied}
LenReads(p) ==
    IF Copying THEN {epol.grants, staged.grants} ELSE {Held(p).grants}
GrantsReads(p) ==
    IF Copying THEN TornSlices(epol.grants, staged.grants)
    ELSE {Held(p).grants}

-----------------------------------------------------------------------------
(* A reader: Evaluate(caller, tool) or EvaluateWithParams(...). *)

\* The call starts: the middleware takes c.Engine() (under c.mu.RLock).
Begin(p) ==
    /\ rpc[p] = "idle"
    /\ \E r \in Requests : req' = [req EXCEPT ![p] = r]
    /\ view' = [view EXCEPT ![p] = cur]
    /\ seen' = [seen EXCEPT ![p] = IF HotReload = "cache" THEN {cur}
                                   ELSE IF rl = "copy" THEN {epol, staged}
                                   ELSE {epol}]
    /\ rpc' = [rpc EXCEPT ![p] = "denied"]
    /\ UNCHANGED <<file, saves, wst, cur, modTime, wpc, seenTime, stopped,
                   epol, rl, staged, dec, last>>

\* The call returns d.
Finish(p, d) ==
    /\ last' = [last EXCEPT ![p] = d]
    /\ rpc' = [rpc EXCEPT ![p] = "idle"]

\* The loop over e.policy.Denied.
ReadDenied(p) ==
    /\ rpc[p] = "denied"
    /\ \E D \in DeniedReads(p) :
         IF req[p].tool \in D
           THEN dec' = [dec EXCEPT ![p] = Deny("denied")]
                /\ Finish(p, Deny("denied"))
           ELSE rpc' = [rpc EXCEPT ![p] = "len"] /\ UNCHANGED <<dec, last>>
    /\ UNCHANGED <<file, saves, wst, cur, modTime, wpc, seenTime, stopped,
                   epol, rl, staged, req, view, seen>>

\* len(e.policy.Grants) == 0: default-allow.  EvaluateWithParams goes on to
\* its own loop over the grants.
ReadLen(p) ==
    /\ rpc[p] = "len"
    /\ LET d == [allowed |-> TRUE, reason |-> "default-allow", grant |-> 0,
                 param |-> {}]
       IN  \E gs \in LenReads(p) :
           IF gs = <<>>
             THEN /\ dec' = [dec EXCEPT ![p] = d]
                  /\ IF req[p].withParams
                       THEN rpc' = [rpc EXCEPT ![p] = "rescan"]
                            /\ UNCHANGED last
                       ELSE Finish(p, d)
             ELSE rpc' = [rpc EXCEPT ![p] = "scan"] /\ UNCHANGED <<dec, last>>
    /\ UNCHANGED <<file, saves, wst, cur, modTime, wpc, seenTime, stopped,
                   epol, rl, staged, req, view, seen>>

\* range e.policy.Grants: the first grant that allows, or deny.
ReadScan(p) ==
    /\ rpc[p] = "scan"
    /\ \E gs \in GrantsReads(p) :
         LET k == FirstAllowing(gs, req[p].caller, req[p].tool)
             d == IF k = 0 THEN Deny("no-grant")
                  ELSE [allowed |-> TRUE, reason |-> "granted", grant |-> k,
                        param |-> {}]
         IN  /\ dec' = [dec EXCEPT ![p] = d]
             /\ IF req[p].withParams /\ d.allowed
                  THEN rpc' = [rpc EXCEPT ![p] = "rescan"] /\ UNCHANGED last
                  ELSE Finish(p, d)
    /\ UNCHANGED <<file, saves, wst, cur, modTime, wpc, seenTime, stopped,
                   epol, rl, staged, req, view, seen>>

\* Mutant of ReadRescan: the second scan asks the cache for the engine
\* again instead of using the one the first scan used.
ReadRescanFresh(p) ==
    /\ rpc[p] = "rescan"
    /\ \E gs \in IF HotReload = "cache" THEN {cur.grants} ELSE GrantsReads(p) :
       \E d \in CheckParams(dec[p], gs, req[p].caller, req[p].tool,
                            req[p].params) :
         Finish(p, d)
    /\ UNCHANGED <<file, saves, wst, cur, modTime, wpc, seenTime, stopped,
                   epol, rl, staged, req, view, dec, seen>>

\* The second range over e.policy.Grants in EvaluateWithParams.
ReadRescan(p) ==
    /\ rpc[p] = "rescan"
    /\ \E gs \in GrantsReads(p) :
       \E d \in CheckParams(dec[p], gs, req[p].caller, req[p].tool,
                            req[p].params) :
         Finish(p, d)
    /\ UNCHANGED <<file, saves, wst, cur, modTime, wpc, seenTime, stopped,
                   epol, rl, staged, req, view, dec, seen>>

-----------------------------------------------------------------------------
\* A step of one reader.
ReaderStep ==
    \E p \in Readers :
        Begin(p) \/ ReadDenied(p) \/ ReadLen(p) \/ ReadScan(p) \/ ReadRescan(p)

\* WatchingCache: the readers take the engine from the cache.
Next ==
    \/ Truncate \/ Fill
    \/ WatchStat \/ WatchLoad \/ StopCache
    \/ ReaderStep

Spec == Init /\ [][Next]_vars

\* Engine.Reload on the engine the readers use.
ReloadNext ==
    \/ Truncate \/ Fill
    \/ ReloadRead \/ ReloadCopy
    \/ ReaderStep

ReloadSpec == Init /\ [][ReloadNext]_vars

\* The ticker fires every five seconds for as long as the watcher runs.
Fairness == WF_vars(WatchStat) /\ WF_vars(WatchLoad)

FairSpec == Spec /\ Fairness

-----------------------------------------------------------------------------
(***************************************************************************)
(* Properties.                                                             *)
(***************************************************************************)

\* What a call may return when its policy is p.
Outcomes(P, r) ==
    IF r.withParams THEN EvaluateWithParams(P, r.caller, r.tool, r.params)
    ELSE {Evaluate(P, r.caller, r.tool)}

\* Every finished evaluation returns what Evaluate or EvaluateWithParams
\* returns on one policy the engine held during the call: spec 5
\* promises readers never observe a partially updated policy, and the
\* reload must not land between the denied check and the grant scans.
SnapshotDecision ==
    \A p \in Readers :
        (rpc[p] = "idle" /\ last[p] # Bad) =>
            last[p] \in UNION {Outcomes(P, req[p]) : P \in seen[p]}

\* Denial stays absolute across an unlocked Engine.Reload (engine.go:78,
\* "absolute precedence"): a call never allows a tool that every policy the
\* engine held during the call denies, although its grants may change under
\* it.
DenialAbsolute ==
    \A p \in Readers :
        (rpc[p] = "idle" /\ last[p] # Bad /\ last[p].allowed) =>
            \E P \in seen[p] : req[p].tool \notin P.denied

\* Once the file holds a policy and is left alone, the cache eventually
\* hands out that policy: a failed parse of a half-written file, or a Stat
\* that raced a save, must not make the watcher miss the final content.
ReloadConverges ==
    \A P \in PolicyFiles :
        (file.pol = P /\ wst = "idle") ~> (cur = P \/ file.pol # P \/ stopped)

=============================================================================
