----------------------- MODULE ModerationOutboxProofs -----------------------
(* Proofs about ModerationOutbox, for any items, texts, workers and bounds.  *)
EXTENDS ModerationOutbox, FiniteSetTheorems, TLAPS

\* What a worker's point may be, by its `at`.
LEMMA PointShape ==
    ASSUME NEW p \in WorkerPoint
    PROVE  /\ p.at \in {"idle", "loaded", "unjudged", "calling", "returned", "finishing"}
           /\ p.at = "idle" <=> p = Idle
           /\ p # Idle => p.claim \in Claim
           /\ p.at = "returned" => p.outcome \in Outcomes
           /\ p.at = "finishing" => p.verdict \in Verdicts
  BY DEF WorkerPoint, Idle

LEMMA RowType ==
    ASSUME NEW s \in Status, NEW n \in Nat, NEW due \in BOOLEAN, NEW t \in Nat
    PROVE  Row(s, n, due, t) \in Job
  BY DEF Row, Job

LEMMA JobRewrites ==
    ASSUME NEW job \in Job
    PROVE  /\ \A s \in Status : Rest(job, s) \in Job
           /\ Queue(job) \in Job
           /\ Leased(job) \in Job
           /\ Expired(job) \in Job
           /\ \A v \in Verdicts : Recorded(job, v) \in Job
<1> DEFINE n == job.attempts
<1>1. n \in Nat /\ n + 1 \in Nat
  BY DEF Job
<1>2. \A s \in Status : Rest(job, s) \in Job
  BY <1>1, RowType DEF Rest
<1>3. {"queued", "leased", "outcome_unknown", "retry", "failed"} \subseteq Status
      /\ Verdicts \subseteq Status
  BY DEF Status, Waiting, Settled, Verdicts
<1>4. Queue(job) \in Job /\ Leased(job) \in Job
  BY <1>1, <1>3, RowType DEF Queue, Leased
<1>5. QED
  BY <1>2, <1>3, <1>4 DEF Expired, Recorded

LEMMA SourceHashType ==
    ASSUME TypeOK, NEW t \in Texts \cup {NoText}
    PROVE  SourceHash(t) \in Hashes \cup {NoHash}
  BY DEF TypeOK, SourceHash, Hashes

LEMMA EnqueueType ==
    ASSUME TypeOK, NEW i \in Items, NEW h, NEW complete
    PROVE  EnqueueCurrent(i, h, complete) \in [Identity -> Job]
  BY JobRewrites DEF TypeOK, EnqueueCurrent, Status, Waiting, Settled

LEMMA MoveToType ==
    ASSUME TypeOK, NEW w \in Workers, NEW p \in WorkerPoint, MoveTo(w, p)
    PROVE  worker' \in [Workers -> WorkerState]
  BY DEF TypeOK, MoveTo, WorkerState

\* The identity of an item's job for a source hash.
LEMMA IdentityOfType ==
    ASSUME TypeOK, NEW i \in Items, NEW h \in Hashes
    PROVE  IdentityOf(i, h) \in Identity
  BY DEF TypeOK, IdentityOf, Identity

\* What a worker that is not idle holds in its hand.
LEMMA ActiveClaim ==
    ASSUME TypeOK, NEW w \in Workers, worker[w].point # Idle
    PROVE  /\ worker[w].point \in WorkerPoint
           /\ worker[w].point.claim \in Claim
           /\ worker[w].point.claim.job \in Identity
           /\ worker[w].point.claim.job.item \in Items
<1>1. worker[w].point \in WorkerPoint
  BY DEF TypeOK, WorkerState
<1>2. worker[w].point.claim \in Claim
  BY <1>1, PointShape
<1>3. QED
  BY <1>1, <1>2 DEF Claim, Identity
-----------------------------------------------------------------------------
\* Type correctness, action by action.
LEMMA TypeInit == Init => TypeOK
<1> SUFFICES ASSUME Init PROVE TypeOK
  OBVIOUS
<1>1. Row("absent", 0, FALSE, 0) \in Job
  BY RowType DEF Status
<1>2. [backlog |-> {}, point |-> Idle] \in WorkerState
  BY DEF WorkerState, WorkerPoint
<1>3. [writes |-> MaxWrites, crashes |-> MaxCrashes, deploys |-> MaxDeploys]
        \in [writes : Nat, crashes : Nat, deploys : Nat]
  BY BoundsAssumption
<1>4. QED
  BY <1>1, <1>2, <1>3 DEF Init, TypeOK

LEMMA TypeWriters ==
    ASSUME TypeOK, NEW i \in Items
    PROVE  /\ \A t \in Texts \cup {NoText}, complete \in BOOLEAN :
                WriteDetail(i, t, complete) => TypeOK'
           /\ RehashDetail(i) => TypeOK'
           /\ ClassifyManually(i) => TypeOK'
           /\ ResolveRead(i) => TypeOK'
<1>1. ASSUME NEW t \in Texts \cup {NoText}, NEW complete \in BOOLEAN,
             WriteDetail(i, t, complete)
      PROVE  TypeOK'
  <2>1. SourceHash(t) \in Hashes \cup {NoHash}
    BY SourceHashType
  <2>2. jobs' \in [Identity -> Job]
    BY <1>1, EnqueueType DEF WriteDetail
  <2>3. budget' \in [writes : Nat, crashes : Nat, deploys : Nat]
    BY <1>1 DEF WriteDetail, TypeOK
  <2>4. QED
    BY <1>1, <2>1, <2>2, <2>3 DEF WriteDetail, TypeOK
<1>2. ASSUME RehashDetail(i) PROVE TypeOK'
  <2>1. SourceHash(text[i]) \in Hashes \cup {NoHash}
    BY SourceHashType DEF TypeOK
  <2>2. QED
    BY <1>2, <2>1 DEF RehashDetail, TypeOK
<1>3. ASSUME ClassifyManually(i) PROVE TypeOK'
  <2>1. SourceHash(text[i]) \in Hashes
    BY <1>3 DEF ClassifyManually, SourceHash, Hashes, TypeOK
  <2>2. IdentityOf(i, SourceHash(text[i])) \in Identity
    BY <2>1, IdentityOfType
  <2>3. QED
    BY <1>3, <2>2 DEF ClassifyManually, TypeOK
<1>4. ASSUME ResolveRead(i) PROVE TypeOK'
  BY <1>4 DEF ResolveRead, TypeOK
<1>5. QED
  BY <1>1, <1>2, <1>3, <1>4

LEMMA TypeResolveAdmit == ASSUME TypeOK, ResolveAdmit PROVE TypeOK'
<1>1. IdentityOf(snapshot.item, snapshot.hash) \in Identity
  BY IdentityOfType DEF ResolveAdmit, TypeOK
<1>2. jobs' \in [Identity -> Job]
  <2> DEFINE j == IdentityOf(snapshot.item, snapshot.hash)
  <2>1. jobs' = jobs \/ jobs' = [jobs EXCEPT ![j] = Queue(jobs[j])]
    BY DEF ResolveAdmit
  <2>2. Queue(jobs[j]) \in Job
    BY <1>1, JobRewrites DEF TypeOK
  <2> HIDE DEF j
  <2>3. QED
    BY <2>1, <2>2 DEF TypeOK
<1>3. /\ snapshot' = NoSnapshot
      /\ UNCHANGED <<text, current, judged, worker, enabled, revision,
                     lost, timedOut, budget>>
  BY DEF ResolveAdmit
<1>4. QED
  BY <1>2, <1>3 DEF TypeOK

LEMMA TypeClocks ==
    ASSUME TypeOK, NEW j \in Identity, BackoffEnds(j) \/ LeaseLapses(j)
    PROVE  TypeOK'
<1>1. \A job \in Job : /\ [job EXCEPT !.due = TRUE] \in Job
                       /\ [job EXCEPT !.lapsed = TRUE] \in Job
  BY DEF Job
<1>2. PICK job \in Job : jobs' = [jobs EXCEPT ![j] = job]
  <2>1. CASE BackoffEnds(j)
    BY <1>1, <2>1 DEF BackoffEnds, TypeOK
  <2>2. CASE LeaseLapses(j)
    BY <1>1, <2>2 DEF LeaseLapses, TypeOK
  <2>3. QED
    BY <2>1, <2>2
<1>3. UNCHANGED <<text, current, judged, worker, snapshot, enabled, revision,
                  lost, timedOut, budget>>
  BY DEF BackoffEnds, LeaseLapses
<1>4. QED
  BY <1>2, <1>3 DEF TypeOK

LEMMA TypeStartBatch ==
    ASSUME TypeOK, NEW w \in Workers, StartBatch(w)
    PROVE  TypeOK'
<1>1. PICK S \in SUBSET Ready :
        /\ jobs' = [j \in Identity |->
              IF j \in Lapsed THEN Expired(jobs[j])
              ELSE IF j \in S THEN Leased(jobs[j]) ELSE jobs[j]]
        /\ worker' = [worker EXCEPT ![w].backlog =
              {[job |-> j, token |-> jobs[j].attempts + 1] : j \in S}]
  BY DEF StartBatch
<1>2. jobs' \in [Identity -> Job]
  BY <1>1, JobRewrites DEF TypeOK
<1>3. {[job |-> j, token |-> jobs[j].attempts + 1] : j \in S} \subseteq Claim
  BY DEF Ready, Claim, TypeOK, Job
<1>4. worker' \in [Workers -> WorkerState]
  BY <1>1, <1>3 DEF TypeOK, WorkerState
<1>5. QED
  BY <1>2, <1>4 DEF StartBatch, TypeOK

LEMMA TypeProcessClaim ==
    ASSUME TypeOK, NEW w \in Workers
    PROVE  /\ LoadClaim(w) => TypeOK'
           /\ CheckSuccess(w) => TypeOK'
           /\ SendRequest(w) => TypeOK'
           /\ ReceiveResult(w) => TypeOK'
           /\ ClassifierRaises(w) => TypeOK'
           /\ RecheckSource(w) => TypeOK'
           /\ FinishClaim(w) => TypeOK'
<1> DEFINE p == worker[w].point
<1>a. Idle.at = "idle"
  BY DEF Idle
<1>b. /\ \A c \in Claim, a \in {"loaded", "unjudged", "calling"} :
            [at |-> a, claim |-> c] \in WorkerPoint
      /\ \A c \in Claim, o \in Outcomes :
            [at |-> "returned", claim |-> c, outcome |-> o] \in WorkerPoint
      /\ \A c \in Claim, v \in Verdicts :
            [at |-> "finishing", claim |-> c, verdict |-> v] \in WorkerPoint
      /\ Idle \in WorkerPoint
  BY DEF WorkerPoint
<1>c. {"done", "superseded", "outcome_unknown"} \subseteq Verdicts
      /\ "skipped" \in Outcomes
      /\ \A o \in Outcomes : VerdictOf(o) \in Verdicts
  BY DEF Verdicts, Outcomes, VerdictOf
<1>1. ASSUME LoadClaim(w) PROVE TypeOK'
  <2>1. PICK c \in worker[w].backlog :
          worker' = [worker EXCEPT ![w] =
           [backlog |-> worker[w].backlog \ {c},
            point |-> IF ~Holds(c) THEN Idle
                      ELSE IF ~IsCurrent(c.job)
                        THEN [at |-> "finishing", claim |-> c, verdict |-> "superseded"]
                      ELSE [at |-> "loaded", claim |-> c]]]
    BY <1>1 DEF LoadClaim
  <2>2. worker[w].backlog \subseteq Claim
    BY DEF TypeOK, WorkerState
  <2>3. worker' \in [Workers -> WorkerState]
    BY <2>1, <2>2, <1>b, <1>c DEF TypeOK, WorkerState
  <2>4. QED
    BY <1>1, <2>3 DEF LoadClaim, TypeOK
<1>2. ASSUME CheckSuccess(w) PROVE TypeOK'
  <2>1. p.claim \in Claim
    BY <1>2, <1>a, ActiveClaim DEF CheckSuccess
  <2>2. worker' \in [Workers -> WorkerState]
    BY <1>2, <2>1, <1>b, <1>c, MoveToType DEF CheckSuccess
  <2>3. QED
    BY <1>2, <2>2 DEF CheckSuccess, TypeOK
<1>3. ASSUME SendRequest(w) PROVE TypeOK'
  <2>1. p.claim \in Claim
    BY <1>3, <1>a, ActiveClaim DEF SendRequest
  <2>2. worker' \in [Workers -> WorkerState]
    BY <1>3, <2>1, <1>b, <1>c, MoveToType DEF SendRequest
  <2>3. QED
    BY <1>3, <2>2 DEF SendRequest, TypeOK
<1>4. ASSUME ReceiveResult(w) PROVE TypeOK'
  <2>1. p.claim \in Claim /\ p.claim.job \in Identity
    BY <1>4, <1>a, ActiveClaim DEF ReceiveResult
  <2>2. worker' \in [Workers -> WorkerState]
    BY <1>4, <2>1, <1>b, MoveToType DEF ReceiveResult
  <2>3. QED
    BY <1>4, <2>1, <2>2 DEF ReceiveResult, TypeOK
<1>5. ASSUME ClassifierRaises(w) PROVE TypeOK'
  <2>1. p.claim \in Claim /\ p.claim.job \in Identity
    BY <1>5, <1>a, ActiveClaim DEF ClassifierRaises
  <2>2. worker' \in [Workers -> WorkerState]
    BY <1>5, <2>1, <1>b, <1>c, MoveToType DEF ClassifierRaises
  <2>3. QED
    BY <1>5, <2>1, <2>2 DEF ClassifierRaises, TypeOK
<1>6. ASSUME RecheckSource(w) PROVE TypeOK'
  <2>1. p.claim \in Claim /\ p.outcome \in Outcomes
    BY <1>6, <1>a, ActiveClaim, PointShape DEF RecheckSource
  <2>2. worker' \in [Workers -> WorkerState]
    BY <1>6, <2>1, <1>b, <1>c, MoveToType DEF RecheckSource
  <2>3. QED
    BY <1>6, <2>2 DEF RecheckSource, TypeOK
<1>7. ASSUME FinishClaim(w) PROVE TypeOK'
  <2>1. p.claim.job \in Identity /\ p.verdict \in Verdicts
    BY <1>7, <1>a, ActiveClaim, PointShape DEF FinishClaim
  <2>2. Recorded(jobs[p.claim.job], p.verdict) \in Job
    BY <2>1, JobRewrites DEF TypeOK
  <2>3. jobs' \in [Identity -> Job]
    BY <1>7, <2>1, <2>2 DEF FinishClaim, TypeOK
  <2>4. worker' \in [Workers -> WorkerState]
    BY <1>7, <1>b, MoveToType DEF FinishClaim
  <2>5. QED
    BY <1>7, <2>3, <2>4 DEF FinishClaim, TypeOK
<1>8. QED
  BY <1>1, <1>2, <1>3, <1>4, <1>5, <1>6, <1>7

LEMMA InFlightType ==
    ASSUME TypeOK, NEW W \in SUBSET Workers
    PROVE  InFlight(W) \subseteq Identity
<1> SUFFICES ASSUME NEW w \in W, worker[w].point.at \in {"calling", "returned"}
             PROVE  worker[w].point.claim.job \in Identity
  BY DEF InFlight
<1>1. worker[w].point # Idle
  BY DEF Idle
<1>2. QED
  BY <1>1, ActiveClaim

LEMMA TypeFailures ==
    ASSUME TypeOK
    PROVE  /\ \A w \in Workers : Crash(w) => TypeOK'
           /\ \A on \in BOOLEAN, rev \in Revisions : Deploy(on, rev) => TypeOK'
<1>a. [backlog |-> {}, point |-> Idle] \in WorkerState
  BY DEF WorkerState, WorkerPoint
<1>1. ASSUME NEW w \in Workers, Crash(w) PROVE TypeOK'
  <2>1. lost' \subseteq Identity
    BY <1>1, InFlightType DEF Crash, TypeOK
  <2>2. worker' \in [Workers -> WorkerState]
    BY <1>1, <1>a DEF Crash, TypeOK
  <2>3. budget' \in [writes : Nat, crashes : Nat, deploys : Nat]
    BY <1>1 DEF Crash, TypeOK
  <2>4. QED
    BY <1>1, <2>1, <2>2, <2>3 DEF Crash, TypeOK
<1>2. ASSUME NEW on \in BOOLEAN, NEW rev \in Revisions, Deploy(on, rev) PROVE TypeOK'
  <2>1. lost' \subseteq Identity
    BY <1>2, InFlightType DEF Deploy, TypeOK
  <2>2. worker' \in [Workers -> WorkerState]
    BY <1>2, <1>a DEF Deploy
  <2>3. budget' \in [writes : Nat, crashes : Nat, deploys : Nat]
    BY <1>2 DEF Deploy, TypeOK
  <2>4. QED
    BY <1>2, <2>1, <2>2, <2>3 DEF Deploy, TypeOK
<1>3. QED
  BY <1>1, <1>2

LEMMA TypeStep == TypeOK /\ [Next]_vars => TypeOK'
<1> SUFFICES ASSUME TypeOK, [Next]_vars PROVE TypeOK'
  OBVIOUS
<1>1. CASE UNCHANGED vars
  BY <1>1 DEF vars, TypeOK
<1>2. CASE Next
  <2>1. ASSUME NEW w \in Workers, WorkerStep(w) PROVE TypeOK'
    BY <2>1, TypeStartBatch, TypeProcessClaim DEF WorkerStep
  <2>2. ASSUME NEW i \in Items, NEW t \in Texts \cup {NoText}, NEW complete \in BOOLEAN,
               WriteDetail(i, t, complete)
        PROVE  TypeOK'
    BY <2>2, TypeWriters
  <2>3. ASSUME NEW i \in Items, RehashDetail(i) \/ ClassifyManually(i) \/ ResolveRead(i)
        PROVE  TypeOK'
    BY <2>3, TypeWriters
  <2>4. ASSUME ResolveAdmit PROVE TypeOK'
    BY <2>4, TypeResolveAdmit
  <2>5. ASSUME NEW j \in Identity, BackoffEnds(j) \/ LeaseLapses(j) PROVE TypeOK'
    BY <2>5, TypeClocks
  <2>6. ASSUME NEW w \in Workers, Crash(w) PROVE TypeOK'
    BY <2>6, TypeFailures
  <2>7. ASSUME NEW on \in BOOLEAN, NEW rev \in Revisions, Deploy(on, rev) PROVE TypeOK'
    BY <2>7, TypeFailures
  <2>8. QED
    BY <1>2, <2>1, <2>2, <2>3, <2>4, <2>5, <2>6, <2>7 DEF Next
<1>3. QED
  BY <1>1, <1>2

\* Every variable keeps its type, whatever the interleaving of writers, resolver
\* requests, workers, crashes and deployments.
THEOREM TypeCorrect == Spec => []TypeOK
  BY TypeInit, TypeStep, PTL DEF Spec
-----------------------------------------------------------------------------
(* Nobody shares a job, and a job taken away from its holder is unknown.     *)
(*                                                                           *)
(* SoleClaimant and FencedOutIsUnknown hold each other up: a row that may be *)
(* leased is waiting, so by FencedOutIsUnknown no worker remembers a claim   *)
(* of it, and a worker that finishes a job it holds is, by SoleClaimant, the *)
(* only one that could be fenced out by that.  HandIsNotPending says that    *)
(* the claim in hand has left the backlog.                                   *)

HandIsNotPending ==
    \A w \in Workers :
      worker[w].point # Idle => worker[w].point.claim \notin worker[w].backlog

ClaimInv == TypeOK /\ SoleClaimant /\ FencedOutIsUnknown /\ HandIsNotPending

\* A step that gives no worker a new claim and rewrites no leased or unknown row.
ClaimsShrink == \A w \in Workers : Claims(w)' \subseteq Claims(w)
LeasesKept ==
    \A j \in Identity :
      jobs[j].status \in {"leased", "outcome_unknown"} =>
        jobs'[j].status = jobs[j].status /\ jobs'[j].token = jobs[j].token

LEMMA ClaimsType ==
    ASSUME TypeOK, NEW w \in Workers, NEW c \in Claims(w)
    PROVE  c \in Claim /\ c.job \in Identity
<1>1. c \in Claim
  BY ActiveClaim DEF Claims, TypeOK, WorkerState
<1>2. QED
  BY <1>1 DEF Claim

LEMMA QuietStep ==
    ASSUME ClaimInv, ClaimsShrink, LeasesKept
    PROVE  SoleClaimant' /\ FencedOutIsUnknown'
<1>1. SoleClaimant'
  BY DEF ClaimInv, ClaimsShrink, SoleClaimant
<1>2. ASSUME NEW w \in Workers, NEW c \in Claims(w)', ~Holds(c)'
      PROVE  jobs'[c.job].status = "outcome_unknown"
  <2>1. c \in Claims(w) /\ c.job \in Identity
    BY ClaimsType DEF ClaimInv, ClaimsShrink
  <2>2. CASE Holds(c)
    BY <1>2, <2>1, <2>2 DEF Holds, LeasesKept
  <2>3. CASE ~Holds(c)
    BY <2>1, <2>3 DEF ClaimInv, FencedOutIsUnknown, LeasesKept
  <2>4. QED
    BY <2>2, <2>3
<1>3. QED
  BY <1>1, <1>2 DEF FencedOutIsUnknown

\* How a worker's claims follow its moves.
LEMMA MoveKeepsClaims ==
    ASSUME TypeOK, NEW w \in Workers, worker[w].point # Idle, HandIsNotPending,
           NEW p, MoveTo(w, p), p = Idle \/ (p # Idle /\ p.claim = worker[w].point.claim)
    PROVE  ClaimsShrink /\ HandIsNotPending'
<1>1. /\ worker'[w].point = p /\ worker'[w].backlog = worker[w].backlog
      /\ \A v \in Workers \ {w} : worker'[v] = worker[v]
  BY DEF MoveTo, TypeOK, WorkerState
<1>2. QED
  BY <1>1 DEF ClaimsShrink, Claims, HandIsNotPending

LEMMA SameWorkers ==
    ASSUME UNCHANGED worker, HandIsNotPending
    PROVE  ClaimsShrink /\ HandIsNotPending'
  BY DEF ClaimsShrink, Claims, HandIsNotPending

LEMMA RowStatus ==
    ASSUME NEW job
    PROVE  /\ \A s : Rest(job, s).status = s
           /\ Queue(job).status = "queued"
           /\ Leased(job).status = "leased"
           /\ Leased(job).token = job.attempts + 1
           /\ Expired(job).status = "outcome_unknown"
           /\ \A v : Recorded(job, v).status \in {v, "failed"}
  BY DEF Rest, Queue, Leased, Expired, Recorded, Row

LEMMA EnqueueKeepsLeases ==
    ASSUME TypeOK, NEW i, NEW h, NEW complete, jobs' = EnqueueCurrent(i, h, complete)
    PROVE  LeasesKept
  BY DEF EnqueueCurrent, Obsolete, Revivable, Waiting, LeasesKept

LEMMA ClaimWriters ==
    ASSUME ClaimInv
    PROVE  /\ \A i \in Items, t \in Texts \cup {NoText}, complete \in BOOLEAN :
                WriteDetail(i, t, complete) => ClaimInv'
           /\ \A i \in Items : RehashDetail(i) => ClaimInv'
           /\ \A i \in Items : ClassifyManually(i) => ClaimInv'
           /\ \A i \in Items : ResolveRead(i) => ClaimInv'
           /\ ResolveAdmit => ClaimInv'
<1>1. ASSUME UNCHANGED worker, LeasesKept, TypeOK' PROVE ClaimInv'
  BY <1>1, SameWorkers, QuietStep DEF ClaimInv
<1>2. ASSUME UNCHANGED jobs PROVE LeasesKept
  BY <1>2 DEF LeasesKept
<1>3. ASSUME NEW i \in Items, NEW t \in Texts \cup {NoText}, NEW complete \in BOOLEAN,
             WriteDetail(i, t, complete)
      PROVE  ClaimInv'
  <2>1. LeasesKept
    BY <1>3, EnqueueKeepsLeases DEF WriteDetail, ClaimInv
  <2>2. UNCHANGED worker
    BY <1>3 DEF WriteDetail
  <2>3. TypeOK'
    BY <1>3, TypeWriters DEF ClaimInv
  <2>4. QED
    BY <1>1, <2>1, <2>2, <2>3
<1>4. ASSUME NEW i \in Items, RehashDetail(i) \/ ClassifyManually(i) \/ ResolveRead(i)
      PROVE  ClaimInv'
  <2>1. UNCHANGED <<jobs, worker>>
    BY <1>4 DEF RehashDetail, ClassifyManually, ResolveRead
  <2>2. TypeOK'
    BY <1>4, TypeWriters DEF ClaimInv
  <2>3. QED
    BY <1>1, <1>2, <2>1, <2>2
<1>5. ASSUME ResolveAdmit PROVE ClaimInv'
  <2> DEFINE mine == IdentityOf(snapshot.item, snapshot.hash)
  <2>1. mine \in Identity
    BY <1>5, IdentityOfType DEF ResolveAdmit, ClaimInv, TypeOK
  <2>2. jobs' = jobs \/ /\ jobs[mine].status = "absent"
                        /\ jobs' = [jobs EXCEPT ![mine] = Queue(jobs[mine])]
    BY <1>5 DEF ResolveAdmit
  <2> HIDE DEF mine
  <2>3. LeasesKept
    BY <2>1, <2>2 DEF LeasesKept, ClaimInv, TypeOK
  <2>4. UNCHANGED worker /\ TypeOK'
    BY <1>5, TypeResolveAdmit DEF ResolveAdmit, ClaimInv
  <2>5. QED
    BY <1>1, <2>3, <2>4
<1>6. QED
  BY <1>3, <1>4, <1>5

LEMMA ClaimClocks ==
    ASSUME ClaimInv, NEW j \in Identity, BackoffEnds(j) \/ LeaseLapses(j)
    PROVE  ClaimInv'
<1>1. LeasesKept
  <2>1. CASE BackoffEnds(j)
    BY <2>1 DEF BackoffEnds, LeasesKept, ClaimInv, TypeOK, Job
  <2>2. CASE LeaseLapses(j)
    BY <2>2 DEF LeaseLapses, LeasesKept, ClaimInv, TypeOK, Job
  <2>3. QED
    BY <2>1, <2>2
<1>2. UNCHANGED worker
  BY DEF BackoffEnds, LeaseLapses
<1>3. QED
  BY <1>1, <1>2, TypeClocks, SameWorkers, QuietStep DEF ClaimInv

\* The crux: the rows StartBatch leases are in nobody's memory, and the rows it
\* expires become unknown.
LEMMA ClaimStartBatch ==
    ASSUME ClaimInv, NEW w \in Workers, StartBatch(w)
    PROVE  ClaimInv'
<1>1. PICK S \in SUBSET Ready :
        /\ jobs' = [j \in Identity |->
              IF j \in Lapsed THEN Expired(jobs[j])
              ELSE IF j \in S THEN Leased(jobs[j]) ELSE jobs[j]]
        /\ worker' = [worker EXCEPT ![w].backlog =
              {[job |-> j, token |-> jobs[j].attempts + 1] : j \in S}]
  BY DEF StartBatch
<1>2. worker[w] = [backlog |-> {}, point |-> Idle]
  BY DEF StartBatch
<1> DEFINE New == {[job |-> j, token |-> jobs[j].attempts + 1] : j \in S}
<1>3. /\ Claims(w)' = New
      /\ \A v \in Workers \ {w} : Claims(v)' = Claims(v)
  BY <1>1, <1>2 DEF Claims, ClaimInv, TypeOK, WorkerState
<1>4. \A v \in Workers : \A c \in Claims(v) : c.job \notin Ready
  BY DEF ClaimInv, FencedOutIsUnknown, Holds, Ready, Waiting
<1>5. \A c, d \in New : /\ c.job \in S
                        /\ c.job = d.job => c = d
  OBVIOUS
<1>6. SoleClaimant'
  BY <1>3, <1>4, <1>5 DEF SoleClaimant, ClaimInv
<1>7. FencedOutIsUnknown'
  <2>1. ASSUME NEW v \in Workers, NEW c \in Claims(v)', ~Holds(c)'
        PROVE  jobs'[c.job].status = "outcome_unknown"
    <3>1. CASE c \in New
      <4>1. PICK j \in S : c = [job |-> j, token |-> jobs[j].attempts + 1]
        BY <3>1
      <4>2. j \in Identity /\ j \notin Lapsed
        BY DEF Ready, Lapsed, Waiting
      <4>3. jobs'[j] = Leased(jobs[j])
        BY <1>1, <4>2
      <4>4. Holds(c)'
        BY <4>1, <4>3, RowStatus DEF Holds
      <4>5. QED
        BY <2>1, <4>4
    <3>2. CASE c \in Claims(v)
      <4>1. c.job \in Identity /\ c.job \notin S
        BY <3>2, <1>4, ClaimsType DEF ClaimInv
      <4>2. CASE c.job \in Lapsed
        BY <1>1, <4>1, <4>2, RowStatus
      <4>3. CASE c.job \notin Lapsed
        <5>1. jobs'[c.job] = jobs[c.job]
          BY <1>1, <4>1, <4>3
        <5>2. QED
          BY <2>1, <3>2, <5>1 DEF Holds, ClaimInv, FencedOutIsUnknown
      <4>4. QED
        BY <4>2, <4>3
    <3>3. QED
      BY <1>3, <2>1, <3>1, <3>2
  <2>2. QED
    BY <2>1 DEF FencedOutIsUnknown
<1>8. HandIsNotPending'
  BY <1>1, <1>2 DEF HandIsNotPending, ClaimInv, TypeOK, WorkerState
<1>9. QED
  BY <1>6, <1>7, <1>8, TypeStartBatch DEF ClaimInv

\* The steps of process_claim that write no row.
ReadsOnly(w) == \/ CheckSuccess(w) \/ SendRequest(w) \/ ReceiveResult(w)
                \/ ClassifierRaises(w) \/ RecheckSource(w)

\* Whatever the source has become, the claim stays with the worker.
LEMMA SendMoves ==
    ASSUME NEW w \in Workers, SendRequest(w)
    PROVE  /\ UNCHANGED jobs /\ worker[w].point.at = "unjudged"
           /\ \E q : MoveTo(w, q) /\ q # Idle /\ q.claim = worker[w].point.claim
<1> DEFINE c == worker[w].point.claim
           h == SourceHash(text[c.job.item])
<1>1. UNCHANGED jobs /\ worker[w].point.at = "unjudged"
  BY DEF SendRequest
<1>2. CASE h = NoHash
  <2>1. MoveTo(w, [at |-> "returned", claim |-> c, outcome |-> "skipped"])
    BY <1>2 DEF SendRequest
  <2>2. QED
    BY <1>1, <2>1 DEF Idle
<1>3. CASE h # NoHash /\ h # c.job.hash
  <2>1. MoveTo(w, [at |-> "finishing", claim |-> c, verdict |-> "superseded"])
    BY <1>3 DEF SendRequest
  <2>2. QED
    BY <1>1, <2>1 DEF Idle
<1>4. CASE h # NoHash /\ h = c.job.hash
  <2>1. MoveTo(w, [at |-> "calling", claim |-> c])
    BY <1>4 DEF SendRequest
  <2>2. QED
    BY <1>1, <2>1 DEF Idle
<1>5. QED
  BY <1>2, <1>3, <1>4

LEMMA ReadsOnlyMoves ==
    ASSUME TypeOK, NEW w \in Workers, ReadsOnly(w)
    PROVE  /\ UNCHANGED jobs
           /\ worker[w].point # Idle
           /\ \E p : /\ MoveTo(w, p)
                     /\ p # Idle
                     /\ p.claim = worker[w].point.claim
           /\ TypeOK'
<1>1. UNCHANGED jobs /\ worker[w].point # Idle
  <2>1. CASE CheckSuccess(w)
    BY <2>1 DEF CheckSuccess, Idle
  <2>2. CASE SendRequest(w)
    BY <2>2, SendMoves DEF Idle
  <2>3. CASE ReceiveResult(w)
    BY <2>3 DEF ReceiveResult, Idle
  <2>4. CASE ClassifierRaises(w)
    BY <2>4 DEF ClassifierRaises, Idle
  <2>5. CASE RecheckSource(w)
    BY <2>5 DEF RecheckSource, Idle
  <2>6. QED
    BY <2>1, <2>2, <2>3, <2>4, <2>5 DEF ReadsOnly
<1>2. \E p : MoveTo(w, p) /\ p # Idle /\ p.claim = worker[w].point.claim
  <2>1. CASE CheckSuccess(w)
    BY <2>1 DEF CheckSuccess, Idle
  <2>2. CASE SendRequest(w)
    BY <2>2, SendMoves
  <2>3. CASE ReceiveResult(w)
    BY <2>3 DEF ReceiveResult, Idle
  <2>4. CASE ClassifierRaises(w)
    BY <2>4 DEF ClassifierRaises, Idle
  <2>5. CASE RecheckSource(w)
    BY <2>5 DEF RecheckSource, Idle
  <2>6. QED
    BY <2>1, <2>2, <2>3, <2>4, <2>5 DEF ReadsOnly
<1>3. TypeOK'
  BY TypeProcessClaim DEF ReadsOnly
<1>4. QED
  BY <1>1, <1>2, <1>3

LEMMA ClaimReadsOnly ==
    ASSUME ClaimInv, NEW w \in Workers, ReadsOnly(w)
    PROVE  ClaimInv'
<1>1. /\ UNCHANGED jobs /\ TypeOK' /\ worker[w].point # Idle
      /\ \E p : MoveTo(w, p) /\ p # Idle /\ p.claim = worker[w].point.claim
  BY ReadsOnlyMoves DEF ClaimInv
<1>2. ClaimsShrink /\ HandIsNotPending'
  BY <1>1, MoveKeepsClaims DEF ClaimInv
<1>3. LeasesKept
  BY <1>1 DEF LeasesKept
<1>4. QED
  BY <1>1, <1>2, <1>3, QuietStep DEF ClaimInv

LEMMA ClaimLoad ==
    ASSUME ClaimInv, NEW w \in Workers, LoadClaim(w)
    PROVE  ClaimInv'
<1>1. PICK c \in worker[w].backlog :
        worker' = [worker EXCEPT ![w] =
         [backlog |-> worker[w].backlog \ {c},
          point |-> IF ~Holds(c) THEN Idle
                    ELSE IF ~IsCurrent(c.job)
                      THEN [at |-> "finishing", claim |-> c, verdict |-> "superseded"]
                    ELSE [at |-> "loaded", claim |-> c]]]
  BY DEF LoadClaim
<1>2. /\ worker'[w].backlog = worker[w].backlog \ {c}
      /\ worker'[w].point = Idle \/ worker'[w].point.claim = c
      /\ \A v \in Workers \ {w} : worker'[v] = worker[v]
  BY <1>1 DEF ClaimInv, TypeOK
<1>3. ClaimsShrink /\ HandIsNotPending'
  BY <1>2 DEF ClaimsShrink, HandIsNotPending, ClaimInv, Claims
<1>4. LeasesKept
  BY DEF LoadClaim, LeasesKept
<1>5. QED
  BY <1>3, <1>4, QuietStep, TypeProcessClaim DEF ClaimInv

\* A holder that finishes is the only one that remembers the job.
LEMMA ClaimFinish ==
    ASSUME ClaimInv, NEW w \in Workers, FinishClaim(w)
    PROVE  ClaimInv'
<1> DEFINE mine == worker[w].point.claim
<1>1. worker[w].point # Idle /\ MoveTo(w, Idle)
  BY DEF FinishClaim, Idle
<1>2. ClaimsShrink /\ HandIsNotPending'
  BY <1>1, MoveKeepsClaims DEF ClaimInv
<1>3. TypeOK'
  BY TypeProcessClaim DEF ClaimInv
<1>4. CASE ~Holds(mine)
  <2>1. LeasesKept
    BY <1>4 DEF FinishClaim, LeasesKept
  <2>2. QED
    BY <1>2, <1>3, <2>1, QuietStep DEF ClaimInv
<1>5. CASE Holds(mine)
  <2>1. mine \in Claims(w) /\ mine.job \in Identity
    BY <1>1, ActiveClaim DEF Claims, ClaimInv
  <2>2. \A j \in Identity : j # mine.job => jobs'[j] = jobs[j]
    BY <1>5, <2>1 DEF FinishClaim, ClaimInv, TypeOK
  <2>3. \A v \in Workers : \A c \in Claims(v)' : c \in Claims(v) /\ c.job # mine.job
    <3>1. mine \notin Claims(w)'
      BY <1>1 DEF Claims, MoveTo, ClaimInv, HandIsNotPending, TypeOK, WorkerState
    <3>2. QED
      BY <3>1, <2>1, <1>2 DEF ClaimsShrink, ClaimInv, SoleClaimant
  <2>4. SoleClaimant'
    BY <2>3 DEF SoleClaimant, ClaimInv
  <2>5. FencedOutIsUnknown'
    <3>1. ASSUME NEW v \in Workers, NEW c \in Claims(v)', ~Holds(c)'
          PROVE  jobs'[c.job].status = "outcome_unknown"
      <4>1. c \in Claims(v) /\ jobs'[c.job] = jobs[c.job]
        BY <2>2, <2>3, ClaimsType DEF ClaimInv
      <4>2. QED
        BY <3>1, <4>1 DEF Holds, ClaimInv, FencedOutIsUnknown
    <3>2. QED
      BY <3>1 DEF FencedOutIsUnknown
  <2>6. QED
    BY <1>2, <1>3, <2>4, <2>5 DEF ClaimInv
<1>6. QED
  BY <1>4, <1>5

\* Processes that restart forget their claims.
LEMMA ClaimFailures ==
    ASSUME ClaimInv
    PROVE  /\ \A w \in Workers : Crash(w) => ClaimInv'
           /\ \A on \in BOOLEAN, rev \in Revisions : Deploy(on, rev) => ClaimInv'
<1>1. ASSUME NEW w \in Workers, Crash(w) PROVE ClaimInv'
  <2>1. ClaimsShrink /\ HandIsNotPending' /\ LeasesKept
    BY <1>1 DEF Crash, ClaimsShrink, HandIsNotPending, Claims, LeasesKept, ClaimInv,
                TypeOK
  <2>2. QED
    BY <1>1, <2>1, QuietStep, TypeFailures DEF ClaimInv
<1>2. ASSUME NEW on \in BOOLEAN, NEW rev \in Revisions, Deploy(on, rev) PROVE ClaimInv'
  <2>1. ClaimsShrink /\ HandIsNotPending' /\ LeasesKept
    BY <1>2 DEF Deploy, ClaimsShrink, HandIsNotPending, Claims, LeasesKept
  <2>2. QED
    BY <1>2, <2>1, QuietStep, TypeFailures DEF ClaimInv
<1>3. QED
  BY <1>1, <1>2

LEMMA ClaimInit == Init => ClaimInv
<1> SUFFICES ASSUME Init PROVE ClaimInv
  OBVIOUS
<1>1. \A w \in Workers : worker[w].point = Idle /\ Claims(w) = {}
  BY DEF Init, Claims
<1>2. QED
  BY <1>1, TypeInit DEF ClaimInv, SoleClaimant, FencedOutIsUnknown, HandIsNotPending

LEMMA ClaimStep == ClaimInv /\ [Next]_vars => ClaimInv'
<1> SUFFICES ASSUME ClaimInv, [Next]_vars PROVE ClaimInv'
  OBVIOUS
<1>1. CASE UNCHANGED vars
  <2>1. ClaimsShrink /\ HandIsNotPending' /\ LeasesKept
    BY <1>1, SameWorkers DEF vars, ClaimInv, LeasesKept
  <2>2. QED
    BY <1>1, <2>1, QuietStep, TypeStep DEF ClaimInv
<1>2. ASSUME NEW w \in Workers, WorkerStep(w) PROVE ClaimInv'
  BY <1>2, ClaimStartBatch, ClaimLoad, ClaimReadsOnly, ClaimFinish
     DEF WorkerStep, ReadsOnly
<1>3. ASSUME NEW w \in Workers, Crash(w) PROVE ClaimInv'
  BY <1>3, ClaimFailures
<1>4. ASSUME NEW on \in BOOLEAN, NEW rev \in Revisions, Deploy(on, rev) PROVE ClaimInv'
  BY <1>4, ClaimFailures
<1>5. ASSUME NEW j \in Identity, BackoffEnds(j) \/ LeaseLapses(j) PROVE ClaimInv'
  BY <1>5, ClaimClocks
<1>6. ASSUME ResolveAdmit PROVE ClaimInv'
  BY <1>6, ClaimWriters
<1>7. ASSUME NEW i \in Items, RehashDetail(i) \/ ClassifyManually(i) \/ ResolveRead(i)
      PROVE  ClaimInv'
  BY <1>7, ClaimWriters
<1>8. ASSUME NEW i \in Items, NEW t \in Texts \cup {NoText}, NEW complete \in BOOLEAN,
             WriteDetail(i, t, complete)
      PROVE  ClaimInv'
  BY <1>8, ClaimWriters
<1>9. QED
  BY <1>1, <1>2, <1>3, <1>4, <1>5, <1>6, <1>7, <1>8 DEF Next

\* No job is ever in two workers' hands, for any number of workers, any batch size
\* and any pattern of lapsed leases, crashes and deployments.
THEOREM OneHolder == Spec => []SoleClaimant
<1>1. ClaimInv => SoleClaimant
  BY DEF ClaimInv
<1>2. QED
  BY <1>1, ClaimInit, ClaimStep, PTL DEF Spec

\* A worker that lost its fence can only find its job in outcome_unknown.
THEOREM FenceLostIsUnknown == Spec => []FencedOutIsUnknown
<1>1. ClaimInv => FencedOutIsUnknown
  BY DEF ClaimInv
<1>2. QED
  BY <1>1, ClaimInit, ClaimStep, PTL DEF Spec
-----------------------------------------------------------------------------
(* Final statuses, and requests whose worker died.                           *)

LEMMA SettledStep == TypeOK /\ [Next]_vars => 
    [\A j \in Identity :
       jobs[j].status \in Settled => jobs'[j].status = jobs[j].status]_vars
<1> SUFFICES ASSUME TypeOK, Next, NEW j \in Identity, jobs[j].status \in Settled
             PROVE  jobs'[j].status = jobs[j].status
  OBVIOUS
<1>a. jobs[j].status \notin {"absent", "queued", "retry", "leased", "superseded"}
  BY DEF Settled
<1>1. ASSUME NEW i \in Items, NEW t \in Texts \cup {NoText}, NEW complete \in BOOLEAN,
             WriteDetail(i, t, complete)
      PROVE  jobs'[j].status = jobs[j].status
  BY <1>1, <1>a DEF WriteDetail, EnqueueCurrent, Obsolete, Revivable, Waiting
<1>2. ASSUME NEW i \in Items, RehashDetail(i) \/ ClassifyManually(i) \/ ResolveRead(i)
      PROVE  jobs'[j].status = jobs[j].status
  BY <1>2 DEF RehashDetail, ClassifyManually, ResolveRead
<1>3. ASSUME ResolveAdmit PROVE jobs'[j].status = jobs[j].status
  <2> DEFINE mine == IdentityOf(snapshot.item, snapshot.hash)
  <2>1. jobs' = jobs \/ /\ jobs[mine].status = "absent"
                        /\ jobs' = [jobs EXCEPT ![mine] = Queue(jobs[mine])]
    BY <1>3 DEF ResolveAdmit
  <2> HIDE DEF mine
  <2>2. QED
    BY <1>a, <2>1 DEF TypeOK
<1>4. ASSUME NEW k \in Identity, BackoffEnds(k) \/ LeaseLapses(k)
      PROVE  jobs'[j].status = jobs[j].status
  <2>1. CASE BackoffEnds(k)
    BY <2>1 DEF BackoffEnds, TypeOK, Job
  <2>2. CASE LeaseLapses(k)
    BY <2>2 DEF LeaseLapses, TypeOK, Job
  <2>3. QED
    BY <1>4, <2>1, <2>2
<1>5. ASSUME NEW w \in Workers, StartBatch(w) PROVE jobs'[j].status = jobs[j].status
  <2>1. j \notin Lapsed /\ j \notin Ready
    BY <1>a DEF Lapsed, Ready, Waiting
  <2>2. QED
    BY <1>5, <2>1 DEF StartBatch
<1>6. ASSUME NEW w \in Workers, ReadsOnly(w) \/ LoadClaim(w)
      PROVE  jobs'[j].status = jobs[j].status
  BY <1>6, ReadsOnlyMoves DEF LoadClaim
<1>7. ASSUME NEW w \in Workers, FinishClaim(w) PROVE jobs'[j].status = jobs[j].status
  BY <1>7, <1>a DEF FinishClaim, Holds, TypeOK
<1>8. ASSUME NEW w \in Workers, Crash(w) PROVE jobs'[j].status = jobs[j].status
  BY <1>8 DEF Crash
<1>9. ASSUME NEW on \in BOOLEAN, NEW rev \in Revisions, Deploy(on, rev)
      PROVE  jobs'[j].status = jobs[j].status
  BY <1>9 DEF Deploy
<1>10. QED
  BY <1>1, <1>2, <1>3, <1>4, <1>5, <1>6, <1>7, <1>8, <1>9
     DEF Next, WorkerStep, ReadsOnly

\* done, failed and outcome_unknown are final, whoever writes with whatever stale
\* knowledge.
THEOREM SettledForGood == Spec => SettledIsFinal
  BY TypeInit, TypeStep, SettledStep, PTL DEF Spec, SettledIsFinal

\* The job of a request that died with its worker is still under that worker's
\* lease or unknown, and no worker remembers a claim of it.
LostInv ==
    \A j \in lost : /\ jobs[j].status \in {"leased", "outcome_unknown"}
                    /\ \A w \in Workers : \A c \in Claims(w) : c.job # j

LEMMA LostQuiet ==
    ASSUME TypeOK, LostInv, ClaimsShrink, LeasesKept, UNCHANGED lost
    PROVE  LostInv'
  BY DEF LostInv, ClaimsShrink, LeasesKept, TypeOK

LEMMA LostStartBatch ==
    ASSUME ClaimInv, LostInv, NEW w \in Workers, StartBatch(w)
    PROVE  LostInv'
<1>1. PICK S \in SUBSET Ready :
        /\ jobs' = [j \in Identity |->
              IF j \in Lapsed THEN Expired(jobs[j])
              ELSE IF j \in S THEN Leased(jobs[j]) ELSE jobs[j]]
        /\ worker' = [worker EXCEPT ![w].backlog =
              {[job |-> j, token |-> jobs[j].attempts + 1] : j \in S}]
  BY DEF StartBatch
<1>2. worker[w] = [backlog |-> {}, point |-> Idle] /\ lost' = lost
  BY DEF StartBatch
<1>3. /\ \A c \in Claims(w)' : c.job \in S
      /\ \A v \in Workers \ {w} : Claims(v)' = Claims(v)
  BY <1>1, <1>2 DEF Claims, ClaimInv, TypeOK, WorkerState
<1>4. \A j \in lost : j \in Identity /\ j \notin S
  BY DEF LostInv, Ready, Waiting, ClaimInv, TypeOK
<1>5. \A j \in lost : jobs'[j].status \in {"leased", "outcome_unknown"}
  BY <1>1, <1>4, RowStatus DEF LostInv
<1>6. QED
  BY <1>2, <1>3, <1>4, <1>5 DEF LostInv

LEMMA LostFinish ==
    ASSUME ClaimInv, LostInv, NEW w \in Workers, FinishClaim(w)
    PROVE  LostInv'
<1> DEFINE mine == worker[w].point.claim
<1>1. worker[w].point # Idle /\ MoveTo(w, Idle) /\ lost' = lost
  BY DEF FinishClaim, Idle
<1>2. ClaimsShrink
  BY <1>1, MoveKeepsClaims DEF ClaimInv
<1>3. mine.job \notin lost
  BY <1>1 DEF LostInv, Claims
<1>4. \A j \in lost : jobs'[j] = jobs[j]
  BY <1>3 DEF FinishClaim, ClaimInv, TypeOK
<1>5. QED
  BY <1>1, <1>2, <1>4 DEF LostInv, ClaimsShrink

\* A dying worker's request enters `lost`; SoleClaimant leaves nobody else with it.
LEMMA LostFailures ==
    ASSUME ClaimInv, LostInv
    PROVE  /\ \A w \in Workers : Crash(w) => LostInv'
           /\ \A on \in BOOLEAN, rev \in Revisions : Deploy(on, rev) => LostInv'
<1>a. ASSUME NEW w \in Workers, NEW j \in InFlight({w})
      PROVE  /\ jobs[j].status \in {"leased", "outcome_unknown"}
             /\ \A v \in Workers \ {w} : \A c \in Claims(v) : c.job # j
  <2>1. PICK c \in Claims(w) : c.job = j
    BY <1>a DEF InFlight, Claims, Idle
  <2>2. jobs[j].status \in {"leased", "outcome_unknown"}
    BY <2>1 DEF ClaimInv, FencedOutIsUnknown, Holds
  <2>3. QED
    BY <2>1, <2>2 DEF ClaimInv, SoleClaimant
<1>1. ASSUME NEW w \in Workers, Crash(w) PROVE LostInv'
  <2>1. /\ Claims(w)' = {} /\ \A v \in Workers \ {w} : Claims(v)' = Claims(v)
        /\ jobs' = jobs /\ lost' = lost \cup InFlight({w})
    BY <1>1 DEF Crash, Claims, ClaimInv, TypeOK
  <2>2. QED
    BY <1>a, <2>1 DEF LostInv
<1>2. ASSUME NEW on \in BOOLEAN, NEW rev \in Revisions, Deploy(on, rev) PROVE LostInv'
  <2>1. /\ \A v \in Workers : Claims(v)' = {}
        /\ jobs' = jobs /\ lost' = lost \cup InFlight(Workers)
    BY <1>2 DEF Deploy, Claims
  <2>2. \A j \in InFlight(Workers) : \E w \in Workers : j \in InFlight({w})
    BY DEF InFlight
  <2>3. QED
    BY <1>a, <2>1, <2>2 DEF LostInv
<1>3. QED
  BY <1>1, <1>2

LEMMA LostStep == ClaimInv /\ LostInv /\ [Next]_vars => LostInv'
<1> SUFFICES ASSUME ClaimInv, LostInv, [Next]_vars PROVE LostInv'
  OBVIOUS
<1>1. ASSUME UNCHANGED worker, LeasesKept, UNCHANGED lost PROVE LostInv'
  BY <1>1, SameWorkers, LostQuiet DEF ClaimInv
<1>2. CASE UNCHANGED vars
  BY <1>1, <1>2 DEF vars, LeasesKept
<1>3. ASSUME NEW i \in Items, NEW t \in Texts \cup {NoText}, NEW complete \in BOOLEAN,
             WriteDetail(i, t, complete)
      PROVE  LostInv'
  BY <1>1, <1>3, EnqueueKeepsLeases DEF WriteDetail, ClaimInv
<1>4. ASSUME NEW i \in Items, RehashDetail(i) \/ ClassifyManually(i) \/ ResolveRead(i)
      PROVE  LostInv'
  BY <1>1, <1>4 DEF RehashDetail, ClassifyManually, ResolveRead, LeasesKept
<1>5. ASSUME ResolveAdmit PROVE LostInv'
  <2> DEFINE mine == IdentityOf(snapshot.item, snapshot.hash)
  <2>1. jobs' = jobs \/ /\ jobs[mine].status = "absent"
                        /\ jobs' = [jobs EXCEPT ![mine] = Queue(jobs[mine])]
    BY <1>5 DEF ResolveAdmit
  <2> HIDE DEF mine
  <2>2. LeasesKept
    BY <2>1 DEF LeasesKept, ClaimInv, TypeOK
  <2>3. QED
    BY <1>1, <1>5, <2>2 DEF ResolveAdmit
<1>6. ASSUME NEW j \in Identity, BackoffEnds(j) \/ LeaseLapses(j) PROVE LostInv'
  <2>1. CASE BackoffEnds(j)
    BY <1>1, <2>1 DEF BackoffEnds, LeasesKept, ClaimInv, TypeOK, Job
  <2>2. CASE LeaseLapses(j)
    BY <1>1, <2>2 DEF LeaseLapses, LeasesKept, ClaimInv, TypeOK, Job
  <2>3. QED
    BY <1>6, <2>1, <2>2
<1>7. ASSUME NEW w \in Workers, ReadsOnly(w) PROVE LostInv'
  <2>1. UNCHANGED <<jobs, lost>>
    BY <1>7 DEF ReadsOnly, CheckSuccess, SendRequest, ReceiveResult, ClassifierRaises,
                RecheckSource
  <2>2. ClaimsShrink
    BY <1>7, ReadsOnlyMoves, MoveKeepsClaims DEF ClaimInv
  <2>3. QED
    BY <2>1, <2>2, LostQuiet DEF ClaimInv, LeasesKept
<1>8. ASSUME NEW w \in Workers, LoadClaim(w) PROVE LostInv'
  <2>1. PICK c \in worker[w].backlog :
          /\ worker'[w].backlog = worker[w].backlog \ {c}
          /\ worker'[w].point = Idle \/ worker'[w].point.claim = c
          /\ \A v \in Workers \ {w} : worker'[v] = worker[v]
    BY <1>8 DEF LoadClaim, ClaimInv, TypeOK
  <2>2. ClaimsShrink
    BY <2>1 DEF ClaimsShrink, Claims
  <2>3. QED
    BY <1>8, <2>2, LostQuiet DEF LoadClaim, ClaimInv, LeasesKept
<1>9. ASSUME NEW w \in Workers, StartBatch(w) \/ FinishClaim(w) \/ Crash(w) PROVE LostInv'
  BY <1>9, LostStartBatch, LostFinish, LostFailures
<1>10. ASSUME NEW on \in BOOLEAN, NEW rev \in Revisions, Deploy(on, rev) PROVE LostInv'
  BY <1>10, LostFailures
<1>11. QED
  BY <1>2, <1>3, <1>4, <1>5, <1>6, <1>7, <1>8, <1>9, <1>10
     DEF Next, WorkerStep, ReadsOnly

\* A request that died with its worker is never sent again.
THEOREM NoResendAfterCrash == Spec => []LostIsNeverResent
<1>1. Init => LostInv
  BY DEF Init, LostInv
<1>2. LostInv => LostIsNeverResent
  BY DEF LostInv, LostIsNeverResent, Claims, Idle
<1>3. QED
  BY <1>1, <1>2, ClaimInit, ClaimStep, LostStep, PTL DEF Spec
-----------------------------------------------------------------------------
(* A done job has its judgment.                                              *)
(*                                                                           *)
(* The status is written after the judgment and from a worker's memory of    *)
(* it, so the invariant also says what a worker may remember: an outcome     *)
(* `complete` or a verdict `done` stands for a judgment that is stored.      *)
(* Judgments are never removed.                                              *)

AnswerIsJudged(w) ==
    LET p == worker[w].point IN
    \/ p.at = "returned" /\ p.outcome = "complete"
    \/ p.at = "finishing" /\ p.verdict = "done"
    => p.claim.job \in judged

JudgedInv == DoneIsJudged /\ \A w \in Workers : AnswerIsJudged(w)

\* Only a complete outcome is recorded as done.
LEMMA OnlyCompleteIsDone ==
    ASSUME NEW o \in Outcomes, VerdictOf(o) = "done"
    PROVE  o = "complete"
  BY DEF Outcomes, VerdictOf

\* A step that turns no row into done but judged ones, and changes at most one
\* worker, whose new point is judged.
LEMMA JudgedFrom ==
    ASSUME JudgedInv, judged \subseteq judged',
           \A j \in Identity : jobs'[j].status = "done" =>
              jobs[j].status = "done" \/ j \in judged',
           \A w \in Workers : worker'[w].point = worker[w].point \/ AnswerIsJudged(w)'
    PROVE  JudgedInv'
  BY DEF JudgedInv, DoneIsJudged, AnswerIsJudged

\* The same for a worker that moves to the point q.
LEMMA JudgedMove ==
    ASSUME TypeOK, JudgedInv, NEW w \in Workers, NEW q, MoveTo(w, q),
           judged \subseteq judged',
           \A j \in Identity : jobs'[j].status = "done" =>
              jobs[j].status = "done" \/ j \in judged',
           \/ q.at \notin {"returned", "finishing"}
           \/ q.at = "returned" /\ q.outcome # "complete"
           \/ q.at = "finishing" /\ q.verdict # "done"
           \/ q.claim.job \in judged'
    PROVE  JudgedInv'
<1>1. worker'[w].point = q /\ \A v \in Workers \ {w} : worker'[v] = worker[v]
  BY DEF MoveTo, TypeOK, WorkerState
<1>2. AnswerIsJudged(w)'
  BY <1>1 DEF AnswerIsJudged
<1>3. QED
  BY <1>1, <1>2, JudgedFrom

LEMMA JudgedWriters ==
    ASSUME TypeOK, JudgedInv
    PROVE  /\ \A i \in Items, t \in Texts \cup {NoText}, complete \in BOOLEAN :
                WriteDetail(i, t, complete) => JudgedInv'
           /\ \A i \in Items : RehashDetail(i) => JudgedInv'
           /\ \A i \in Items : ClassifyManually(i) => JudgedInv'
           /\ \A i \in Items : ResolveRead(i) => JudgedInv'
           /\ ResolveAdmit => JudgedInv'
<1>1. ASSUME NEW i \in Items, NEW t \in Texts \cup {NoText}, NEW complete \in BOOLEAN,
             WriteDetail(i, t, complete)
      PROVE  JudgedInv'
  <2>1. UNCHANGED <<worker, judged>>
    BY <1>1 DEF WriteDetail
  <2>2. ASSUME NEW j \in Identity, jobs'[j].status = "done"
        PROVE  jobs[j].status = "done" \/ j \in judged
    BY <1>1, <2>2 DEF WriteDetail, EnqueueCurrent, Rest, Queue, Row
  <2>3. QED
    BY <2>1, <2>2, JudgedFrom
<1>2. ASSUME NEW i \in Items, RehashDetail(i) \/ ClassifyManually(i) \/ ResolveRead(i)
      PROVE  JudgedInv'
  <2>1. UNCHANGED <<worker, jobs>> /\ judged \subseteq judged'
    BY <1>2 DEF RehashDetail, ClassifyManually, ResolveRead
  <2>2. QED
    BY <2>1, JudgedFrom
<1>3. ASSUME ResolveAdmit PROVE JudgedInv'
  <2> DEFINE mine == IdentityOf(snapshot.item, snapshot.hash)
  <2>1. jobs' = jobs \/ jobs' = [jobs EXCEPT ![mine] = Queue(jobs[mine])]
    BY <1>3 DEF ResolveAdmit
  <2>2. Queue(jobs[mine]).status # "done"
    BY RowStatus
  <2>3. UNCHANGED <<worker, judged>>
    BY <1>3 DEF ResolveAdmit
  <2> HIDE DEF mine
  <2>4. \A j \in Identity : jobs'[j].status = "done" => jobs[j].status = "done"
    BY <2>1, <2>2 DEF TypeOK
  <2>5. QED
    BY <2>3, <2>4, JudgedFrom
<1>4. QED
  BY <1>1, <1>2, <1>3

LEMMA JudgedClocks ==
    ASSUME TypeOK, JudgedInv, NEW j \in Identity, BackoffEnds(j) \/ LeaseLapses(j)
    PROVE  JudgedInv'
<1>1. UNCHANGED <<worker, judged>>
  BY DEF BackoffEnds, LeaseLapses
<1>2. \A k \in Identity : jobs'[k].status = jobs[k].status
  <2>1. CASE BackoffEnds(j)
    BY <2>1 DEF BackoffEnds, TypeOK, Job
  <2>2. CASE LeaseLapses(j)
    BY <2>2 DEF LeaseLapses, TypeOK, Job
  <2>3. QED
    BY <2>1, <2>2
<1>3. QED
  BY <1>1, <1>2, JudgedFrom

\* What the row of a finished claim can be.
LEMMA FinishedRow ==
    ASSUME TypeOK, NEW w \in Workers, FinishClaim(w), NEW j \in Identity,
           jobs'[j] # jobs[j]
    PROVE  /\ j = worker[w].point.claim.job
           /\ jobs[j].status = "leased"
           /\ worker[w].point.verdict \in Verdicts
           /\ jobs'[j].status \in {worker[w].point.verdict, "failed"}
<1> DEFINE p == worker[w].point
<1>1. p # Idle /\ p.at = "finishing"
  BY DEF FinishClaim, Idle
<1>2. p.verdict \in Verdicts
  BY <1>1, ActiveClaim, PointShape
<1>3. jobs' = [jobs EXCEPT ![p.claim.job] = Recorded(jobs[p.claim.job], p.verdict)]
      /\ Holds(p.claim)
  BY DEF FinishClaim
<1> HIDE DEF p
<1>4. j = p.claim.job /\ jobs'[j] = Recorded(jobs[j], p.verdict)
  BY <1>3 DEF TypeOK
<1>5. QED
  BY <1>2, <1>3, <1>4, RowStatus DEF p, Holds

LEMMA JudgedProcessClaim ==
    ASSUME TypeOK, JudgedInv, NEW w \in Workers
    PROVE  /\ StartBatch(w) => JudgedInv'
           /\ LoadClaim(w) => JudgedInv'
           /\ CheckSuccess(w) => JudgedInv'
           /\ SendRequest(w) => JudgedInv'
           /\ ReceiveResult(w) => JudgedInv'
           /\ ClassifierRaises(w) => JudgedInv'
           /\ RecheckSource(w) => JudgedInv'
           /\ FinishClaim(w) => JudgedInv'
<1> DEFINE p == worker[w].point
<1>1. ASSUME StartBatch(w) PROVE JudgedInv'
  <2>1. PICK S \in SUBSET Ready :
          /\ jobs' = [j \in Identity |->
                IF j \in Lapsed THEN Expired(jobs[j])
                ELSE IF j \in S THEN Leased(jobs[j]) ELSE jobs[j]]
          /\ worker' = [worker EXCEPT ![w].backlog =
                {[job |-> j, token |-> jobs[j].attempts + 1] : j \in S}]
    BY <1>1 DEF StartBatch
  <2>2. \A v \in Workers : worker'[v].point = worker[v].point
    BY <2>1 DEF TypeOK, WorkerState
  <2>3. \A j \in Identity : jobs'[j].status = "done" => jobs[j].status = "done"
    BY <2>1, RowStatus
  <2>4. QED
    BY <1>1, <2>2, <2>3, JudgedFrom DEF StartBatch
<1>2. ASSUME LoadClaim(w) PROVE JudgedInv'
  <2>1. \/ worker'[w].point.at \in {"idle", "loaded"}
        \/ worker'[w].point.at = "finishing" /\ worker'[w].point.verdict # "done"
    BY <1>2 DEF LoadClaim, TypeOK, Idle
  <2>2. \A v \in Workers \ {w} : worker'[v] = worker[v]
    BY <1>2 DEF LoadClaim, TypeOK
  <2>3. QED
    BY <1>2, <2>1, <2>2, JudgedFrom DEF LoadClaim, AnswerIsJudged
<1>3. ASSUME CheckSuccess(w) PROVE JudgedInv'
  <2> DEFINE q == IF p.claim.job \in judged
                   THEN [at |-> "finishing", claim |-> p.claim, verdict |-> "done"]
                   ELSE [at |-> "unjudged", claim |-> p.claim]
  <2>1. MoveTo(w, q) /\ UNCHANGED <<jobs, judged>>
    BY <1>3 DEF CheckSuccess
  <2>2. q.at \notin {"returned", "finishing"} \/ q.claim.job \in judged'
    BY <2>1
  <2> HIDE DEF q
  <2>3. QED
    BY <2>1, <2>2, JudgedMove
<1>4. ASSUME SendRequest(w) PROVE JudgedInv'
  <2>1. UNCHANGED <<jobs, judged>>
        /\ \E q : /\ MoveTo(w, q)
                  /\ \/ q.at = "returned" /\ q.outcome # "complete"
                     \/ q.at = "finishing" /\ q.verdict # "done"
                     \/ q.at = "calling"
    BY <1>4 DEF SendRequest
  <2>2. QED
    BY <2>1, JudgedMove
<1>5. ASSUME ReceiveResult(w) PROVE JudgedInv'
  <2>1. PICK o \in Outcomes \ {"skipped"} :
          /\ MoveTo(w, [at |-> "returned", claim |-> p.claim, outcome |-> o])
          /\ judged' = IF o = "complete" THEN judged \cup {p.claim.job} ELSE judged
    BY <1>5 DEF ReceiveResult
  <2> DEFINE q == [at |-> "returned", claim |-> p.claim, outcome |-> o]
  <2>2. q.at = "returned" /\ (q.outcome # "complete" \/ q.claim.job \in judged')
    BY <2>1
  <2>3. UNCHANGED jobs /\ judged \subseteq judged' /\ MoveTo(w, q)
    BY <1>5, <2>1 DEF ReceiveResult
  <2> HIDE DEF q
  <2>4. QED
    BY <2>2, <2>3, JudgedMove
<1>6. ASSUME ClassifierRaises(w) PROVE JudgedInv'
  <2>1. UNCHANGED <<jobs, judged>>
        /\ \E q : /\ MoveTo(w, q)
                  /\ q.at = "finishing" /\ q.verdict # "done"
    BY <1>6 DEF ClassifierRaises
  <2>2. QED
    BY <2>1, JudgedMove
<1>7. ASSUME RecheckSource(w) PROVE JudgedInv'
  <2> DEFINE v == IF IsCurrent(p.claim.job) THEN VerdictOf(p.outcome) ELSE "superseded"
             q == [at |-> "finishing", claim |-> p.claim, verdict |-> v]
  <2>1. p.at = "returned" /\ MoveTo(w, q) /\ UNCHANGED <<jobs, judged>>
    BY <1>7 DEF RecheckSource
  <2>2. p.outcome \in Outcomes
    BY <2>1, ActiveClaim, PointShape DEF Idle
  <2>3. v = "done" => p.outcome = "complete"
    BY <2>2, OnlyCompleteIsDone
  <2>4. q.at = "finishing" /\ (q.verdict # "done" \/ q.claim.job \in judged')
    BY <2>1, <2>3 DEF JudgedInv, AnswerIsJudged
  <2> HIDE DEF q
  <2>5. QED
    BY <2>1, <2>4, JudgedMove
<1>8. ASSUME FinishClaim(w) PROVE JudgedInv'
  <2>1. MoveTo(w, Idle) /\ UNCHANGED judged /\ p.at = "finishing"
    BY <1>8 DEF FinishClaim
  <2>2. ASSUME NEW j \in Identity, jobs'[j].status = "done"
        PROVE  jobs[j].status = "done" \/ j \in judged'
    BY <1>8, <2>1, <2>2, FinishedRow DEF JudgedInv, AnswerIsJudged
  <2>3. Idle.at = "idle"
    BY DEF Idle
  <2>4. QED
    BY <2>1, <2>2, <2>3, JudgedMove
<1>9. QED
  BY <1>1, <1>2, <1>3, <1>4, <1>5, <1>6, <1>7, <1>8

LEMMA JudgedStep == TypeOK /\ JudgedInv /\ [Next]_vars => JudgedInv'
<1> SUFFICES ASSUME TypeOK, JudgedInv, [Next]_vars PROVE JudgedInv'
  OBVIOUS
<1>1. CASE UNCHANGED vars
  BY <1>1, JudgedFrom DEF vars
<1>2. ASSUME NEW i \in Items, RehashDetail(i) \/ ClassifyManually(i) \/ ResolveRead(i)
      PROVE  JudgedInv'
  BY <1>2, JudgedWriters
<1>3. ASSUME NEW i \in Items, NEW t \in Texts \cup {NoText}, NEW complete \in BOOLEAN,
             WriteDetail(i, t, complete)
      PROVE  JudgedInv'
  BY <1>3, JudgedWriters
<1>4. ASSUME NEW w \in Workers, WorkerStep(w) PROVE JudgedInv'
  BY <1>4, JudgedProcessClaim DEF WorkerStep
<1>5. ASSUME NEW w \in Workers, Crash(w) PROVE JudgedInv'
  <2>1. UNCHANGED <<jobs, judged>>
        /\ \A v \in Workers : worker'[v].point \in {worker[v].point, Idle}
    BY <1>5 DEF Crash, TypeOK, WorkerState
  <2>2. QED
    BY <2>1, JudgedFrom DEF AnswerIsJudged, Idle
<1>6. ASSUME NEW on \in BOOLEAN, NEW rev \in Revisions, Deploy(on, rev) PROVE JudgedInv'
  <2>1. UNCHANGED <<jobs, judged>> /\ \A v \in Workers : worker'[v].point = Idle
    BY <1>6 DEF Deploy
  <2>2. QED
    BY <2>1, JudgedFrom DEF AnswerIsJudged, Idle
<1>7. QED
  BY <1>1, <1>2, <1>3, <1>4, <1>5, <1>6, JudgedWriters, JudgedClocks DEF Next

LEMMA JudgedInit == Init => JudgedInv
<1> SUFFICES ASSUME Init PROVE JudgedInv
  OBVIOUS
<1>1. \A j \in Identity : jobs[j].status = "absent"
  BY DEF Init, Row
<1>2. \A w \in Workers : worker[w].point.at = "idle"
  BY DEF Init, Idle
<1>3. QED
  BY <1>1, <1>2 DEF JudgedInv, DoneIsJudged, AnswerIsJudged

\* A job is done only when the complete judgment of its own identity is stored,
\* whichever path wrote the status and whatever the worker had read before.
THEOREM DoneHasJudgment == Spec => []DoneIsJudged
<1>1. JudgedInv => DoneIsJudged
  BY DEF JudgedInv
<1>2. QED
  BY <1>1, TypeInit, TypeStep, JudgedInit, JudgedStep, PTL DEF Spec
-----------------------------------------------------------------------------
(* The outbox implements the life cycle of a job.                            *)
(*                                                                           *)
(* Two facts about a step carry the refinement: which status a row may get   *)
(* from which (StatusMoves), and that the workers calling for a job stay the *)
(* same, lose members, or become one where there was none (CallersStep).     *)

StatusMoves ==
    ({"absent", "superseded"} \X {"queued"})
    \cup (Waiting \X {"leased", "superseded", "done"})
    \cup ({"leased"} \X Verdicts)

\* What one step may do to the row of j.
RowStep(j) ==
    jobs'[j].status # jobs[j].status =>
      /\ <<jobs[j].status, jobs'[j].status>> \in StatusMoves
      /\ jobs'[j].status = "done" => j \in judged

LEMMA RowSteps ==
    ASSUME TypeOK, JudgedInv, Next, NEW j \in Identity
    PROVE  RowStep(j)
<1>a. ASSUME jobs'[j].status = jobs[j].status PROVE RowStep(j)
  BY <1>a DEF RowStep
<1>1. ASSUME NEW i \in Items, NEW t \in Texts \cup {NoText}, NEW complete \in BOOLEAN,
             WriteDetail(i, t, complete)
      PROVE  RowStep(j)
  <2>1. jobs' = EnqueueCurrent(i, SourceHash(t), complete)
    BY <1>1 DEF WriteDetail
  <2>2. \/ jobs'[j] = jobs[j]
        \/ jobs[j].status \in Waiting /\ jobs'[j] = Rest(jobs[j], "superseded")
        \/ jobs[j].status \in Waiting /\ j \in judged /\ jobs'[j] = Rest(jobs[j], "done")
        \/ jobs[j].status \in Revivable /\ jobs'[j] = Queue(jobs[j])
    BY <2>1 DEF EnqueueCurrent, Obsolete
  <2>3. \/ jobs'[j].status = jobs[j].status
        \/ jobs[j].status \in Waiting /\ jobs'[j].status = "superseded"
        \/ jobs[j].status \in Waiting /\ jobs'[j].status = "done" /\ j \in judged
        \/ jobs[j].status \in Revivable /\ jobs'[j].status = "queued"
    BY <2>2 DEF Rest, Queue, Row
  <2>4. QED
    BY <2>3 DEF RowStep, StatusMoves, Revivable
<1>2. ASSUME NEW i \in Items, RehashDetail(i) \/ ClassifyManually(i) \/ ResolveRead(i)
      PROVE  RowStep(j)
  BY <1>2, <1>a DEF RehashDetail, ClassifyManually, ResolveRead
<1>3. ASSUME ResolveAdmit PROVE RowStep(j)
  <2> DEFINE mine == IdentityOf(snapshot.item, snapshot.hash)
  <2>1. jobs' = jobs \/ /\ jobs[mine].status = "absent"
                        /\ jobs' = [jobs EXCEPT ![mine] = Queue(jobs[mine])]
    BY <1>3 DEF ResolveAdmit
  <2>2. Queue(jobs[mine]).status = "queued"
    BY RowStatus
  <2> HIDE DEF mine
  <2>3. \/ jobs'[j] = jobs[j]
        \/ jobs[j].status = "absent" /\ j = mine /\ jobs'[j] = Queue(jobs[mine])
    BY <2>1 DEF TypeOK
  <2>4. QED
    BY <2>2, <2>3 DEF RowStep, StatusMoves
<1>4. ASSUME NEW k \in Identity, BackoffEnds(k) \/ LeaseLapses(k) PROVE RowStep(j)
  <2>1. CASE BackoffEnds(k)
    BY <2>1, <1>a DEF BackoffEnds, TypeOK, Job
  <2>2. CASE LeaseLapses(k)
    BY <2>2, <1>a DEF LeaseLapses, TypeOK, Job
  <2>3. QED
    BY <1>4, <2>1, <2>2
<1>5. ASSUME NEW w \in Workers, StartBatch(w) PROVE RowStep(j)
  <2>1. \/ jobs'[j] = jobs[j]
        \/ jobs[j].status = "leased" /\ jobs'[j] = Expired(jobs[j])
        \/ jobs[j].status \in Waiting /\ jobs'[j] = Leased(jobs[j])
    BY <1>5 DEF StartBatch, Lapsed, Ready
  <2>2. CASE jobs[j].status = "leased" /\ jobs'[j] = Expired(jobs[j])
    <3>1. jobs'[j].status = "outcome_unknown"
      BY <2>2, RowStatus
    <3>2. <<"leased", "outcome_unknown">> \in StatusMoves
      BY DEF StatusMoves, Verdicts
    <3>3. QED
      BY <2>2, <3>1, <3>2 DEF RowStep
  <2>3. CASE jobs[j].status \in Waiting /\ jobs'[j] = Leased(jobs[j])
    <3>1. jobs'[j].status = "leased"
      BY <2>3, RowStatus
    <3>2. <<jobs[j].status, "leased">> \in StatusMoves
      BY <2>3 DEF StatusMoves
    <3>3. QED
      BY <3>1, <3>2 DEF RowStep
  <2>4. QED
    BY <1>a, <2>1, <2>2, <2>3
<1>6. ASSUME NEW w \in Workers, ReadsOnly(w) \/ LoadClaim(w) PROVE RowStep(j)
  BY <1>6, <1>a, ReadsOnlyMoves DEF LoadClaim
<1>7. ASSUME NEW w \in Workers, FinishClaim(w) PROVE RowStep(j)
  <2>1. CASE jobs'[j] = jobs[j]
    BY <2>1, <1>a
  <2>2. CASE jobs'[j] # jobs[j]
    <3>1. /\ j = worker[w].point.claim.job /\ jobs[j].status = "leased"
          /\ worker[w].point.verdict \in Verdicts
          /\ jobs'[j].status \in {worker[w].point.verdict, "failed"}
      BY <1>7, <2>2, FinishedRow
    <3>2. worker[w].point.verdict = "done" => j \in judged
      BY <1>7, <3>1 DEF FinishClaim, JudgedInv, AnswerIsJudged
    <3>3. QED
      BY <3>1, <3>2 DEF RowStep, StatusMoves, Verdicts
  <2>3. QED
    BY <2>1, <2>2
<1>8. ASSUME NEW w \in Workers, Crash(w) PROVE RowStep(j)
  BY <1>8, <1>a DEF Crash
<1>9. ASSUME NEW on \in BOOLEAN, NEW rev \in Revisions, Deploy(on, rev) PROVE RowStep(j)
  BY <1>9, <1>a DEF Deploy
<1>10. QED
  BY <1>1, <1>2, <1>3, <1>4, <1>5, <1>6, <1>7, <1>8, <1>9
     DEF Next, WorkerStep, ReadsOnly

\* A status move is an edge of the life cycle, or inside one of its phases.
LEMMA PhaseMoves ==
    ASSUME NEW s, NEW t, <<s, t>> \in StatusMoves
    PROVE  /\ PhaseOf(s) = PhaseOf(t) \/ <<PhaseOf(s), PhaseOf(t)>> \in Lifecycle!Moves
           /\ PhaseOf(t) = "done" => t = "done"
<1>1. /\ PhaseOf("absent") = "absent" /\ PhaseOf("superseded") = "superseded"
      /\ PhaseOf("queued") = "waiting" /\ PhaseOf("retry") = "waiting"
      /\ PhaseOf("leased") = "held" /\ PhaseOf("outcome_unknown") = "unknown"
      /\ PhaseOf("done") = "done" /\ PhaseOf("failed") = "failed"
  BY DEF PhaseOf, Waiting
<1>2. QED
  BY <1>1 DEF StatusMoves, Waiting, Verdicts, Lifecycle!Moves

LEMMA PhaseType ==
    ASSUME NEW s \in Status
    PROVE  PhaseOf(s) \in Lifecycle!Phases
<1>1. /\ PhaseOf("absent") = "absent" /\ PhaseOf("superseded") = "superseded"
      /\ PhaseOf("queued") = "waiting" /\ PhaseOf("retry") = "waiting"
      /\ PhaseOf("leased") = "held" /\ PhaseOf("outcome_unknown") = "unknown"
      /\ PhaseOf("done") = "done" /\ PhaseOf("failed") = "failed"
  BY DEF PhaseOf, Waiting
<1>2. QED
  BY <1>1 DEF Status, Waiting, Settled, Lifecycle!Phases
-----------------------------------------------------------------------------
\* At most one worker calls for a job.
LEMMA OneCaller ==
    ASSUME SoleClaimant, NEW j
    PROVE  \A v, w \in Calling(j) : v = w
  BY DEF SoleClaimant, Calling, Claims, Idle

LEMMA OneCallerNext ==
    ASSUME SoleClaimant', NEW j
    PROVE  \A v, w \in Calling(j)' : v = w
  BY DEF SoleClaimant, Calling, Claims, Idle

LEMMA AtMostOne ==
    ASSUME NEW S, \A v, w \in S : v = w
    PROVE  /\ Cardinality(S) \in {0, 1}
           /\ S = {} <=> Cardinality(S) = 0
<1>1. CASE S = {}
  BY <1>1, FS_EmptySet
<1>2. ASSUME NEW w \in S PROVE S = {w}
  OBVIOUS
<1>3. ASSUME NEW w \in S PROVE Cardinality(S) = 1
  BY <1>2, <1>3, FS_Singleton
<1>4. QED
  BY <1>1, <1>3

\* Only SendRequest makes a worker call, for the job it has in hand.
LEMMA NewCaller ==
    ASSUME TypeOK, Next, NEW w \in Workers, worker'[w].point.at = "calling",
           worker'[w].point # worker[w].point
    PROVE  /\ worker[w].point.at = "unjudged"
           /\ worker'[w].point.claim = worker[w].point.claim
           /\ \A v \in Workers \ {w} : worker'[v] = worker[v]
           /\ UNCHANGED jobs
<1> DEFINE Goal == /\ worker[w].point.at = "unjudged"
                   /\ worker'[w].point.claim = worker[w].point.claim
                   /\ \A v \in Workers \ {w} : worker'[v] = worker[v]
                   /\ UNCHANGED jobs
<1> HIDE DEF Goal
<1>a. ASSUME NEW v \in Workers, NEW q, MoveTo(v, q), q.at # "calling" PROVE FALSE
  BY <1>a DEF MoveTo, TypeOK, WorkerState
<1>1. ASSUME UNCHANGED worker PROVE FALSE
  BY <1>1
<1>2. ASSUME NEW v \in Workers, StartBatch(v) PROVE FALSE
  BY <1>2 DEF StartBatch, TypeOK, WorkerState
<1>3. ASSUME NEW v \in Workers, LoadClaim(v) PROVE FALSE
  BY <1>3 DEF LoadClaim, TypeOK, Idle
<1>4. ASSUME NEW v \in Workers, CheckSuccess(v) PROVE FALSE
  <2>1. \E q : MoveTo(v, q) /\ q.at # "calling"
    BY <1>4 DEF CheckSuccess
  <2>2. QED
    BY <2>1, <1>a
<1>5. ASSUME NEW v \in Workers, SendRequest(v) PROVE Goal
  <2>1. PICK q : /\ MoveTo(v, q) /\ worker[v].point.at = "unjudged"
                 /\ q.claim = worker[v].point.claim
    BY <1>5, SendMoves
  <2>2. worker'[v].point = q /\ \A u \in Workers \ {v} : worker'[u] = worker[u]
    BY <2>1 DEF MoveTo, TypeOK, WorkerState
  <2>3. v = w /\ UNCHANGED jobs
    BY <1>5, <2>2 DEF SendRequest
  <2>4. QED
    BY <2>1, <2>2, <2>3 DEF Goal
<1>6. ASSUME NEW v \in Workers, ReceiveResult(v) PROVE FALSE
  <2>1. \E q : MoveTo(v, q) /\ q.at # "calling"
    BY <1>6 DEF ReceiveResult
  <2>2. QED
    BY <2>1, <1>a
<1>7. ASSUME NEW v \in Workers, ClassifierRaises(v) PROVE FALSE
  <2>1. \E q : MoveTo(v, q) /\ q.at # "calling"
    BY <1>7 DEF ClassifierRaises
  <2>2. QED
    BY <2>1, <1>a
<1>8. ASSUME NEW v \in Workers, RecheckSource(v) PROVE FALSE
  <2>1. \E q : MoveTo(v, q) /\ q.at # "calling"
    BY <1>8 DEF RecheckSource
  <2>2. QED
    BY <2>1, <1>a
<1>9. ASSUME NEW v \in Workers, FinishClaim(v) PROVE FALSE
  <2>1. MoveTo(v, Idle) /\ Idle.at # "calling"
    BY <1>9 DEF FinishClaim, Idle
  <2>2. QED
    BY <2>1, <1>a
<1>10. ASSUME NEW v \in Workers, Crash(v) PROVE FALSE
  BY <1>10 DEF Crash, TypeOK, Idle
<1>11. ASSUME NEW on \in BOOLEAN, NEW rev \in Revisions, Deploy(on, rev) PROVE FALSE
  BY <1>11 DEF Deploy, Idle
<1>12. ASSUME NEW v \in Workers, WorkerStep(v) PROVE Goal
  BY <1>12, <1>2, <1>3, <1>4, <1>5, <1>6, <1>7, <1>8, <1>9 DEF WorkerStep
<1>13. ASSUME NEW i \in Items, NEW t \in Texts \cup {NoText}, NEW complete \in BOOLEAN,
              WriteDetail(i, t, complete)
       PROVE  FALSE
  BY <1>13, <1>1 DEF WriteDetail
<1>14. ASSUME NEW i \in Items, RehashDetail(i) \/ ClassifyManually(i) \/ ResolveRead(i)
       PROVE  FALSE
  BY <1>14, <1>1 DEF RehashDetail, ClassifyManually, ResolveRead
<1>15. ASSUME ResolveAdmit PROVE FALSE
  BY <1>15, <1>1 DEF ResolveAdmit
<1>16. ASSUME NEW j \in Identity, BackoffEnds(j) \/ LeaseLapses(j) PROVE FALSE
  BY <1>16, <1>1 DEF BackoffEnds, LeaseLapses
<1>17. Goal
  BY <1>10, <1>11, <1>12, <1>13, <1>14, <1>15, <1>16 DEF Next
<1>18. QED
  BY <1>17 DEF Goal

\* How the callers of a job follow a step.
LEMMA CallersStep ==
    ASSUME ClaimInv, ClaimInv', Next, NEW j \in Identity
    PROVE  \/ Calling(j)' \subseteq Calling(j)
           \/ /\ Calling(j) = {} /\ Calling(j)' # {}
              /\ jobs[j].status \in {"leased", "outcome_unknown"}
<1> SUFFICES ASSUME NEW w \in Calling(j)', w \notin Calling(j)
             PROVE  /\ Calling(j) = {}
                    /\ jobs[j].status \in {"leased", "outcome_unknown"}
  OBVIOUS
<1> DEFINE c == worker[w].point.claim
<1>1. w \in Workers /\ worker'[w].point.at = "calling" /\ worker'[w].point.claim.job = j
  BY DEF Calling
<1>2. worker'[w].point # worker[w].point
  BY <1>1 DEF Calling
<1>3. worker[w].point.at = "unjudged" /\ c.job = j
  BY <1>1, <1>2, NewCaller DEF ClaimInv
<1>4. c \in Claims(w)
  BY <1>3 DEF Claims, Idle
<1>5. Calling(j) = {}
  <2>1. ASSUME NEW v \in Calling(j) PROVE FALSE
    <3>1. v \in Workers /\ worker[v].point.at = "calling" /\ worker[v].point.claim.job = j
      BY DEF Calling
    <3>2. worker[v].point.claim \in Claims(v)
      BY <3>1 DEF Claims, Idle
    <3>3. v = w
      BY <1>1, <1>3, <1>4, <3>1, <3>2 DEF ClaimInv, SoleClaimant
    <3>4. QED
      BY <1>3, <3>1, <3>3
  <2>2. QED
    BY <2>1
<1>6. jobs[j].status \in {"leased", "outcome_unknown"}
  BY <1>1, <1>3, <1>4 DEF ClaimInv, FencedOutIsUnknown, Holds
<1>7. QED
  BY <1>5, <1>6
-----------------------------------------------------------------------------
LEMMA LifecycleInit == Init => Lifecycle!Init
<1> SUFFICES ASSUME Init PROVE Lifecycle!Init
  OBVIOUS
<1>1. \A j \in Identity : jobs[j].status = "absent" /\ Calling(j) = {}
  BY DEF Init, Row, Calling, Idle
<1>2. PhaseOf("absent") = "absent"
  BY DEF PhaseOf, Waiting
<1>3. [j \in Identity |-> PhaseOf(jobs[j].status)] = [j \in Identity |-> "absent"]
  BY <1>1, <1>2
<1>4. [j \in Identity |-> Cardinality(Calling(j))] = [j \in Identity |-> 0]
  BY <1>1, FS_EmptySet
<1>5. judged = {}
  BY DEF Init
<1>6. QED
  BY <1>3, <1>4, <1>5 DEF Lifecycle!Init

\* Each job's part of the step.
LEMMA LifecycleJobStep ==
    ASSUME ClaimInv, ClaimInv', JudgedInv, Next, NEW j \in Identity
    PROVE  Lifecycle!JobStep(j)
<1> DEFINE phase == [k \in Identity |-> PhaseOf(jobs[k].status)]
           requests == [k \in Identity |-> Cardinality(Calling(k))]
<1>1. /\ phase[j] = PhaseOf(jobs[j].status)
      /\ phase'[j] = PhaseOf(jobs'[j].status)
      /\ requests[j] = Cardinality(Calling(j))
      /\ requests'[j] = Cardinality(Calling(j)')
  OBVIOUS
<1>2. phase'[j] # phase[j] =>
        /\ <<phase[j], phase'[j]>> \in Lifecycle!Moves
        /\ phase'[j] = "done" => j \in judged
  <2>1. RowStep(j)
    BY RowSteps DEF ClaimInv
  <2>2. CASE jobs'[j].status = jobs[j].status
    BY <1>1, <2>2
  <2>3. CASE jobs'[j].status # jobs[j].status
    <3>1. <<jobs[j].status, jobs'[j].status>> \in StatusMoves
          /\ (jobs'[j].status = "done" => j \in judged)
      BY <2>1, <2>3 DEF RowStep
    <3>2. QED
      BY <1>1, <3>1, PhaseMoves
  <2>4. QED
    BY <2>2, <2>3
<1>3. \/ requests'[j] = 0
      \/ requests'[j] = requests[j]
      \/ /\ requests[j] = 0 /\ requests'[j] = 1
         /\ phase[j] \in {"held", "unknown"}
  <2>1. /\ Cardinality(Calling(j)) \in {0, 1}
        /\ Calling(j) = {} <=> Cardinality(Calling(j)) = 0
    BY OneCaller, AtMostOne DEF ClaimInv
  <2>2. /\ Cardinality(Calling(j)') \in {0, 1}
        /\ Calling(j)' = {} <=> Cardinality(Calling(j)') = 0
    BY OneCallerNext, AtMostOne DEF ClaimInv
  <2>3. CASE Calling(j)' \subseteq Calling(j)
    BY <1>1, <2>1, <2>2, <2>3
  <2>4. CASE /\ Calling(j) = {} /\ Calling(j)' # {}
             /\ jobs[j].status \in {"leased", "outcome_unknown"}
    <3>1. PhaseOf("leased") = "held" /\ PhaseOf("outcome_unknown") = "unknown"
      BY DEF PhaseOf, Waiting
    <3>2. QED
      BY <1>1, <2>1, <2>2, <2>4, <3>1
  <2>5. QED
    BY <2>3, <2>4, CallersStep
<1>4. QED
  BY <1>2, <1>3 DEF Lifecycle!JobStep

\* Every step of the outbox is a step of the life cycle, or changes nothing in it.
LEMMA LifecycleStep ==
    ClaimInv /\ ClaimInv' /\ JudgedInv /\ [Next]_vars => [Lifecycle!Next]_Lifecycle!vars
<1> SUFFICES ASSUME ClaimInv, ClaimInv', JudgedInv, [Next]_vars
             PROVE  [Lifecycle!Next]_Lifecycle!vars
  OBVIOUS
<1>1. CASE UNCHANGED vars
  BY <1>1 DEF vars, Lifecycle!vars, Calling
<1>2. CASE Next
  <2> DEFINE phase == [k \in Identity |-> PhaseOf(jobs[k].status)]
             requests == [k \in Identity |-> Cardinality(Calling(k))]
  <2>1. phase' \in [Identity -> Lifecycle!Phases]
    BY PhaseType DEF ClaimInv, TypeOK, Job
  <2>2. \A j \in Identity : Cardinality(Calling(j)') \in {0, 1}
    BY OneCallerNext, AtMostOne DEF ClaimInv
  <2>3. requests' \in [Identity -> {0, 1}]
    BY <2>2
  <2>4. judged \subseteq judged'
    BY <1>2 DEF Next, WorkerStep, WriteDetail, RehashDetail, ClassifyManually, ResolveRead,
                ResolveAdmit, BackoffEnds, LeaseLapses, StartBatch, LoadClaim, CheckSuccess,
                SendRequest, ReceiveResult, ClassifierRaises, RecheckSource, FinishClaim,
                Crash, Deploy
  <2>5. \A j \in Identity : Lifecycle!JobStep(j)
    BY <1>2, LifecycleJobStep
  <2>6. QED
    BY <2>1, <2>3, <2>4, <2>5 DEF Lifecycle!Next
<1>3. QED
  BY <1>1, <1>2

\* The writers, the resolver, the workers, their crashes and the deployments
\* together implement the life cycle of a job: no status change outside its graph,
\* no done job without its judgment, never two remote requests for one identity,
\* and none begun for a job that is not held.
THEOREM LifecycleImplemented == Spec => ImplementsLifecycle
<1>1. Init => ClaimInv /\ JudgedInv
  BY ClaimInit, JudgedInit
<1>2. ClaimInv /\ JudgedInv /\ [Next]_vars => (ClaimInv /\ JudgedInv)'
  BY ClaimStep, JudgedStep DEF ClaimInv
<1>3. QED
  BY <1>1, <1>2, LifecycleInit, LifecycleStep, PTL
     DEF Spec, ImplementsLifecycle, Lifecycle!Spec
=============================================================================
