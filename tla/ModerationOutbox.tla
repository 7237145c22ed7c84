--------------------------- MODULE ModerationOutbox ---------------------------
(***************************************************************************)
(* The Jev moderation outbox of core: detail writes that enqueue jobs in    *)
(* their own transaction (moderation_job_enqueue, moderation_source_hash),  *)
(* the homepage resolver that admits missing jobs, and the leased worker    *)
(* that calls the classifier outside every database lock and fences its     *)
(* writes with a lease token (moderation_job_worker).                       *)
(*                                                                          *)
(* Timestamps are abstracted to what the code compares them for: `due` is   *)
(* available_at <= now, `lapsed` is lease_until <= now.  A lease token is a *)
(* uuid4, fresh at every claim; the claim number of the job stands for it.  *)
(*                                                                          *)
(* An operator named D_x, just before D, is D with the plausible mistake x; *)
(* nothing uses it except the mutation runs that PROJECT.json lists.        *)
(***************************************************************************)
EXTENDS Naturals, FiniteSets

CONSTANTS Items,            \* content items
          Texts,            \* normalized moderation texts a detail may hold
          Revisions,        \* deployed state-builder / question revisions
          Workers,          \* run_moderation_worker processes
          BatchSize,        \* --batch-size
          MaxAttempts,      \* --max-attempts
          MayBeIncomplete,  \* can a written detail fail detail_is_complete?
          NoText,           \* a detail from which no state can be built
          NoHash,           \* current_moderation_source_hash IS NULL
          MaxWrites, MaxCrashes, MaxDeploys   \* bounds on the environment

ASSUME BoundsAssumption ==
    /\ BatchSize \in Nat \ {0}
    /\ MaxAttempts \in Nat \ {0}
    /\ MayBeIncomplete \in BOOLEAN
    /\ {MaxWrites, MaxCrashes, MaxDeploys} \subseteq Nat

ASSUME NullAssumption == NoText \notin Texts /\ NoHash \notin Texts \X Revisions

VARIABLES text,       \* the item's normalized detail text
          current,    \* ContentItem.current_moderation_source_hash
          jobs,       \* content_moderation_job, by identity
          judged,     \* identities with a COMPLETE judgment
          worker,     \* each worker process's local state
          snapshot,   \* what a resolver request has read and not yet used
          enabled,    \* MODERATION_CLASSIFICATION_ENABLED
          revision,   \* MODERATION_QUESTION_REVISION (and the state builder)
          lost,       \* history: requests whose worker died before recording
          timedOut,   \* history: requests the client reported as ambiguous
          budget      \* environment steps left

vars == <<text, current, jobs, judged, worker, snapshot, enabled, revision,
          lost, timedOut, budget>>
-----------------------------------------------------------------------------
Hashes == Texts \X Revisions
Identity == [item : Items, hash : Hashes, revision : Revisions]

Waiting == {"queued", "retry"}
Settled == {"done", "failed", "outcome_unknown"}
Status == Waiting \cup Settled \cup {"absent", "leased", "superseded"}

Job == [status : Status, attempts : Nat, due : BOOLEAN,
        token : Nat, lapsed : BOOLEAN]

Claim == [job : Identity, token : Nat \ {0}]
Outcomes == {"complete", "retryable", "ambiguous", "skipped"}
\* What _finish (a status) or _schedule_retry ("retry") is about to write.
Verdicts == {"done", "superseded", "failed", "outcome_unknown", "retry"}

\* Between two database accesses a worker is at one of these points.
Idle == [at |-> "idle"]
WorkerPoint ==
    {Idle}
    \cup [at : {"loaded", "unjudged", "calling"}, claim : Claim]
    \cup [at : {"returned"}, claim : Claim, outcome : Outcomes]
    \cup [at : {"finishing"}, claim : Claim, verdict : Verdicts]
WorkerState == [backlog : SUBSET Claim, point : WorkerPoint]

NoSnapshot == [item |-> NoHash, hash |-> NoHash, judged |-> FALSE]

TypeOK ==
    /\ text \in [Items -> Texts \cup {NoText}]
    /\ current \in [Items -> Hashes \cup {NoHash}]
    /\ jobs \in [Identity -> Job]
    /\ judged \subseteq Identity
    /\ worker \in [Workers -> WorkerState]
    /\ snapshot \in {NoSnapshot}
         \cup [item : Items, hash : Hashes, judged : BOOLEAN]
    /\ enabled \in BOOLEAN
    /\ revision \in Revisions
    /\ lost \subseteq Identity
    /\ timedOut \subseteq Identity
    /\ budget \in [writes : Nat, crashes : Nat, deploys : Nat]
-----------------------------------------------------------------------------
\* current_moderation_source_hash: the hash the deployed builder yields.
SourceHash(t) == IF t = NoText THEN NoHash ELSE <<t, revision>>

IdentityOf(i, h) == [item |-> i, hash |-> h, revision |-> revision]

\* Rewriting a row clears its lease and keeps its attempts; Queue sets
\* available_at to now.
Row(status, attempts, due, token) ==
    [status |-> status, attempts |-> attempts, due |-> due, token |-> token,
     lapsed |-> FALSE]
Rest(job, status) == Row(status, job.attempts, FALSE, 0)
Queue(job) == Row("queued", job.attempts, TRUE, 0)

\* Waiting jobs of the item for another source are superseded ...
Obsolete_heldToo(j, i, h) ==
    j.item = i /\ j.hash # h /\ jobs[j].status \in Waiting \cup {"leased"}
Obsolete(j, i, h) == j.item = i /\ j.hash # h /\ jobs[j].status \in Waiting

\* ... and a job that was superseded before is revived for the current one.
Revivable_unknownToo == {"absent", "superseded", "outcome_unknown"}
Revivable == {"absent", "superseded"}

\* enqueue_current_moderation_job(i, h), with `complete` what detail_is_complete
\* answers: the jobs table after the transaction.
EnqueueCurrent(i, h, complete) ==
    LET mine == IdentityOf(i, h)
        admit == h # NoHash /\ enabled /\ complete
    IN  [j \in Identity |->
          IF Obsolete(j, i, h) THEN Rest(jobs[j], "superseded")
          ELSE IF admit /\ j = mine
            THEN IF j \in judged
                   THEN IF jobs[j].status \in Waiting
                          THEN Rest(jobs[j], "done") ELSE jobs[j]
                   ELSE IF jobs[j].status \in Revivable
                          THEN Queue(jobs[j]) ELSE jobs[j]
          ELSE jobs[j]]

Init ==
    /\ text = [i \in Items |-> NoText]
    /\ current = [i \in Items |-> NoHash]
    /\ jobs = [j \in Identity |-> Row("absent", 0, FALSE, 0)]
    /\ judged = {}
    /\ worker = [w \in Workers |-> [backlog |-> {}, point |-> Idle]]
    /\ snapshot = NoSnapshot
    /\ enabled = TRUE
    /\ revision \in Revisions
    /\ lost = {} /\ timedOut = {}
    /\ budget = [writes |-> MaxWrites, crashes |-> MaxCrashes,
                 deploys |-> MaxDeploys]
-----------------------------------------------------------------------------
(* Writers of the detail and its hash.                                      *)

\* upsert_detail_with_moderation_hash: detail, hash and outbox row in one
\* transaction under the item's row lock.
WriteDetail(i, t, complete) ==
    /\ budget.writes > 0
    /\ budget' = [budget EXCEPT !.writes = @ - 1]
    /\ MayBeIncomplete \/ complete
    /\ text' = [text EXCEPT ![i] = t]
    /\ current' = [current EXCEPT ![i] = SourceHash(t)]
    /\ jobs' = EnqueueCurrent(i, SourceHash(t), complete)
    /\ UNCHANGED <<judged, worker, snapshot, enabled, revision, lost, timedOut>>

\* backfill_moderation_source_hashes: the hash alone, no outbox row.
RehashDetail(i) ==
    /\ text[i] # NoText
    /\ current[i] # SourceHash(text[i])
    /\ current' = [current EXCEPT ![i] = SourceHash(text[i])]
    /\ UNCHANGED <<text, jobs, judged, worker, snapshot, enabled, revision,
                   lost, timedOut, budget>>

\* backfill_content_moderation: the operator classifies without a job.
ClassifyManually(i) ==
    LET j == IdentityOf(i, SourceHash(text[i])) IN
    /\ enabled
    /\ text[i] # NoText
    /\ j \notin judged
    /\ judged' = judged \cup {j}
    /\ UNCHANGED <<text, current, jobs, worker, snapshot, enabled, revision,
                   lost, timedOut, budget>>
-----------------------------------------------------------------------------
(* ContentItemBulkResolveView.post: one item of the request, read and then  *)
(* admitted by enqueue_missing_moderation_jobs.                             *)

ResolveRead(i) ==
    /\ snapshot = NoSnapshot
    /\ enabled
    /\ current[i] # NoHash
    /\ snapshot' = [item |-> i, hash |-> current[i],
                    judged |-> \E j \in judged : j.item = i]
    /\ UNCHANGED <<text, current, jobs, judged, worker, enabled, revision,
                   lost, timedOut, budget>>

ResolveAdmit ==
    LET j == IdentityOf(snapshot.item, snapshot.hash)
        settled == jobs[j].status # "absent" \/ (snapshot.judged /\ j \in judged)
    IN
    /\ snapshot # NoSnapshot
    /\ jobs' = IF settled THEN jobs ELSE [jobs EXCEPT ![j] = Queue(@)]
    /\ snapshot' = NoSnapshot
    /\ UNCHANGED <<text, current, judged, worker, enabled, revision,
                   lost, timedOut, budget>>
-----------------------------------------------------------------------------
(* Time.                                                                    *)

BackoffEnds(j) ==
    /\ jobs[j].status = "retry" /\ ~jobs[j].due
    /\ jobs' = [jobs EXCEPT ![j].due = TRUE]
    /\ UNCHANGED <<text, current, judged, worker, snapshot, enabled, revision,
                   lost, timedOut, budget>>

LeaseLapses(j) ==
    /\ jobs[j].status = "leased" /\ ~jobs[j].lapsed
    /\ jobs' = [jobs EXCEPT ![j].lapsed = TRUE]
    /\ UNCHANGED <<text, current, judged, worker, snapshot, enabled, revision,
                   lost, timedOut, budget>>
-----------------------------------------------------------------------------
(* run_moderation_batch, claim_moderation_jobs.                             *)

Lapsed_ignored == {}
Lapsed == {j \in Identity : jobs[j].status = "leased" /\ jobs[j].lapsed}
Ready == {j \in Identity : jobs[j].status \in Waiting /\ jobs[j].due}

Leased_uncounted(job) == Row("leased", job.attempts, FALSE, job.attempts + 1)
\* A fresh token for each claim: no earlier claim of the job has this number.
Leased(job) == Row("leased", job.attempts + 1, FALSE, job.attempts + 1)

Expired_retried(job) == Rest(job, "retry")
\* An expired lease cannot tell whether the request was sent.
Expired(job) == Rest(job, "outcome_unknown")

\* expire_ambiguous_leases (repeated in the claim transaction), then a claim of
\* at most BatchSize ready rows, each with a fresh token.
StartBatch(w) ==
    /\ enabled
    /\ worker[w] = [backlog |-> {}, point |-> Idle]
    /\ Lapsed \cup Ready # {}
    /\ \E S \in SUBSET Ready :
         /\ Cardinality(S) <= BatchSize
         /\ Ready # {} => S # {}
         /\ jobs' = [j \in Identity |->
              IF j \in Lapsed THEN Expired(jobs[j])
              ELSE IF j \in S
                THEN Leased(jobs[j])
              ELSE jobs[j]]
         /\ worker' = [worker EXCEPT ![w].backlog =
              {[job |-> j, token |-> jobs[j].attempts + 1] : j \in S}]
    /\ UNCHANGED <<text, current, judged, snapshot, enabled, revision,
                   lost, timedOut, budget>>
-----------------------------------------------------------------------------
(* process_claim, one action per database access or remote call.            *)

Holds_unfenced(c) == TRUE
\* The fence of every worker write: pk, status LEASED and the lease token.
Holds(c) == jobs[c.job].status = "leased" /\ jobs[c.job].token = c.token

\* _job_is_current, against the materialized hash and the deployed revision.
IsCurrent(j) == current[j.item] = j.hash /\ j.revision = revision

MoveTo(w, p) == worker' = [worker EXCEPT ![w].point = p]

LoadClaim(w) ==
    /\ worker[w].point = Idle
    /\ \E c \in worker[w].backlog :
         worker' = [worker EXCEPT ![w] =
           [backlog |-> @.backlog \ {c},
            point |-> IF ~Holds(c) THEN Idle
                      ELSE IF ~IsCurrent(c.job)
                        THEN [at |-> "finishing", claim |-> c, verdict |-> "superseded"]
                      ELSE [at |-> "loaded", claim |-> c]]]
    /\ UNCHANGED <<text, current, jobs, judged, snapshot, enabled, revision,
                   lost, timedOut, budget>>

\* _has_current_success: a complete judgment of this identity is reused.
CheckSuccess(w) ==
    LET c == worker[w].point.claim IN
    /\ worker[w].point.at = "loaded"
    /\ MoveTo(w, IF c.job \in judged
                   THEN [at |-> "finishing", claim |-> c, verdict |-> "done"]
                   ELSE [at |-> "unjudged", claim |-> c])
    /\ UNCHANGED <<text, current, jobs, judged, snapshot, enabled, revision,
                   lost, timedOut, budget>>

\* _source_hash_is_outdated reads the detail; the classifier then works on that
\* same read.  A detail with no state is the classifier's 'state_unavailable'.
SendRequest(w) ==
    LET c == worker[w].point.claim
        h == SourceHash(text[c.job.item])
    IN
    /\ worker[w].point.at = "unjudged"
    /\ MoveTo(w,
         IF h = NoHash
           THEN [at |-> "returned", claim |-> c, outcome |-> "skipped"]
         ELSE IF h # c.job.hash
           THEN [at |-> "finishing", claim |-> c, verdict |-> "superseded"]
         ELSE [at |-> "calling", claim |-> c])
    /\ UNCHANGED <<text, current, jobs, judged, snapshot, enabled, revision,
                   lost, timedOut, budget>>

\* classify_content_item returns: a persisted judgment, a definitive failure
\* the worker may retry, or anything else (timeout, bad response).
ReceiveResult(w) ==
    LET c == worker[w].point.claim IN
    /\ worker[w].point.at = "calling"
    /\ \E o \in Outcomes \ {"skipped"} :
         /\ MoveTo(w, [at |-> "returned", claim |-> c, outcome |-> o])
         /\ judged' = IF o = "complete" THEN judged \cup {c.job} ELSE judged
         /\ timedOut' = IF o = "ambiguous" THEN timedOut \cup {c.job} ELSE timedOut
    /\ UNCHANGED <<text, current, jobs, snapshot, enabled, revision, lost, budget>>

\* The classifier raised: outcome unknown, with no re-check of the source.
ClassifierRaises(w) ==
    LET c == worker[w].point.claim IN
    /\ worker[w].point.at = "calling"
    /\ MoveTo(w, [at |-> "finishing", claim |-> c, verdict |-> "outcome_unknown"])
    /\ timedOut' = timedOut \cup {c.job}
    /\ UNCHANGED <<text, current, jobs, judged, snapshot, enabled, revision,
                   lost, budget>>

VerdictOf_raw(outcome) == outcome
VerdictOf_lenient(outcome) == IF outcome = "retryable" THEN "retry" ELSE "done"
\* What the worker decides from the outcome once the source is still current.
VerdictOf(outcome) ==
    CASE outcome = "complete"  -> "done"
      [] outcome = "retryable" -> "retry"
      [] outcome = "skipped"   -> "failed"
      [] outcome = "ambiguous" -> "outcome_unknown"

\* refresh_from_db of the hash: a source changed under the call supersedes.
RecheckSource(w) ==
    LET p == worker[w].point IN
    /\ p.at = "returned"
    /\ MoveTo(w, [at |-> "finishing", claim |-> p.claim,
                  verdict |-> IF IsCurrent(p.claim.job)
                                THEN VerdictOf(p.outcome) ELSE "superseded"])
    /\ UNCHANGED <<text, current, jobs, judged, snapshot, enabled, revision,
                   lost, timedOut, budget>>

\* _finish and _schedule_retry: the row the fenced UPDATE leaves.
Recorded(job, verdict) ==
    IF verdict # "retry" THEN Rest(job, verdict)
    ELSE IF job.attempts >= MaxAttempts THEN Rest(job, "failed")
    ELSE Rest(job, "retry")

FinishClaim(w) ==
    LET p == worker[w].point IN
    /\ p.at = "finishing"
    /\ jobs' = IF Holds(p.claim)
                 THEN [jobs EXCEPT ![p.claim.job] = Recorded(@, p.verdict)]
                 ELSE jobs
    /\ MoveTo(w, Idle)
    /\ UNCHANGED <<text, current, judged, snapshot, enabled, revision,
                   lost, timedOut, budget>>
-----------------------------------------------------------------------------
(* Failures and deployments.                                                *)

\* Requests whose answer dies with these workers.
InFlight(W) == {worker[w].point.claim.job :
                  w \in {v \in W : worker[v].point.at \in {"calling", "returned"}}}

\* A worker process dies; its supervisor starts a new one with no memory.
Crash(w) ==
    /\ budget.crashes > 0
    /\ worker[w] # [backlog |-> {}, point |-> Idle]
    /\ budget' = [budget EXCEPT !.crashes = @ - 1]
    /\ lost' = lost \cup InFlight({w})
    /\ worker' = [worker EXCEPT ![w] = [backlog |-> {}, point |-> Idle]]
    /\ UNCHANGED <<text, current, jobs, judged, snapshot, enabled, revision, timedOut>>

\* Settings are read at process start: changing them restarts every process.
Deploy(on, rev) ==
    /\ budget.deploys > 0
    /\ <<on, rev>> # <<enabled, revision>>
    /\ budget' = [budget EXCEPT !.deploys = @ - 1]
    /\ enabled' = on
    /\ revision' = rev
    /\ lost' = lost \cup InFlight(Workers)
    /\ worker' = [w \in Workers |-> [backlog |-> {}, point |-> Idle]]
    /\ snapshot' = NoSnapshot
    /\ UNCHANGED <<text, current, jobs, judged, timedOut>>
-----------------------------------------------------------------------------
WorkerStep(w) ==
    \/ StartBatch(w)
    \/ LoadClaim(w)
    \/ CheckSuccess(w)
    \/ SendRequest(w)
    \/ ReceiveResult(w)
    \/ ClassifierRaises(w)
    \/ RecheckSource(w)
    \/ FinishClaim(w)

Next ==
    \/ \E i \in Items, t \in Texts \cup {NoText}, complete \in BOOLEAN :
         WriteDetail(i, t, complete)
    \/ \E i \in Items : RehashDetail(i) \/ ClassifyManually(i) \/ ResolveRead(i)
    \/ ResolveAdmit
    \/ \E j \in Identity : BackoffEnds(j) \/ LeaseLapses(j)
    \/ \E w \in Workers : WorkerStep(w) \/ Crash(w)
    \/ \E on \in BOOLEAN, rev \in Revisions : Deploy(on, rev)

Spec == Init /\ [][Next]_vars

\* A worker process keeps running and each remote call returns or raises (the
\* client has a timeout), clocks advance, and the homepage keeps resolving the
\* catalog.  Writers, operators, crashes and deployments owe nothing.
ReceivesOrRaises(w) == ReceiveResult(w) \/ ClassifierRaises(w)
Fairness ==
    /\ \A w \in Workers :
         /\ WF_vars(StartBatch(w))
         /\ WF_vars(LoadClaim(w) \/ CheckSuccess(w) \/ SendRequest(w)
                     \/ ReceivesOrRaises(w) \/ RecheckSource(w) \/ FinishClaim(w))
    /\ \A j \in Identity : WF_vars(BackoffEnds(j)) /\ WF_vars(LeaseLapses(j))
    /\ \A i \in Items : SF_vars(ResolveRead(i))
    /\ WF_vars(ResolveAdmit)
FairSpec == Spec /\ Fairness
-----------------------------------------------------------------------------
(* Properties.                                                              *)

\* Every claim a worker process still remembers.
Claims(w) == worker[w].backlog
    \cup (IF worker[w].point = Idle THEN {} ELSE {worker[w].point.claim})

\* No job is ever in two hands: at most one worker process remembers a claim of
\* it, and remembers it once.  claim_moderation_jobs must never lease again a row
\* whose previous holder may still be running, lapsed lease or not.
SoleClaimant ==
    \A v, w \in Workers : \A c \in Claims(v), d \in Claims(w) :
      c.job = d.job => v = w /\ c = d

\* A worker that has lost its fence finds the job in outcome_unknown: nothing but
\* the expiry of its lease takes a job away from a worker that holds it.
FencedOutIsUnknown ==
    \A w \in Workers : \A c \in Claims(w) :
      ~Holds(c) => jobs[c.job].status = "outcome_unknown"

\* A done job has a complete judgment of its own identity, whichever of the three
\* paths (enqueue, reuse, classification) wrote the status.
DoneIsJudged == \A j \in Identity : jobs[j].status = "done" => j \in judged

\* A request whose worker died before recording its answer is never sent again:
\* its job can only wait for its lease to lapse into outcome_unknown.
LostIsNeverResent ==
    \A w \in Workers :
      worker[w].point.at = "calling" => worker[w].point.claim.job \notin lost

\* done, failed and outcome_unknown are final: no worker, enqueue or resolver
\* request that read an older state takes a job out of them.
SettledIsFinal ==
    [][\A j \in Identity :
         jobs[j].status \in Settled => jobs'[j].status = jobs[j].status]_vars

\* A job leaves its lease, also when its worker crashed, as long as the
\* classification stays enabled.
LeaseIsReleased ==
    \A j \in Identity :
      jobs[j].status = "leased" ~> (jobs[j].status # "leased" \/ ~enabled)

\* A waiting job is eventually settled or superseded: retries end.
WaitingEnds ==
    \A j \in Identity :
      jobs[j].status \in Waiting ~>
        (jobs[j].status \in Settled \cup {"superseded"} \/ ~enabled)

\* docs: the homepage heals itself without operator action, except for failed and
\* outcome_unknown jobs.  An item whose current source has no judgment gets one,
\* fails, becomes unknown, or changes its source.
Unclassified(i, h) == current[i] = h /\ IdentityOf(i, h) \notin judged
HomepageHeals ==
    \A i \in Items : \A h \in Hashes :
      Unclassified(i, h) ~>
        (~Unclassified(i, h)
         \/ jobs[IdentityOf(i, h)].status \in {"failed", "outcome_unknown"})

\* docs: timeouts become outcome_unknown and must be reconciled by an operator
\* before any retry.  A request the client gave up on is not sent again.
TimeoutIsNeverResent ==
    \A w \in Workers :
      worker[w].point.at = "calling" =>
        worker[w].point.claim.job \notin timedOut
-----------------------------------------------------------------------------
(* The outbox implements the life cycle of a job (ModerationLifecycle).     *)

PhaseOf(status) ==
    CASE status \in Waiting -> "waiting"
      [] status = "leased" -> "held"
      [] status = "outcome_unknown" -> "unknown"
      [] OTHER -> status

Calling(j) == {w \in Workers : /\ worker[w].point.at = "calling"
                               /\ worker[w].point.claim.job = j}

Lifecycle == INSTANCE ModerationLifecycle WITH
    phase <- [j \in Identity |-> PhaseOf(jobs[j].status)],
    results <- judged,
    requests <- [j \in Identity |-> Cardinality(Calling(j))]

\* Every step of the writers, the resolver and the workers is a step of the life
\* cycle: no forbidden status change and never two requests for one identity.
ImplementsLifecycle == Lifecycle!Spec
=============================================================================
