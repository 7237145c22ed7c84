------------------------- MODULE MetadataPreparation -------------------------
(***************************************************************************)
(* Preparation of normalized detail for homepage identities: the resolver   *)
(* admits a bounded number of jobs behind a round-robin cursor              *)
(* (metadata_preparation_enqueue), and leased workers reconcile an existing *)
(* detail or fetch a missing one, with every write guarded by the lease     *)
(* (metadata_preparation_worker, and fetch_bulk_source_data of the          *)
(* orchestrator with its persistence guard).                                *)
(*                                                                          *)
(* A detail is abstracted to what the worker tells apart: none, textless    *)
(* (no moderation state can be built: its hash is NULL), partial (fails     *)
(* detail_is_complete) or full.  Timestamps and tokens are abstracted as in *)
(* ModerationOutbox; D_x is a mistaken variant of D, used by mutants only.  *)
(***************************************************************************)
EXTENDS Naturals, FiniteSets

CONSTANTS Items,        \* primary keys of the content items, positive
          Workers,      \* run_metadata_preparation_worker processes
          Resolvers,    \* requests being resolved concurrently
          BatchSize,    \* --batch-size
          MaxAttempts,  \* --max-attempts
          MaxPending,   \* MAX_PENDING_METADATA_PREPARATION_JOBS
          Legacy,       \* details written before hashes were materialized
          Contents,     \* details a provider payload may yield
          MaxWrites, MaxCrashes, MaxSwitches   \* bounds on the environment

\* Primary keys of the catalog rows, of which there are finitely many.
ASSUME ItemsAssumption == Items \subseteq Nat \ {0} /\ IsFiniteSet(Items)
ASSUME LimitsAssumption ==
    {BatchSize, MaxAttempts, MaxPending} \subseteq Nat \ {0}
ASSUME ContentsAssumption == (Legacy \cup Contents) \subseteq {"textless", "partial", "full"}
ASSUME BudgetAssumption == {MaxWrites, MaxCrashes, MaxSwitches} \subseteq Nat

VARIABLES jobs,      \* content_metadata_preparation_job, one row per item
          cursor,    \* last_admitted_content_item_id, 0 for NULL
          detail,    \* the item's normalized detail
          hashed,    \* current_moderation_source_hash IS NOT NULL
          enqueued,  \* did a detail transaction enqueue moderation of the current source?
          author,    \* history: attempt whose guarded write the detail is, or 0
          worker,    \* each worker process's batch
          resolver,  \* candidates a request has read and not yet admitted
          enabled,   \* MODERATION_CLASSIFICATION_ENABLED
          budget     \* environment steps left

vars == <<jobs, cursor, detail, hashed, enqueued, author, worker, resolver,
          enabled, budget>>
-----------------------------------------------------------------------------
Waiting == {"queued", "retry"}
Active_retryForgotten == {"queued", "leased"}
Active_everyRow == Waiting \cup {"leased", "done", "failed"}
\* ACTIVE_STATUSES: the rows that count against the cap.
Active == Waiting \cup {"leased"}
Settled == {"done", "failed"}
Status == Active \cup Settled \cup {"absent"}

Job == [status : Status, attempts : Nat, due : BOOLEAN,
        token : Nat, lapsed : BOOLEAN]
Claim == [item : Items, token : Nat \ {0}]

Detail == {"none", "textless", "partial", "full"}

\* A batch: claims not yet loaded, then split by whether a detail exists, the
\* provider's payloads still to persist, the items the fetch has an answer for,
\* and the job updates still to write.
Batch == [at : {"ready", "claimed", "persisting"},
          unread : SUBSET Claim, existing : SUBSET Claim, missing : SUBSET Claim,
          arrived : SUBSET [claim : Claim, content : Contents],
          answered : SUBSET Items,
          verdicts : SUBSET [claim : Claim, verdict : {"done", "retry"}]]
NoBatch == [at |-> "ready", unread |-> {}, existing |-> {}, missing |-> {},
            arrived |-> {}, answered |-> {}, verdicts |-> {}]

Request == [at : {"idle", "read", "filtered"}, candidates : SUBSET Items]
NoRequest == [at |-> "idle", candidates |-> {}]

TypeOK ==
    /\ jobs \in [Items -> Job]
    /\ cursor \in Items \cup {0}
    /\ detail \in [Items -> Detail]
    /\ hashed \in [Items -> BOOLEAN] /\ enqueued \in [Items -> BOOLEAN]
    /\ author \in [Items -> Nat]
    /\ worker \in [Workers -> Batch]
    /\ resolver \in [Resolvers -> Request]
    /\ enabled \in BOOLEAN
    /\ budget \in [writes : Nat, crashes : Nat, switches : Nat]
-----------------------------------------------------------------------------
Row(status, attempts, due, token) ==
    [status |-> status, attempts |-> attempts, due |-> due, token |-> token,
     lapsed |-> FALSE]

HasState(content) == content \in {"partial", "full"}

\* Hashes are materialized by the code below: legacy details have none.
Init ==
    /\ jobs = [i \in Items |-> Row("absent", 0, FALSE, 0)]
    /\ cursor = 0
    /\ detail \in [Items -> Legacy \cup {"none"}]
    /\ hashed = [i \in Items |-> FALSE] /\ enqueued = [i \in Items |-> FALSE]
    /\ author = [i \in Items |-> 0]
    /\ worker = [w \in Workers |-> NoBatch]
    /\ resolver = [r \in Resolvers |-> NoRequest]
    /\ enabled = TRUE
    /\ budget = [writes |-> MaxWrites, crashes |-> MaxCrashes,
                 switches |-> MaxSwitches]
-----------------------------------------------------------------------------
(* upsert_detail_with_moderation_hash, in the transaction of its caller.    *)

Upsert(i, content) ==
    /\ detail' = [detail EXCEPT ![i] = content]
    /\ hashed' = [hashed EXCEPT ![i] = HasState(content)]
    /\ enqueued' = [enqueued EXCEPT ![i] = enabled /\ content = "full"]

\* An ordinary read or ingest of the item, outside the preparation workers.
OtherWrite(i, content) ==
    /\ budget.writes > 0
    /\ budget' = [budget EXCEPT !.writes = @ - 1]
    /\ Upsert(i, content)
    /\ UNCHANGED <<jobs, cursor, author, worker, resolver, enabled>>
-----------------------------------------------------------------------------
(* ContentItemBulkResolveView.post and enqueue_metadata_preparation.        *)

Lacking(i) == detail[i] = "none" \/ ~hashed[i]

ResolveRead(r, requested) ==
    /\ enabled
    /\ resolver[r].at = "idle"
    /\ \E i \in requested : Lacking(i)
    /\ resolver' = [resolver EXCEPT ![r] =
         [at |-> "read", candidates |-> {i \in requested : Lacking(i)}]]
    /\ UNCHANGED <<jobs, cursor, detail, hashed, enqueued, author, worker,
                   enabled, budget>>

\* Existing rows are filtered before the cursor is locked.
FilterExisting(r) ==
    LET left == {i \in resolver[r].candidates : jobs[i].status = "absent"} IN
    /\ resolver[r].at = "read"
    /\ resolver' = [resolver EXCEPT ![r] =
         IF left = {} THEN NoRequest ELSE [at |-> "filtered", candidates |-> left]]
    /\ UNCHANGED <<jobs, cursor, detail, hashed, enqueued, author, worker,
                   enabled, budget>>

\* The candidates beyond the cursor come first, each half by primary key.
Passed(i) == cursor # 0 /\ i <= cursor
Before(i, k) == \/ ~Passed(i) /\ Passed(k)
                \/ (Passed(i) <=> Passed(k)) /\ i < k

Slots(pending) == IF pending < MaxPending THEN MaxPending - pending ELSE 0

Insertable_overwrites(i) == TRUE
\* ignore_conflicts: one row per content item.
Insertable(i) == jobs[i].status = "absent"

\* The transaction under the cursor's row lock: count, choose, insert (rows a
\* concurrent request inserted meanwhile are ignored), advance the cursor.
Admit(r) ==
    LET candidates == resolver[r].candidates
        slots == Slots(Cardinality({i \in Items : jobs[i].status \in Active}))
        admitted == {i \in candidates :
                       Cardinality({k \in candidates : Before(k, i)}) < slots}
    IN
    /\ resolver[r].at = "filtered"
    /\ jobs' = [i \in Items |->
         IF i \in admitted /\ Insertable(i)
           THEN Row("queued", 0, TRUE, 0) ELSE jobs[i]]
    /\ IF admitted = {} THEN cursor' = cursor
       ELSE \E last \in admitted :
              /\ \A k \in admitted \ {last} : Before(k, last)
              /\ cursor' = last
    /\ resolver' = [resolver EXCEPT ![r] = NoRequest]
    /\ UNCHANGED <<detail, hashed, enqueued, author, worker, enabled, budget>>
-----------------------------------------------------------------------------
(* Time.                                                                    *)

BackoffEnds(i) ==
    /\ jobs[i].status = "retry" /\ ~jobs[i].due
    /\ jobs' = [jobs EXCEPT ![i].due = TRUE]
    /\ UNCHANGED <<cursor, detail, hashed, enqueued, author, worker, resolver,
                   enabled, budget>>

LeaseLapses(i) ==
    /\ jobs[i].status = "leased" /\ ~jobs[i].lapsed
    /\ jobs' = [jobs EXCEPT ![i].lapsed = TRUE]
    /\ UNCHANGED <<cursor, detail, hashed, enqueued, author, worker, resolver,
                   enabled, budget>>
-----------------------------------------------------------------------------
(* claim_metadata_preparation_jobs.                                         *)

Lapsed_ignored(i) == FALSE
Lapsed(i) == jobs[i].status = "leased" /\ jobs[i].lapsed

Expired_alwaysRetried(job) == Row("retry", job.attempts, TRUE, 0)
\* A metadata GET is idempotent: an expired lease is retried while it may be.
Expired(job) ==
    IF job.attempts >= MaxAttempts THEN Row("failed", job.attempts, FALSE, 0)
    ELSE Row("retry", job.attempts, TRUE, 0)

Leased_noToken(job) == Row("leased", job.attempts + 1, FALSE, 0)
Leased_sameToken(job) == Row("leased", job.attempts + 1, FALSE, 1)
\* A fresh token for each claim: no earlier claim of the job has this number.
Leased(job) == Row("leased", job.attempts + 1, FALSE, job.attempts + 1)

ClaimBatch(w) ==
    LET expired == [i \in Items |->
                      IF Lapsed(i) THEN Expired(jobs[i]) ELSE jobs[i]]
        ready == {i \in Items : expired[i].status \in Waiting /\ expired[i].due}
    IN
    /\ worker[w] = NoBatch
    /\ ready # {} \/ \E i \in Items : Lapsed(i)
    /\ \E S \in SUBSET ready :
         /\ Cardinality(S) <= BatchSize
         /\ ready # {} => S # {}
         /\ jobs' = [i \in Items |-> IF i \in S THEN Leased(expired[i])
                                     ELSE expired[i]]
         /\ worker' = [worker EXCEPT ![w] =
              IF S = {} THEN NoBatch
              ELSE [NoBatch EXCEPT !.at = "claimed",
                      !.unread = {[item |-> i, token |-> jobs'[i].token] : i \in S}]]
    /\ UNCHANGED <<cursor, detail, hashed, enqueued, author, resolver, enabled,
                   budget>>
-----------------------------------------------------------------------------
(* run_metadata_preparation_batch, one action per transaction.              *)

Holds_unfenced(c) == TRUE
\* The fence of every write: LEASED, this token, and a lease still running.
Holds(c) == /\ jobs[c.item].status = "leased"
            /\ jobs[c.item].token = c.token
            /\ ~jobs[c.item].lapsed

LoadBatch(w) ==
    LET read == {c \in worker[w].unread : detail[c.item] # "none"} IN
    /\ worker[w].at = "claimed"
    /\ worker' = [worker EXCEPT ![w] =
         [NoBatch EXCEPT !.existing = read, !.missing = worker[w].unread \ read]]
    /\ UNCHANGED <<jobs, cursor, detail, hashed, enqueued, author, resolver,
                   enabled, budget>>

Verdict(c, v) == [claim |-> c, verdict |-> v]

Reconciled_hashOnly(i) == enqueued[i]
\* enqueue_current_moderation_job, with a hash and a detail as they are.
Reconciled(i) == enqueued[i] \/ (enabled /\ detail[i] = "full")

\* _reconcile_existing_detail: rebuild the hash and enqueue moderation work while
\* the job row is locked; a hash that cannot be rebuilt is a retry.
Reconcile(w) ==
    /\ worker[w].verdicts = {}
    /\ \E c \in worker[w].existing :
         LET i == c.item
             prepared == HasState(detail[i]) \/ ~enabled
         IN
         /\ worker' = [worker EXCEPT ![w].existing = @ \ {c},
              ![w].verdicts = IF ~Holds(c) THEN {}
                              ELSE {Verdict(c, IF prepared THEN "done" ELSE "retry")}]
         /\ hashed' = [hashed EXCEPT ![i] =
              IF Holds(c) THEN HasState(detail[i]) ELSE @]
         /\ enqueued' = [enqueued EXCEPT ![i] =
              IF Holds(c) THEN HasState(detail[i]) /\ Reconciled(i) ELSE @]
    /\ UNCHANGED <<jobs, cursor, detail, author, resolver, enabled, budget>>

\* fetch_bulk_source_data, up to the provider's answer: a detail written since
\* LoadBatch is served from the database, a partial one is fetched again and
\* served as it is when the provider does not answer.
FetchMissing(w) ==
    LET b == worker[w]
        local == {c \in b.missing : detail[c.item] \in {"textless", "full"}}
        partial == {c \in b.missing : detail[c.item] = "partial"}
    IN
    /\ b.at = "ready" /\ b.existing = {} /\ b.verdicts = {} /\ b.missing # {}
    /\ \E replied \in SUBSET (b.missing \ local) :
       \E content \in [replied -> Contents] :
         worker' = [worker EXCEPT ![w] =
           [b EXCEPT !.at = "persisting",
             !.arrived = {[claim |-> c, content |-> content[c]] : c \in replied},
             !.answered = {c.item : c \in local \cup (partial \ replied)}]]
    /\ UNCHANGED <<jobs, cursor, detail, hashed, enqueued, author, resolver,
                   enabled, budget>>

\* One guarded write.  A mapper that fails rolls back, and the provider's payload
\* still counts as an answer; a denied write leaves no answer.
Persist(w) ==
    \E p \in worker[w].arrived :
      LET i == p.claim.item IN
      /\ worker' = [worker EXCEPT ![w].arrived = @ \ {p},
           ![w].answered = IF Holds(p.claim) THEN @ \cup {i} ELSE @]
      /\ \/ /\ Holds(p.claim)
            /\ Upsert(i, p.content)
            /\ author' = [author EXCEPT ![i] = p.claim.token]
         \/ UNCHANGED <<detail, hashed, enqueued, author>>
      /\ UNCHANGED <<jobs, cursor, resolver, enabled, budget>>

\* The fetch raised: whatever was persisted, no item has an answer.
FetchRaises(w) ==
    /\ worker[w].at = "persisting"
    /\ worker[w].arrived # {} \/ worker[w].answered # {}
    /\ worker' = [worker EXCEPT ![w].arrived = {}, ![w].answered = {}]
    /\ UNCHANGED <<jobs, cursor, detail, hashed, enqueued, author, resolver,
                   enabled, budget>>

Prepared_payloadOnly(b, c) == c.item \in b.answered
Prepared(b, c) == c.item \in b.answered /\ detail[c.item] # "none"

\* The details are read again: done needs an answer and a persisted detail.
Collect(w) ==
    LET b == worker[w] IN
    /\ b.at = "persisting" /\ b.arrived = {}
    /\ worker' = [worker EXCEPT ![w] = [NoBatch EXCEPT !.verdicts =
         {Verdict(c, IF Prepared(b, c) THEN "done" ELSE "retry") : c \in b.missing}]]
    /\ UNCHANGED <<jobs, cursor, detail, hashed, enqueued, author, resolver,
                   enabled, budget>>

\* _finish and _retry_or_fail: the row the fenced UPDATE leaves.
Recorded(job, verdict) ==
    IF verdict = "done" THEN Row("done", job.attempts, FALSE, 0)
    ELSE IF job.attempts >= MaxAttempts THEN Row("failed", job.attempts, FALSE, 0)
    ELSE Row("retry", job.attempts, FALSE, 0)

Record(w) ==
    \E v \in worker[w].verdicts :
      LET i == v.claim.item IN
      /\ worker' = [worker EXCEPT ![w].verdicts = @ \ {v}]
      /\ jobs' = [jobs EXCEPT ![i] =
           IF Holds(v.claim) THEN Recorded(@, v.verdict) ELSE @]
      /\ UNCHANGED <<cursor, detail, hashed, enqueued, author, resolver, enabled,
                     budget>>
-----------------------------------------------------------------------------
(* Failures and deployments.                                                *)

Crash(w) ==
    /\ budget.crashes > 0 /\ worker[w] # NoBatch
    /\ budget' = [budget EXCEPT !.crashes = @ - 1]
    /\ worker' = [worker EXCEPT ![w] = NoBatch]
    /\ UNCHANGED <<jobs, cursor, detail, hashed, enqueued, author, resolver, enabled>>

\* The flag is read at process start: switching it restarts every process.
Switch ==
    /\ budget.switches > 0
    /\ budget' = [budget EXCEPT !.switches = @ - 1]
    /\ enabled' = ~enabled
    /\ worker' = [w \in Workers |-> NoBatch]
    /\ resolver' = [r \in Resolvers |-> NoRequest]
    /\ UNCHANGED <<jobs, cursor, detail, hashed, enqueued, author>>
-----------------------------------------------------------------------------
WorkOnBatch(w) ==
    \/ LoadBatch(w)
    \/ Reconcile(w)
    \/ FetchMissing(w)
    \/ Persist(w)
    \/ FetchRaises(w)
    \/ Collect(w)
    \/ Record(w)

Next ==
    \/ \E i \in Items, content \in Contents : OtherWrite(i, content)
    \/ \E r \in Resolvers :
         \/ \E requested \in SUBSET Items : ResolveRead(r, requested)
         \/ FilterExisting(r)
         \/ Admit(r)
    \/ \E i \in Items : BackoffEnds(i) \/ LeaseLapses(i)
    \/ \E w \in Workers : ClaimBatch(w) \/ WorkOnBatch(w) \/ Crash(w)
    \/ Switch

Spec == Init /\ [][Next]_vars

\* Worker processes keep running and every provider call returns (the client has
\* a timeout), clocks advance, and the homepage keeps resolving its catalog.
Fairness ==
    /\ \A w \in Workers : WF_vars(ClaimBatch(w)) /\ WF_vars(WorkOnBatch(w))
    /\ \A i \in Items : WF_vars(BackoffEnds(i)) /\ WF_vars(LeaseLapses(i))
    /\ \A r \in Resolvers :
         /\ SF_vars(ResolveRead(r, Items))
         /\ WF_vars(FilterExisting(r)) /\ WF_vars(Admit(r))
FairSpec == Spec /\ Fairness
-----------------------------------------------------------------------------
(* Properties.                                                              *)

\* Every claim a worker process still remembers.
Claims(w) == worker[w].unread \cup worker[w].existing \cup worker[w].missing
    \cup {v.claim : v \in worker[w].verdicts}

\* Admissions never leave more active rows than the cap, whichever requests read
\* their candidates before the others' transactions and whatever is retried.
PendingBounded == Cardinality({i \in Items : jobs[i].status \in Active}) <= MaxPending

\* Expired leases, failed fetches and crashes together spend at most MaxAttempts
\* attempts, so at most that many provider requests per item.
AttemptsBounded == \A i \in Items : jobs[i].attempts <= MaxAttempts

\* Of the workers that still remember a claim of a job, at most one passes the
\* fence: a reclaimed lease never validates the previous holder's token.
OneFence ==
    \A v, w \in Workers : \A c \in Claims(v), d \in Claims(w) :
      c.item = d.item /\ Holds(c) /\ Holds(d) => v = w

\* docs: a reclaimed worker cannot persist stale detail.  Guarded writes of one
\* item come in the order of the claims, and none after the job is settled.
StaleIsNeverPersisted ==
    [][\A i \in Items :
         author'[i] # author[i] =>
           author'[i] > author[i] /\ jobs[i].status \notin Settled]_vars

\* A done job has a detail, by whichever path it was finished.
DoneHasDetail == \A i \in Items : jobs[i].status = "done" => detail[i] # "none"

\* A job that becomes done leaves a complete detail classifiable: its hash is
\* materialized and moderation work exists, whoever wrote the detail and when.
DoneIsEnqueued ==
    [][\A i \in Items :
         /\ jobs[i].status # "done" /\ jobs'[i].status = "done"
         /\ enabled /\ detail[i] = "full"
         => hashed[i] /\ enqueued[i]]_vars

\* done and failed rows never change status: no stale worker, expiry or
\* concurrent admission takes a job out of them.
SettledIsFinal ==
    [][\A i \in Items :
         jobs[i].status \in Settled => jobs'[i].status = jobs[i].status]_vars

\* Retries, lapses and crashes end: every admitted job is settled.
PreparationEnds == \A i \in Items : jobs[i].status \in Active ~> jobs[i].status \in Settled

\* docs: a saturated producer may leave identities without a job until capacity
\* returns.  An identity that keeps lacking its detail gets its job.
AdmittedEventually ==
    \A i \in Items :
      (Lacking(i) /\ enabled) ~> (jobs[i].status # "absent" \/ ~Lacking(i) \/ ~enabled)
=============================================================================
