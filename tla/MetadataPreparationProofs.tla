---------------------- MODULE MetadataPreparationProofs ----------------------
(* Proofs about MetadataPreparation, for any items, workers, requests and    *)
(* bounds.  Every step is described from two sides, the job rows (JobMove)   *)
(* and the claims the workers remember (ClaimsShrink), and the invariant is  *)
(* proved from these descriptions.                                           *)
EXTENDS MetadataPreparation, FiniteSetTheorems, TLAPS

LEMMA RowType ==
    ASSUME NEW s \in Status, NEW n \in Nat, NEW due \in BOOLEAN, NEW t \in Nat
    PROVE  Row(s, n, due, t) \in Job
  BY DEF Row, Job

LEMMA JobRewrites ==
    ASSUME NEW job \in Job
    PROVE  /\ Expired(job) \in Job
           /\ Leased(job) \in Job
           /\ \A v \in {"done", "retry"} : Recorded(job, v) \in Job
           /\ [job EXCEPT !.due = TRUE] \in Job
           /\ [job EXCEPT !.lapsed = TRUE] \in Job
<1> DEFINE n == job.attempts
<1>1. n \in Nat /\ n + 1 \in Nat
  BY DEF Job
<1>2. {"leased", "retry", "failed", "done"} \subseteq Status
  BY DEF Status, Active, Waiting, Settled
<1>3. /\ Row("leased", n + 1, FALSE, n + 1) \in Job
      /\ Row("retry", n, TRUE, 0) \in Job /\ Row("retry", n, FALSE, 0) \in Job
      /\ Row("failed", n, FALSE, 0) \in Job /\ Row("done", n, FALSE, 0) \in Job
  BY <1>1, <1>2, RowType
<1>4. QED
  BY <1>3 DEF Expired, Leased, Recorded, Job

-----------------------------------------------------------------------------
\* What one step may do to the job of an item.
JobMove(i) ==
    \/ jobs'[i] = jobs[i]
    \/ jobs[i].status = "absent" /\ jobs'[i] = Row("queued", 0, TRUE, 0)
    \/ jobs[i].status = "retry" /\ jobs'[i] = [jobs[i] EXCEPT !.due = TRUE]
    \/ jobs[i].status = "leased" /\ jobs'[i] = [jobs[i] EXCEPT !.lapsed = TRUE]
    \/ Lapsed(i) /\ jobs'[i] = Expired(jobs[i])
    \/ jobs[i].status \in Waiting /\ jobs'[i] = Leased(jobs[i])
    \/ /\ Lapsed(i) /\ Expired(jobs[i]).status \in Waiting
       /\ jobs'[i] = Leased(Expired(jobs[i]))
    \/ /\ jobs[i].status = "leased"
       /\ \E v \in {"done", "retry"} : jobs'[i] = Recorded(jobs[i], v)

\* The worker steps that only shrink what is remembered of the claims.
ClaimsShrink == \A w \in Workers : Claims(w)' \subseteq Claims(w)

LEMMA BatchShape ==
    ASSUME TypeOK, NEW w \in Workers
    PROVE  /\ worker[w] \in Batch
           /\ Claims(w) \subseteq Claim
           /\ \A p \in worker[w].arrived : p.claim \in Claim /\ p.claim.item \in Items
           /\ \A v \in worker[w].verdicts :
                /\ v.claim \in Claim /\ v.claim.item \in Items
                /\ v.verdict \in {"done", "retry"}
<1>1. worker[w] \in Batch
  BY DEF TypeOK
<1>2. QED
  BY <1>1 DEF Batch, Claims, Claim

LEMMA ClaimsOfNothing == /\ NoBatch \in Batch
                         /\ NoBatch.unread = {} /\ NoBatch.existing = {}
                         /\ NoBatch.missing = {} /\ NoBatch.verdicts = {}
                         /\ NoBatch.arrived = {}
  BY DEF NoBatch, Batch

\* Claiming: the rows it changes, and the claims it hands to the worker.
LEMMA ClaimBatchMoves ==
    ASSUME TypeOK, NEW w \in Workers, ClaimBatch(w)
    PROVE  /\ \A i \in Items : JobMove(i)
           /\ \A v \in Workers \ {w} : worker'[v] = worker[v]
           /\ \E S \in SUBSET Items :
                /\ \A i \in S : jobs'[i].token = jobs[i].attempts + 1
                                /\ jobs'[i].attempts = jobs[i].attempts + 1
                /\ worker'[w].unread = {[item |-> i, token |-> jobs'[i].token] : i \in S}
                /\ worker'[w] = [NoBatch EXCEPT !.at = "claimed", !.unread = worker'[w].unread]
                   \/ worker'[w] = NoBatch
<1> DEFINE expired == [i \in Items |-> IF Lapsed(i) THEN Expired(jobs[i]) ELSE jobs[i]]
           ready == {i \in Items : expired[i].status \in Waiting /\ expired[i].due}
<1>1. PICK S \in SUBSET ready :
        /\ jobs' = [i \in Items |-> IF i \in S THEN Leased(expired[i]) ELSE expired[i]]
        /\ worker' = [worker EXCEPT ![w] =
             IF S = {} THEN NoBatch
             ELSE [NoBatch EXCEPT !.at = "claimed",
                     !.unread = {[item |-> i, token |-> jobs'[i].token] : i \in S}]]
  BY DEF ClaimBatch
<1>2. S \subseteq Items
  OBVIOUS
<1>3. \A i \in Items : JobMove(i)
  <2> SUFFICES ASSUME NEW i \in Items PROVE JobMove(i)
    OBVIOUS
  <2>1. CASE i \in S
    BY <1>1, <2>1 DEF JobMove
  <2>2. CASE i \notin S
    BY <1>1, <2>2 DEF JobMove
  <2>3. QED
    BY <2>1, <2>2
<1>4. \A i \in S : jobs'[i].token = jobs[i].attempts + 1
                   /\ jobs'[i].attempts = jobs[i].attempts + 1
  <2> SUFFICES ASSUME NEW i \in S
               PROVE  jobs'[i].token = jobs[i].attempts + 1
                      /\ jobs'[i].attempts = jobs[i].attempts + 1
    OBVIOUS
  <2>1. expired[i].attempts = jobs[i].attempts
    BY <1>2 DEF Expired, Row
  <2>2. jobs'[i] = Leased(expired[i])
    BY <1>1, <1>2
  <2> HIDE DEF expired
  <2>3. QED
    BY <2>1, <2>2 DEF Leased, Row
<1>5. \A v \in Workers \ {w} : worker'[v] = worker[v]
  BY <1>1 DEF TypeOK
<1>6. /\ worker'[w].unread = {[item |-> i, token |-> jobs'[i].token] : i \in S}
      /\ worker'[w] = [NoBatch EXCEPT !.at = "claimed", !.unread = worker'[w].unread]
         \/ worker'[w] = NoBatch
  <2> DEFINE cs == {[item |-> i, token |-> jobs'[i].token] : i \in S}
  <2>1. worker'[w] = IF S = {} THEN NoBatch
                     ELSE [NoBatch EXCEPT !.at = "claimed", !.unread = cs]
    BY <1>1 DEF TypeOK
  <2>2. S = {} => cs = {}
    OBVIOUS
  <2> HIDE DEF cs
  <2>3. [NoBatch EXCEPT !.at = "claimed", !.unread = cs].unread = cs /\ NoBatch.unread = {}
    BY DEF NoBatch
  <2>4. QED
    BY <2>1, <2>2, <2>3 DEF cs
<1>7. QED
  BY <1>2, <1>3, <1>4, <1>5, <1>6
-----------------------------------------------------------------------------
\* Type correctness, action by action.
LEMMA TypeInit == Init => TypeOK
<1> SUFFICES ASSUME Init PROVE TypeOK
  OBVIOUS
<1>1. Row("absent", 0, FALSE, 0) \in Job
  BY RowType DEF Status
<1>2. detail \in [Items -> Detail]
  BY ContentsAssumption DEF Init, Detail
<1>3. NoRequest \in Request
  BY DEF NoRequest, Request
<1>4. [writes |-> MaxWrites, crashes |-> MaxCrashes, switches |-> MaxSwitches]
        \in [writes : Nat, crashes : Nat, switches : Nat]
  BY BudgetAssumption
<1>5. QED
  BY <1>1, <1>2, <1>3, <1>4, ClaimsOfNothing DEF Init, TypeOK

LEMMA UpsertType ==
    ASSUME TypeOK, NEW i \in Items, NEW content \in Contents, Upsert(i, content)
    PROVE  /\ detail' \in [Items -> Detail]
           /\ hashed' \in [Items -> BOOLEAN] /\ enqueued' \in [Items -> BOOLEAN]
<1>1. content \in Detail
  BY ContentsAssumption DEF Detail
<1>2. HasState(content) \in BOOLEAN /\ (enabled /\ content = "full") \in BOOLEAN
  BY DEF HasState
<1>3. QED
  BY <1>1, <1>2 DEF Upsert, TypeOK

LEMMA TypeWriters ==
    ASSUME TypeOK
    PROVE  /\ \A i \in Items, content \in Contents : OtherWrite(i, content) => TypeOK'
           /\ \A i \in Items : BackoffEnds(i) \/ LeaseLapses(i) => TypeOK'
<1>1. ASSUME NEW i \in Items, NEW content \in Contents, OtherWrite(i, content)
      PROVE  TypeOK'
  <2>1. budget' \in [writes : Nat, crashes : Nat, switches : Nat]
    BY <1>1 DEF OtherWrite, TypeOK
  <2>2. Upsert(i, content)
        /\ UNCHANGED <<jobs, cursor, author, worker, resolver, enabled>>
    BY <1>1 DEF OtherWrite
  <2>3. QED
    BY <2>1, <2>2, UpsertType DEF TypeOK
<1>2. ASSUME NEW i \in Items, BackoffEnds(i) \/ LeaseLapses(i) PROVE TypeOK'
  <2>1. PICK job \in Job : jobs' = [jobs EXCEPT ![i] = job]
    <3>1. CASE BackoffEnds(i)
      BY <3>1, JobRewrites DEF BackoffEnds, TypeOK
    <3>2. CASE LeaseLapses(i)
      BY <3>2, JobRewrites DEF LeaseLapses, TypeOK
    <3>3. QED
      BY <1>2, <3>1, <3>2
  <2>2. UNCHANGED <<cursor, detail, hashed, enqueued, author, worker, resolver,
                    enabled, budget>>
    BY <1>2 DEF BackoffEnds, LeaseLapses
  <2>3. QED
    BY <2>1, <2>2 DEF TypeOK
<1>3. QED
  BY <1>1, <1>2

LEMMA TypeResolver ==
    ASSUME TypeOK, NEW r \in Resolvers
    PROVE  /\ \A requested \in SUBSET Items : ResolveRead(r, requested) => TypeOK'
           /\ FilterExisting(r) => TypeOK'
           /\ Admit(r) => TypeOK'
<1>1. ASSUME NEW requested \in SUBSET Items, ResolveRead(r, requested) PROVE TypeOK'
  BY <1>1 DEF ResolveRead, TypeOK, Request
<1>2. resolver[r].candidates \subseteq Items
  BY DEF TypeOK, Request
<1>3. NoRequest \in Request
  BY DEF NoRequest, Request
<1>4. ASSUME FilterExisting(r) PROVE TypeOK'
  <2> DEFINE left == {i \in resolver[r].candidates : jobs[i].status = "absent"}
  <2>1. left \subseteq Items
    BY <1>2
  <2>2. [at |-> "filtered", candidates |-> left] \in Request
    BY <2>1 DEF Request
  <2>3. /\ resolver' = [resolver EXCEPT ![r] =
              IF left = {} THEN NoRequest ELSE [at |-> "filtered", candidates |-> left]]
        /\ UNCHANGED <<jobs, cursor, detail, hashed, enqueued, author, worker,
                       enabled, budget>>
    BY <1>4 DEF FilterExisting
  <2> HIDE DEF left
  <2>4. QED
    BY <1>3, <2>2, <2>3 DEF TypeOK
<1>5. ASSUME Admit(r) PROVE TypeOK'
  <2> DEFINE slots == Slots(Cardinality({i \in Items : jobs[i].status \in Active}))
             admitted == {i \in resolver[r].candidates :
               Cardinality({k \in resolver[r].candidates : Before(k, i)}) < slots}
  <2>1. /\ jobs' = [i \in Items |-> IF i \in admitted /\ Insertable(i)
                                    THEN Row("queued", 0, TRUE, 0) ELSE jobs[i]]
        /\ cursor' = cursor \/ cursor' \in admitted
        /\ resolver' = [resolver EXCEPT ![r] = NoRequest]
        /\ UNCHANGED <<detail, hashed, enqueued, author, worker, enabled, budget>>
    BY <1>5 DEF Admit
  <2>2. Row("queued", 0, TRUE, 0) \in Job
    BY RowType DEF Status, Active, Waiting
  <2>a. admitted \subseteq Items
    BY <1>2
  <2> HIDE DEF admitted
  <2>3. jobs' \in [Items -> Job] /\ resolver' \in [Resolvers -> Request]
    BY <1>3, <2>1, <2>2 DEF TypeOK
  <2>4. QED
    BY <2>1, <2>a, <2>3 DEF TypeOK
<1>6. QED
  BY <1>1, <1>4, <1>5

LEMMA TypeClaimBatch ==
    ASSUME TypeOK, NEW w \in Workers, ClaimBatch(w)
    PROVE  TypeOK'
<1> DEFINE expired == [i \in Items |-> IF Lapsed(i) THEN Expired(jobs[i]) ELSE jobs[i]]
<1>1. \A i \in Items : expired[i] \in Job
  BY JobRewrites DEF TypeOK
<1>2. PICK S \in SUBSET Items :
        jobs' = [i \in Items |-> IF i \in S THEN Leased(expired[i]) ELSE expired[i]]
  BY DEF ClaimBatch
<1> HIDE DEF expired
<1>3. jobs' \in [Items -> Job]
  BY <1>1, <1>2, JobRewrites
<1>4. PICK T \in SUBSET Items :
        /\ \A i \in T : jobs'[i].token = jobs[i].attempts + 1
        /\ worker'[w].unread = {[item |-> i, token |-> jobs'[i].token] : i \in T}
        /\ worker'[w] = [NoBatch EXCEPT !.at = "claimed", !.unread = worker'[w].unread]
           \/ worker'[w] = NoBatch
  BY ClaimBatchMoves
<1>5. worker'[w].unread \subseteq Claim
  BY <1>4 DEF Claim, TypeOK, Job
<1>6. worker'[w] \in Batch
  <2>1. \A cs \in SUBSET Claim : [NoBatch EXCEPT !.at = "claimed", !.unread = cs] \in Batch
    BY DEF NoBatch, Batch
  <2>2. QED
    BY <1>4, <1>5, <2>1, ClaimsOfNothing
<1>7. PICK b : worker' = [worker EXCEPT ![w] = b]
  BY DEF ClaimBatch
<1>8. worker' \in [Workers -> Batch]
  BY <1>6, <1>7 DEF TypeOK
<1>9. UNCHANGED <<cursor, detail, hashed, enqueued, author, resolver, enabled, budget>>
  BY DEF ClaimBatch
<1>10. QED
  BY <1>3, <1>8, <1>9 DEF TypeOK

\* A step that gives one worker a new batch.
LEMMA BatchRewrites ==
    ASSUME NEW b \in Batch
    PROVE  /\ \A cs, ds \in SUBSET Claim :
                [NoBatch EXCEPT !.existing = cs, !.missing = ds] \in Batch
           /\ \A cs \in SUBSET Claim,
                 vs \in SUBSET [claim : Claim, verdict : {"done", "retry"}] :
                [b EXCEPT !.existing = cs, !.verdicts = vs] \in Batch
           /\ \A ps \in SUBSET [claim : Claim, content : Contents], is \in SUBSET Items :
                /\ [b EXCEPT !.at = "persisting", !.arrived = ps, !.answered = is] \in Batch
                /\ [b EXCEPT !.arrived = ps, !.answered = is] \in Batch
           /\ \A vs \in SUBSET [claim : Claim, verdict : {"done", "retry"}] :
                /\ [NoBatch EXCEPT !.verdicts = vs] \in Batch
                /\ [b EXCEPT !.verdicts = vs] \in Batch
  BY DEF Batch, NoBatch

LEMMA WorkerType ==
    ASSUME TypeOK, NEW w \in Workers, NEW b \in Batch, worker' = [worker EXCEPT ![w] = b]
    PROVE  worker' \in [Workers -> Batch]
  BY DEF TypeOK

ClaimsIn(b) == b.unread \cup b.existing \cup b.missing
    \cup {v.claim : v \in b.verdicts}

\* Every step on a batch leaves a batch with no new claim.
LEMMA WorkerStep ==
    ASSUME TypeOK, NEW w \in Workers, WorkOnBatch(w) \/ Crash(w)
    PROVE  \E b \in Batch : /\ worker' = [worker EXCEPT ![w] = b]
                            /\ ClaimsIn(b) \subseteq Claims(w)
<1> DEFINE b == worker[w]
           Judged == [claim : Claim, verdict : {"done", "retry"}]
           Goal == \E n \in Batch : /\ worker' = [worker EXCEPT ![w] = n]
                                    /\ ClaimsIn(n) \subseteq Claims(w)
<1>1. /\ b \in Batch
      /\ b.unread \subseteq Claim /\ b.existing \subseteq Claim
      /\ b.missing \subseteq Claim /\ b.answered \subseteq Items
      /\ b.arrived \subseteq [claim : Claim, content : Contents]
      /\ b.verdicts \subseteq Judged
  BY DEF TypeOK, Batch
<1>2. Claims(w) = ClaimsIn(b)
  BY DEF Claims, ClaimsIn
<1>3. CASE LoadBatch(w)
  <2> DEFINE read == {c \in b.unread : detail[c.item] # "none"}
             n == [NoBatch EXCEPT !.existing = read, !.missing = b.unread \ read]
  <2>1. worker' = [worker EXCEPT ![w] = n]
    BY <1>3 DEF LoadBatch
  <2>2. read \subseteq b.unread /\ b.unread \ read \subseteq b.unread
    OBVIOUS
  <2>3. n \in Batch
    BY <1>1, <2>2, BatchRewrites
  <2>4. ClaimsIn(n) \subseteq b.unread
    BY <2>2 DEF ClaimsIn, NoBatch
  <2>5. QED
    BY <1>2, <2>1, <2>3, <2>4 DEF ClaimsIn
<1>4. CASE Reconcile(w)
  <2>1. PICK c \in b.existing :
          \E vs \in {{}, {Verdict(c, "done")}, {Verdict(c, "retry")}} :
            worker' = [worker EXCEPT ![w].existing = @ \ {c}, ![w].verdicts = vs]
    BY <1>4 DEF Reconcile
  <2>2. PICK vs \in {{}, {Verdict(c, "done")}, {Verdict(c, "retry")}} :
          worker' = [worker EXCEPT ![w].existing = @ \ {c}, ![w].verdicts = vs]
    BY <2>1
  <2> DEFINE n == [b EXCEPT !.existing = b.existing \ {c}, !.verdicts = vs]
  <2>3. worker' = [worker EXCEPT ![w] = n]
    BY <2>2 DEF TypeOK
  <2>4. vs \subseteq Judged /\ \A v \in vs : v.claim = c
    BY <1>1 DEF Verdict
  <2>5. n \in Batch
    BY <1>1, <2>4, BatchRewrites
  <2>6. /\ n.unread = b.unread /\ n.existing = b.existing \ {c}
        /\ n.missing = b.missing /\ n.verdicts = vs
    BY <1>1 DEF Batch
  <2>7. ClaimsIn(n) \subseteq ClaimsIn(b)
    BY <2>4, <2>6 DEF ClaimsIn
  <2>8. QED
    BY <1>2, <2>3, <2>5, <2>7
<1>5. CASE FetchMissing(w)
  <2> DEFINE local == {c \in b.missing : detail[c.item] \in {"textless", "full"}}
             partial == {c \in b.missing : detail[c.item] = "partial"}
  <2>a. PICK replied \in SUBSET (b.missing \ local) :
          \E content \in [replied -> Contents] :
            worker' = [worker EXCEPT ![w] =
              [b EXCEPT !.at = "persisting",
                !.arrived = {[claim |-> c, content |-> content[c]] : c \in replied},
                !.answered = {c.item : c \in local \cup (partial \ replied)}]]
    BY <1>5 DEF FetchMissing
  <2>1. PICK content \in [replied -> Contents] :
          worker' = [worker EXCEPT ![w] =
            [b EXCEPT !.at = "persisting",
              !.arrived = {[claim |-> c, content |-> content[c]] : c \in replied},
              !.answered = {c.item : c \in local \cup (partial \ replied)}]]
    BY <2>a
  <2> DEFINE ps == {[claim |-> c, content |-> content[c]] : c \in replied}
             is == {c.item : c \in local \cup (partial \ replied)}
             n == [b EXCEPT !.at = "persisting", !.arrived = ps, !.answered = is]
  <2>2. ps \subseteq [claim : Claim, content : Contents]
    BY <1>1
  <2>3. is \subseteq Items
    BY <1>1 DEF Claim
  <2> HIDE DEF ps, is
  <2>4. n \in Batch
    BY <1>1, <2>2, <2>3, BatchRewrites
  <2>5. /\ n.unread = b.unread /\ n.existing = b.existing
        /\ n.missing = b.missing /\ n.verdicts = b.verdicts
    BY <1>1 DEF Batch
  <2>6. worker' = [worker EXCEPT ![w] = n]
    BY <2>1 DEF ps, is
  <2> HIDE DEF n
  <2>7. ClaimsIn(n) = ClaimsIn(b)
    BY <2>5 DEF ClaimsIn
  <2>8. QED
    BY <1>2, <2>4, <2>6, <2>7
<1>6. CASE Persist(w)
  <2>1. PICK p \in b.arrived :
          worker' = [worker EXCEPT ![w].arrived = @ \ {p},
            ![w].answered = IF Holds(p.claim) THEN @ \cup {p.claim.item} ELSE @]
    BY <1>6 DEF Persist
  <2> DEFINE ps == b.arrived \ {p}
             is == IF Holds(p.claim) THEN b.answered \cup {p.claim.item} ELSE b.answered
             n == [b EXCEPT !.arrived = ps, !.answered = is]
  <2>2. worker' = [worker EXCEPT ![w] = n]
    BY <2>1 DEF TypeOK
  <2>3. ps \subseteq [claim : Claim, content : Contents] /\ is \subseteq Items
    BY <1>1 DEF Claim
  <2> HIDE DEF ps, is
  <2>4. n \in Batch
    BY <1>1, <2>3, BatchRewrites
  <2>5. /\ n.unread = b.unread /\ n.existing = b.existing
        /\ n.missing = b.missing /\ n.verdicts = b.verdicts
    BY <1>1 DEF Batch
  <2> HIDE DEF n
  <2>6. ClaimsIn(n) = ClaimsIn(b)
    BY <2>5 DEF ClaimsIn
  <2>7. QED
    BY <1>2, <2>2, <2>4, <2>6
<1>7. CASE FetchRaises(w)
  <2> DEFINE n == [b EXCEPT !.arrived = {}, !.answered = {}]
  <2>1. worker' = [worker EXCEPT ![w] = n]
    BY <1>7 DEF FetchRaises, TypeOK
  <2>2. n \in Batch
    BY <1>1, BatchRewrites
  <2>3. /\ n.unread = b.unread /\ n.existing = b.existing
        /\ n.missing = b.missing /\ n.verdicts = b.verdicts
    BY <1>1 DEF Batch
  <2> HIDE DEF n
  <2>4. ClaimsIn(n) = ClaimsIn(b)
    BY <2>3 DEF ClaimsIn
  <2>5. QED
    BY <1>2, <2>1, <2>2, <2>4
<1>8. CASE Collect(w)
  <2> DEFINE vs == {Verdict(c, IF Prepared(b, c) THEN "done" ELSE "retry") : c \in b.missing}
             n == [NoBatch EXCEPT !.verdicts = vs]
  <2>1. worker' = [worker EXCEPT ![w] = n]
    BY <1>8 DEF Collect
  <2>2. vs \subseteq Judged /\ \A v \in vs : v.claim \in b.missing
    BY <1>1 DEF Verdict
  <2> HIDE DEF vs
  <2>3. n \in Batch
    BY <2>2, BatchRewrites, <1>1
  <2>4. n.unread = {} /\ n.existing = {} /\ n.missing = {} /\ n.verdicts = vs
    BY DEF NoBatch
  <2> HIDE DEF n
  <2>5. ClaimsIn(n) \subseteq ClaimsIn(b)
    BY <2>2, <2>4 DEF ClaimsIn
  <2>6. QED
    BY <1>2, <2>1, <2>3, <2>5
<1>9. CASE Record(w)
  <2>1. PICK v \in b.verdicts : worker' = [worker EXCEPT ![w].verdicts = @ \ {v}]
    BY <1>9 DEF Record
  <2> DEFINE n == [b EXCEPT !.verdicts = b.verdicts \ {v}]
  <2>2. worker' = [worker EXCEPT ![w] = n]
    BY <2>1 DEF TypeOK
  <2>3. n \in Batch
    BY <1>1, BatchRewrites
  <2>4. /\ n.unread = b.unread /\ n.existing = b.existing
        /\ n.missing = b.missing /\ n.verdicts = b.verdicts \ {v}
    BY <1>1 DEF Batch
  <2> HIDE DEF n
  <2>5. ClaimsIn(n) \subseteq ClaimsIn(b)
    BY <2>4 DEF ClaimsIn
  <2>6. QED
    BY <1>2, <2>2, <2>3, <2>5
<1>10. CASE Crash(w)
  <2>1. worker' = [worker EXCEPT ![w] = NoBatch]
    BY <1>10 DEF Crash
  <2>2. ClaimsIn(NoBatch) = {}
    BY ClaimsOfNothing DEF ClaimsIn
  <2>3. QED
    BY <2>1, <2>2, ClaimsOfNothing
<1>11. QED
  BY <1>3, <1>4, <1>5, <1>6, <1>7, <1>8, <1>9, <1>10 DEF WorkOnBatch

LEMMA TypeWorkOnBatch ==
    ASSUME TypeOK, NEW w \in Workers, WorkOnBatch(w) \/ Crash(w)
    PROVE  TypeOK'
<1>1. worker' \in [Workers -> Batch]
  BY WorkerStep, WorkerType
<1>2. CASE LoadBatch(w) \/ FetchMissing(w) \/ FetchRaises(w) \/ Collect(w)
  <2>1. UNCHANGED <<jobs, cursor, detail, hashed, enqueued, author, resolver,
                    enabled, budget>>
    BY <1>2 DEF LoadBatch, FetchMissing, FetchRaises, Collect
  <2>2. QED
    BY <1>1, <2>1 DEF TypeOK
<1>3. CASE Reconcile(w)
  <2>1. PICK c \in worker[w].existing :
          /\ hashed' = [hashed EXCEPT ![c.item] =
               IF Holds(c) THEN HasState(detail[c.item]) ELSE @]
          /\ enqueued' = [enqueued EXCEPT ![c.item] =
               IF Holds(c) THEN HasState(detail[c.item]) /\ Reconciled(c.item) ELSE @]
          /\ UNCHANGED <<jobs, cursor, detail, author, resolver, enabled, budget>>
    BY <1>3 DEF Reconcile
  <2>2. /\ HasState(detail[c.item]) \in BOOLEAN
        /\ (HasState(detail[c.item]) /\ Reconciled(c.item)) \in BOOLEAN
    BY DEF HasState
  <2>3. hashed' \in [Items -> BOOLEAN] /\ enqueued' \in [Items -> BOOLEAN]
    BY <2>1, <2>2 DEF TypeOK
  <2>4. QED
    BY <1>1, <2>1, <2>3 DEF TypeOK
<1>4. CASE Persist(w)
  <2>1. PICK p \in worker[w].arrived :
          /\ \/ /\ Upsert(p.claim.item, p.content)
                /\ author' = [author EXCEPT ![p.claim.item] = p.claim.token]
             \/ UNCHANGED <<detail, hashed, enqueued, author>>
          /\ UNCHANGED <<jobs, cursor, resolver, enabled, budget>>
    BY <1>4 DEF Persist
  <2>2. p.claim.item \in Items /\ p.claim.token \in Nat /\ p.content \in Contents
    BY DEF TypeOK, Batch, Claim
  <2>3. /\ detail' \in [Items -> Detail] /\ author' \in [Items -> Nat]
        /\ hashed' \in [Items -> BOOLEAN] /\ enqueued' \in [Items -> BOOLEAN]
    <3>1. CASE UNCHANGED <<detail, hashed, enqueued, author>>
      BY <3>1 DEF TypeOK
    <3>2. CASE Upsert(p.claim.item, p.content)
               /\ author' = [author EXCEPT ![p.claim.item] = p.claim.token]
      <4>1. author' \in [Items -> Nat]
        BY <2>2, <3>2 DEF TypeOK
      <4>2. QED
        BY <2>2, <3>2, <4>1, UpsertType
    <3>3. QED
      BY <2>1, <3>1, <3>2
  <2>4. QED
    BY <1>1, <2>1, <2>3 DEF TypeOK
<1>5. CASE Record(w)
  <2>1. PICK v \in worker[w].verdicts :
          /\ jobs' = [jobs EXCEPT ![v.claim.item] =
               IF Holds(v.claim) THEN Recorded(@, v.verdict) ELSE @]
          /\ UNCHANGED <<cursor, detail, hashed, enqueued, author, resolver,
                         enabled, budget>>
    BY <1>5 DEF Record
  <2>2. v.claim.item \in Items /\ v.verdict \in {"done", "retry"}
    BY BatchShape
  <2>3. jobs' \in [Items -> Job]
    BY <2>1, <2>2, JobRewrites DEF TypeOK
  <2>4. QED
    BY <1>1, <2>1, <2>3 DEF TypeOK
<1>6. CASE Crash(w)
  <2>1. budget' \in [writes : Nat, crashes : Nat, switches : Nat]
    BY <1>6 DEF Crash, TypeOK
  <2>2. UNCHANGED <<jobs, cursor, detail, hashed, enqueued, author, resolver, enabled>>
    BY <1>6 DEF Crash
  <2>3. QED
    BY <1>1, <2>1, <2>2 DEF TypeOK
<1>7. QED
  BY <1>2, <1>3, <1>4, <1>5, <1>6 DEF WorkOnBatch

LEMMA TypeSwitch == ASSUME TypeOK, Switch PROVE TypeOK'
<1>1. NoRequest \in Request
  BY DEF NoRequest, Request
<1>2. budget' \in [writes : Nat, crashes : Nat, switches : Nat] /\ enabled' \in BOOLEAN
  BY DEF Switch, TypeOK
<1>3. QED
  BY <1>1, <1>2, ClaimsOfNothing DEF Switch, TypeOK

LEMMA TypeNext == TypeOK /\ [Next]_vars => TypeOK'
<1> SUFFICES ASSUME TypeOK, [Next]_vars PROVE TypeOK'
  OBVIOUS
<1>1. ASSUME NEW i \in Items, NEW content \in Contents, OtherWrite(i, content)
      PROVE  TypeOK'
  BY <1>1, TypeWriters
<1>2. ASSUME NEW r \in Resolvers,
             \/ \E requested \in SUBSET Items : ResolveRead(r, requested)
             \/ FilterExisting(r)
             \/ Admit(r)
      PROVE  TypeOK'
  BY <1>2, TypeResolver
<1>3. ASSUME NEW i \in Items, BackoffEnds(i) \/ LeaseLapses(i) PROVE TypeOK'
  BY <1>3, TypeWriters
<1>4. ASSUME NEW w \in Workers, ClaimBatch(w) \/ WorkOnBatch(w) \/ Crash(w) PROVE TypeOK'
  BY <1>4, TypeClaimBatch, TypeWorkOnBatch
<1>5. CASE UNCHANGED vars
  BY <1>5 DEF vars, TypeOK
<1>6. QED
  BY <1>1, <1>2, <1>3, <1>4, <1>5, TypeSwitch DEF Next

\* Every variable of the preparation queue keeps its type.
THEOREM TypeCorrect == Spec => []TypeOK
  BY TypeInit, TypeNext, PTL DEF Spec
-----------------------------------------------------------------------------
\* The job rows: every step moves each of them in one of the ways of JobMove.
LEMMA JobsMove == ASSUME TypeOK, [Next]_vars PROVE \A i \in Items : JobMove(i)
<1>1. ASSUME UNCHANGED jobs PROVE \A i \in Items : JobMove(i)
  BY <1>1 DEF JobMove
<1>2. ASSUME NEW i \in Items, BackoffEnds(i) PROVE \A k \in Items : JobMove(k)
  BY <1>2 DEF BackoffEnds, JobMove, TypeOK
<1>3. ASSUME NEW i \in Items, LeaseLapses(i) PROVE \A k \in Items : JobMove(k)
  BY <1>3 DEF LeaseLapses, JobMove, TypeOK
<1>4. ASSUME NEW r \in Resolvers, Admit(r) PROVE \A i \in Items : JobMove(i)
  <2>1. PICK admitted : jobs' = [i \in Items |->
          IF i \in admitted /\ Insertable(i) THEN Row("queued", 0, TRUE, 0) ELSE jobs[i]]
    BY <1>4 DEF Admit
  <2>2. QED
    BY <2>1 DEF JobMove, Insertable
<1>5. ASSUME NEW w \in Workers, ClaimBatch(w) PROVE \A i \in Items : JobMove(i)
  BY <1>5, ClaimBatchMoves
<1>6. ASSUME NEW w \in Workers, Record(w) PROVE \A i \in Items : JobMove(i)
  <2>1. PICK v \in worker[w].verdicts :
          jobs' = [jobs EXCEPT ![v.claim.item] =
            IF Holds(v.claim) THEN Recorded(@, v.verdict) ELSE @]
    BY <1>6 DEF Record
  <2>2. v.claim.item \in Items /\ v.verdict \in {"done", "retry"}
    BY BatchShape
  <2>3. QED
    BY <2>1, <2>2 DEF Holds, JobMove, TypeOK
<1>7. ASSUME NEW w \in Workers, WorkOnBatch(w) \/ Crash(w), ~Record(w)
      PROVE  \A i \in Items : JobMove(i)
  BY <1>1, <1>7 DEF WorkOnBatch, LoadBatch, Reconcile, FetchMissing, Persist,
     FetchRaises, Collect, Crash
<1>8. ASSUME NEW i \in Items, NEW content \in Contents, OtherWrite(i, content)
      PROVE  \A k \in Items : JobMove(k)
  BY <1>1, <1>8 DEF OtherWrite
<1>9. ASSUME NEW r \in Resolvers,
             (\E requested \in SUBSET Items : ResolveRead(r, requested))
               \/ FilterExisting(r)
      PROVE  \A i \in Items : JobMove(i)
  BY <1>1, <1>9 DEF ResolveRead, FilterExisting
<1>10. CASE Switch
  BY <1>1, <1>10 DEF Switch
<1>11. CASE UNCHANGED vars
  BY <1>1, <1>11 DEF vars
<1>12. QED
  BY <1>2, <1>3, <1>4, <1>5, <1>6, <1>7, <1>8, <1>9, <1>10, <1>11 DEF Next
-----------------------------------------------------------------------------
(* The inductive invariant behind the bounds and the fence: a waiting job    *)
(* has an attempt left, the token of a leased row is the number of its       *)
(* attempt, and neither a remembered claim nor a written detail is newer     *)
(* than the row.                                                             *)

RowSound(i) ==
    /\ jobs[i].attempts <= MaxAttempts
    /\ jobs[i].status \in Waiting => jobs[i].attempts < MaxAttempts
    /\ jobs[i].status = "absent" => jobs[i].attempts = 0
    /\ jobs[i].status = "leased" => jobs[i].token = jobs[i].attempts
RowsSound == \A i \in Items : RowSound(i)

AuthorsKnown == \A i \in Items : author[i] <= jobs[i].attempts

ClaimsKnown ==
    \A w \in Workers : \A c \in Claims(w) : c.token <= jobs[c.item].attempts
ClaimsDistinct ==
    \A v, w \in Workers : \A c \in Claims(v), d \in Claims(w) :
      v # w /\ c.item = d.item => c.token # d.token

Fences == RowsSound /\ AuthorsKnown /\ ClaimsKnown /\ ClaimsDistinct

LEMMA FencesInit == ASSUME Init PROVE Fences
<1>1. \A i \in Items : jobs[i].status = "absent" /\ jobs[i].attempts = 0 /\ author[i] = 0
  BY DEF Init, Row
<1>2. \A w \in Workers : Claims(w) = {}
  BY ClaimsOfNothing DEF Init, Claims
<1>3. RowsSound
  BY <1>1, LimitsAssumption DEF RowsSound, RowSound, Waiting
<1>4. AuthorsKnown
  BY <1>1 DEF AuthorsKnown
<1>5. QED
  BY <1>2, <1>3, <1>4 DEF Fences, ClaimsKnown, ClaimsDistinct

\* What a move does to a row, by its attempts.
LEMMA RowStep ==
    ASSUME TypeOK, RowsSound, NEW i \in Items, JobMove(i)
    PROVE  /\ RowSound(i)'
           /\ jobs'[i].attempts >= jobs[i].attempts
           /\ jobs'[i].status = "leased" /\ jobs[i].status # "leased"
                => jobs'[i].attempts = jobs[i].attempts + 1
           /\ jobs[i].status \in Settled => jobs'[i] = jobs[i]
<1> DEFINE n == jobs[i].attempts
<1>1. /\ jobs[i] \in Job /\ n \in Nat /\ MaxAttempts \in Nat \ {0}
      /\ RowSound(i)
  BY LimitsAssumption DEF TypeOK, Job, RowsSound
<1>2. CASE jobs'[i] = jobs[i]
  BY <1>1, <1>2 DEF RowSound
<1>3. CASE jobs[i].status = "absent" /\ jobs'[i] = Row("queued", 0, TRUE, 0)
  BY <1>1, <1>3 DEF RowSound, Row, Waiting, Settled
<1>4. CASE jobs[i].status = "retry" /\ jobs'[i] = [jobs[i] EXCEPT !.due = TRUE]
  <2>1. jobs'[i].status = "retry" /\ jobs'[i].attempts = n
    BY <1>1, <1>4 DEF Job
  <2>2. QED
    BY <1>1, <1>4, <2>1 DEF RowSound, Waiting, Settled
<1>5. CASE jobs[i].status = "leased" /\ jobs'[i] = [jobs[i] EXCEPT !.lapsed = TRUE]
  <2>1. jobs'[i].status = "leased" /\ jobs'[i].attempts = n
        /\ jobs'[i].token = jobs[i].token
    BY <1>1, <1>5 DEF Job
  <2>2. QED
    BY <1>1, <1>5, <2>1 DEF RowSound, Waiting, Settled
<1>6. CASE Lapsed(i) /\ jobs'[i] = Expired(jobs[i])
  <2>1. /\ jobs[i].status = "leased" /\ jobs'[i].attempts = n
        /\ \/ jobs'[i].status = "failed"
           \/ jobs'[i].status = "retry" /\ n < MaxAttempts
    BY <1>1, <1>6 DEF Lapsed, Expired, Row
  <2>2. QED
    BY <1>1, <2>1 DEF RowSound, Waiting, Settled
<1>7. CASE jobs[i].status \in Waiting /\ jobs'[i] = Leased(jobs[i])
  BY <1>1, <1>7 DEF RowSound, Waiting, Settled, Leased, Row
<1>8. CASE /\ Lapsed(i) /\ Expired(jobs[i]).status \in Waiting
           /\ jobs'[i] = Leased(Expired(jobs[i]))
  <2>1. n < MaxAttempts /\ jobs[i].status = "leased"
    BY <1>1, <1>8 DEF Expired, Row, Waiting, Lapsed
  <2>2. Expired(jobs[i]).attempts = n
    BY DEF Expired, Row
  <2>3. /\ jobs'[i].status = "leased" /\ jobs'[i].attempts = n + 1
        /\ jobs'[i].token = n + 1
    BY <1>8, <2>2 DEF Leased, Row
  <2>4. QED
    BY <1>1, <2>1, <2>3 DEF RowSound, Waiting, Settled
<1>9. ASSUME jobs[i].status = "leased",
             NEW v \in {"done", "retry"}, jobs'[i] = Recorded(jobs[i], v)
      PROVE  /\ RowSound(i)'
             /\ jobs'[i].attempts >= jobs[i].attempts
             /\ jobs'[i].status # "leased"
  <2>1. /\ jobs'[i].attempts = n
        /\ \/ jobs'[i].status \in {"done", "failed"}
           \/ jobs'[i].status = "retry" /\ n < MaxAttempts
    BY <1>1, <1>9 DEF Recorded, Row
  <2>2. QED
    BY <1>1, <1>9, <2>1 DEF RowSound, Waiting
<1>10. CASE jobs[i].status = "leased"
            /\ \E v \in {"done", "retry"} : jobs'[i] = Recorded(jobs[i], v)
  BY <1>9, <1>10 DEF Settled
<1>11. QED
  BY <1>2, <1>3, <1>4, <1>5, <1>6, <1>7, <1>8, <1>10 DEF JobMove

\* The author of a detail only becomes the attempt that holds the lease.
LEMMA AuthorStep ==
    ASSUME TypeOK, RowsSound, [Next]_vars, NEW i \in Items
    PROVE  \/ author'[i] = author[i]
           \/ author'[i] = jobs[i].attempts /\ jobs[i].status = "leased"
<1>1. ASSUME NEW w \in Workers, Persist(w)
      PROVE  \/ author'[i] = author[i]
             \/ author'[i] = jobs[i].attempts /\ jobs[i].status = "leased"
  <2>1. PICK p \in worker[w].arrived :
          \/ Holds(p.claim) /\ author' = [author EXCEPT ![p.claim.item] = p.claim.token]
          \/ UNCHANGED author
    BY <1>1 DEF Persist
  <2>2. CASE UNCHANGED author
    BY <2>2
  <2>3. CASE Holds(p.claim) /\ author' = [author EXCEPT ![p.claim.item] = p.claim.token]
    <3>1. p.claim.item \in Items
      BY BatchShape
    <3>2. CASE i # p.claim.item
      BY <2>3, <3>2 DEF TypeOK
    <3>3. CASE i = p.claim.item
      BY <2>3, <3>1, <3>3 DEF TypeOK, Holds, RowsSound, RowSound
    <3>4. QED
      BY <3>2, <3>3
  <2>4. QED
    BY <2>1, <2>2, <2>3
<1>2. ASSUME NEW w \in Workers, WorkOnBatch(w) \/ Crash(w), ~Persist(w)
      PROVE  UNCHANGED author
  BY <1>2 DEF WorkOnBatch, LoadBatch, Reconcile, FetchMissing, FetchRaises, Collect,
     Record, Crash
<1>3. ASSUME NEW w \in Workers, ClaimBatch(w) PROVE UNCHANGED author
  BY <1>3 DEF ClaimBatch
<1>4. ASSUME NEW k \in Items, NEW content \in Contents, OtherWrite(k, content)
      PROVE  UNCHANGED author
  BY <1>4 DEF OtherWrite
<1>5. ASSUME NEW k \in Items, BackoffEnds(k) \/ LeaseLapses(k) PROVE UNCHANGED author
  BY <1>5 DEF BackoffEnds, LeaseLapses
<1>6. ASSUME NEW r \in Resolvers,
             \/ \E requested \in SUBSET Items : ResolveRead(r, requested)
             \/ FilterExisting(r)
             \/ Admit(r)
      PROVE  UNCHANGED author
  BY <1>6 DEF ResolveRead, FilterExisting, Admit
<1>7. CASE Switch \/ UNCHANGED vars
  BY <1>7 DEF Switch, vars
<1>8. QED
  BY <1>1, <1>2, <1>3, <1>4, <1>5, <1>6, <1>7 DEF Next

\* The claims: a step only forgets some, unless a worker claims a batch.
LEMMA ClaimsMove ==
    ASSUME TypeOK, [Next]_vars
    PROVE  ClaimsShrink \/ \E w \in Workers : ClaimBatch(w)
<1>1. ASSUME UNCHANGED worker PROVE ClaimsShrink
  BY <1>1 DEF ClaimsShrink, Claims
<1>2. ASSUME NEW w \in Workers, WorkOnBatch(w) \/ Crash(w) PROVE ClaimsShrink
  <2>1. PICK b \in Batch : /\ worker' = [worker EXCEPT ![w] = b]
                           /\ ClaimsIn(b) \subseteq Claims(w)
    BY <1>2, WorkerStep
  <2>2. Claims(w)' = ClaimsIn(b)
    BY <2>1 DEF Claims, ClaimsIn, TypeOK
  <2>3. \A v \in Workers \ {w} : Claims(v)' = Claims(v)
    BY <2>1 DEF Claims, TypeOK
  <2>4. QED
    BY <2>1, <2>2, <2>3 DEF ClaimsShrink
<1>3. ASSUME Switch PROVE ClaimsShrink
  <2>1. \A w \in Workers : worker'[w] = NoBatch
    BY <1>3 DEF Switch
  <2>2. \A w \in Workers : Claims(w)' = {}
    BY <2>1, ClaimsOfNothing DEF Claims
  <2>3. QED
    BY <2>2 DEF ClaimsShrink
<1>4. ASSUME NEW i \in Items, NEW content \in Contents, OtherWrite(i, content)
      PROVE  ClaimsShrink
  BY <1>1, <1>4 DEF OtherWrite
<1>5. ASSUME NEW r \in Resolvers,
             \/ \E requested \in SUBSET Items : ResolveRead(r, requested)
             \/ FilterExisting(r)
             \/ Admit(r)
      PROVE  ClaimsShrink
  BY <1>1, <1>5 DEF ResolveRead, FilterExisting, Admit
<1>6. ASSUME NEW i \in Items, BackoffEnds(i) \/ LeaseLapses(i) PROVE ClaimsShrink
  BY <1>1, <1>6 DEF BackoffEnds, LeaseLapses
<1>7. CASE UNCHANGED vars
  BY <1>1, <1>7 DEF vars
<1>8. QED
  BY <1>2, <1>3, <1>4, <1>5, <1>6, <1>7 DEF Next

\* A claimed batch: its tokens are the attempts its claims begin.
LEMMA NewClaims ==
    ASSUME TypeOK, NEW w \in Workers, ClaimBatch(w)
    PROVE  /\ \A v \in Workers \ {w} : Claims(v)' = Claims(v)
           /\ \A c \in Claims(w)' : /\ c.item \in Items
                                    /\ c.token = jobs[c.item].attempts + 1
                                    /\ jobs'[c.item].attempts = c.token
<1>1. \A v \in Workers \ {w} : Claims(v)' = Claims(v)
  BY ClaimBatchMoves DEF Claims
<1>2. PICK S \in SUBSET Items :
        /\ \A i \in S : jobs'[i].token = jobs[i].attempts + 1
                        /\ jobs'[i].attempts = jobs[i].attempts + 1
        /\ worker'[w].unread = {[item |-> i, token |-> jobs'[i].token] : i \in S}
        /\ worker'[w] = [NoBatch EXCEPT !.at = "claimed", !.unread = worker'[w].unread]
           \/ worker'[w] = NoBatch
  BY ClaimBatchMoves
<1>3. worker'[w].existing = {} /\ worker'[w].missing = {} /\ worker'[w].verdicts = {}
  <2> DEFINE cs == worker'[w].unread
             n == [NoBatch EXCEPT !.at = "claimed", !.unread = cs]
  <2>1. n.existing = {} /\ n.missing = {} /\ n.verdicts = {}
    BY DEF NoBatch
  <2>2. worker'[w] = n \/ worker'[w] = NoBatch
    BY <1>2
  <2> HIDE DEF n
  <2>3. QED
    BY <2>1, <2>2, ClaimsOfNothing
<1>4. Claims(w)' = {[item |-> i, token |-> jobs'[i].token] : i \in S}
  BY <1>2, <1>3 DEF Claims
<1>5. QED
  BY <1>1, <1>2, <1>4

LEMMA FencesNext == ASSUME TypeOK, Fences, [Next]_vars PROVE Fences'
<1>1. \A i \in Items : JobMove(i)
  BY JobsMove
<1>2. RowsSound'
  BY <1>1, RowStep DEF Fences, RowsSound
<1>3. \A i \in Items : /\ jobs[i].attempts \in Nat /\ jobs'[i].attempts \in Nat
                       /\ author[i] \in Nat
                       /\ jobs'[i].attempts >= jobs[i].attempts
  <2>1. \A i \in Items : jobs'[i].attempts >= jobs[i].attempts
    BY <1>1, RowStep DEF Fences
  <2>2. TypeOK'
    BY TypeNext
  <2>3. QED
    BY <2>1, <2>2 DEF TypeOK, Job
<1>4. \A w \in Workers : \A c \in Claims(w) :
         c.item \in Items /\ c.token \in Nat /\ c.token <= jobs[c.item].attempts
  BY BatchShape DEF Claim, Fences, ClaimsKnown
<1>5. AuthorsKnown'
  <2>1. \A i \in Items : author'[i] = author[i] \/ author'[i] = jobs[i].attempts
    BY AuthorStep DEF Fences
  <2>2. QED
    BY <1>3, <2>1 DEF Fences, AuthorsKnown
<1>6. CASE ClaimsShrink
  <2>1. ClaimsKnown'
    BY <1>3, <1>4, <1>6 DEF ClaimsKnown, ClaimsShrink
  <2>2. ClaimsDistinct'
    BY <1>6 DEF Fences, ClaimsDistinct, ClaimsShrink
  <2>3. QED
    BY <1>2, <1>5, <2>1, <2>2 DEF Fences
<1>7. ASSUME NEW w \in Workers, ClaimBatch(w) PROVE Fences'
  <2>1. \A v \in Workers \ {w} : Claims(v)' = Claims(v)
    BY <1>7, NewClaims
  <2>2. \A c \in Claims(w)' : /\ c.item \in Items
                              /\ c.token = jobs[c.item].attempts + 1
                              /\ jobs'[c.item].attempts = c.token
    BY <1>7, NewClaims
  <2>3. ClaimsKnown'
    BY <1>3, <1>4, <2>1, <2>2 DEF ClaimsKnown
  <2>4. ASSUME NEW v \in Workers \ {w}, NEW c \in Claims(w)', NEW d \in Claims(v)',
               c.item = d.item
        PROVE  c.token # d.token
    BY <1>3, <1>4, <2>1, <2>2, <2>4
  <2>5. \A v, u \in Workers \ {w} : \A c \in Claims(v)', d \in Claims(u)' :
          v # u /\ c.item = d.item => c.token # d.token
    BY <2>1 DEF Fences, ClaimsDistinct
  <2>6. ClaimsDistinct'
    BY <2>4, <2>5 DEF ClaimsDistinct
  <2>7. QED
    BY <1>2, <1>5, <2>3, <2>6 DEF Fences
<1>8. QED
  BY <1>6, <1>7, ClaimsMove

LEMMA FencesHold == Spec => [](TypeOK /\ Fences)
<1>1. Init => TypeOK /\ Fences
  BY TypeInit, FencesInit
<1>2. TypeOK /\ Fences /\ [Next]_vars => (TypeOK /\ Fences)'
  BY TypeNext, FencesNext
<1>3. QED
  BY <1>1, <1>2, PTL DEF Spec
-----------------------------------------------------------------------------
\* Failed fetches, expired leases and crashes together never spend more than
\* MaxAttempts attempts of a job.
THEOREM AttemptsAreBounded == Spec => []AttemptsBounded
<1>1. Fences => AttemptsBounded
  BY DEF Fences, RowsSound, RowSound, AttemptsBounded
<1>2. QED
  BY <1>1, FencesHold, PTL

\* Of the workers that remember a claim of a job, at most one passes the fence.
THEOREM FenceIsExclusive == Spec => []OneFence
<1>1. Fences => OneFence
  BY DEF Fences, ClaimsDistinct, OneFence, Holds
<1>2. QED
  BY <1>1, FencesHold, PTL

\* No step of any process takes a job out of done or failed.
THEOREM SettledForGood == Spec => SettledIsFinal
<1>1. TypeOK /\ Fences /\ [Next]_vars =>
        [\A i \in Items : jobs[i].status \in Settled => jobs'[i].status = jobs[i].status]_vars
  <2> SUFFICES ASSUME TypeOK, Fences, [Next]_vars, NEW i \in Items, jobs[i].status \in Settled
               PROVE  jobs'[i].status = jobs[i].status
    OBVIOUS
  <2>1. JobMove(i)
    BY JobsMove
  <2>2. QED
    BY <2>1, RowStep DEF Fences
<1>2. QED
  BY <1>1, FencesHold, PTL DEF Spec, SettledIsFinal

\* Guarded details are written in the order of the claims, and never after the
\* job is settled: a reclaimed worker cannot persist stale detail.
THEOREM NoStaleDetail == Spec => StaleIsNeverPersisted
<1>1. TypeOK /\ Fences /\ [Next]_vars =>
        [\A i \in Items : author'[i] # author[i] =>
           author'[i] > author[i] /\ jobs[i].status \notin Settled]_vars
  <2> SUFFICES ASSUME TypeOK, Fences, [Next]_vars, NEW i \in Items, author'[i] # author[i]
               PROVE  author'[i] > author[i] /\ jobs[i].status \notin Settled
    OBVIOUS
  <2>1. author'[i] = jobs[i].attempts /\ jobs[i].status = "leased"
    BY AuthorStep DEF Fences
  <2>2. author[i] <= jobs[i].attempts /\ author[i] \in Nat /\ jobs[i].attempts \in Nat
    BY DEF Fences, AuthorsKnown, TypeOK, Job
  <2>3. QED
    BY <2>1, <2>2 DEF Settled
<1>2. QED
  BY <1>1, FencesHold, PTL DEF Spec, StaleIsNeverPersisted
-----------------------------------------------------------------------------
(* A done job has a detail: the two places a verdict done comes from are the *)
(* details read when the batch was loaded and those read after the fetch,    *)
(* and no write takes a detail away again.                                   *)

BatchDetailed(b) ==
    /\ \A c \in b.existing : detail[c.item] # "none"
    /\ \A v \in b.verdicts : v.verdict = "done" => detail[v.claim.item] # "none"
Detailed == DoneHasDetail /\ \A w \in Workers : BatchDetailed(worker[w])

LEMMA DetailStays ==
    ASSUME TypeOK, [Next]_vars, NEW i \in Items, detail[i] # "none"
    PROVE  detail'[i] # "none"
<1>1. ASSUME NEW k \in Items, NEW content \in Contents, Upsert(k, content)
      PROVE  detail'[i] # "none"
  BY <1>1, ContentsAssumption DEF Upsert, TypeOK
<1>2. ASSUME NEW w \in Workers, Persist(w) PROVE detail'[i] # "none"
  <2>1. PICK p \in worker[w].arrived :
          Upsert(p.claim.item, p.content) \/ UNCHANGED detail
    BY <1>2 DEF Persist
  <2>2. p.claim.item \in Items /\ p.content \in Contents
    BY DEF TypeOK, Batch, Claim
  <2>3. QED
    BY <1>1, <2>1, <2>2
<1>3. ASSUME NEW w \in Workers, WorkOnBatch(w) \/ Crash(w), ~Persist(w)
      PROVE  UNCHANGED detail
  BY <1>3 DEF WorkOnBatch, LoadBatch, Reconcile, FetchMissing, FetchRaises, Collect,
     Record, Crash
<1>4. ASSUME NEW w \in Workers, ClaimBatch(w) PROVE UNCHANGED detail
  BY <1>4 DEF ClaimBatch
<1>5. ASSUME NEW k \in Items, NEW content \in Contents, OtherWrite(k, content)
      PROVE  detail'[i] # "none"
  BY <1>1, <1>5 DEF OtherWrite
<1>6. ASSUME NEW k \in Items, BackoffEnds(k) \/ LeaseLapses(k) PROVE UNCHANGED detail
  BY <1>6 DEF BackoffEnds, LeaseLapses
<1>7. ASSUME NEW r \in Resolvers,
             \/ \E requested \in SUBSET Items : ResolveRead(r, requested)
             \/ FilterExisting(r)
             \/ Admit(r)
      PROVE  UNCHANGED detail
  BY <1>7 DEF ResolveRead, FilterExisting, Admit
<1>8. CASE Switch \/ UNCHANGED vars
  BY <1>8 DEF Switch, vars
<1>9. QED
  BY <1>2, <1>3, <1>4, <1>5, <1>6, <1>7, <1>8 DEF Next

\* A complete detail that is classifiable: hash materialized, moderation enqueued.
Classifiable(i) == enabled /\ detail[i] = "full" => hashed[i] /\ enqueued[i]

\* What a step on a batch may add to it: an existing claim has a detail, a missing
\* one has none, and a verdict comes from either.
LEMMA BatchStep ==
    ASSUME TypeOK, NEW w \in Workers, WorkOnBatch(w) \/ Crash(w)
    PROVE  \E n :
             /\ worker' = [worker EXCEPT ![w] = n]
             /\ \A c \in n.existing : c \in worker[w].existing \/ detail[c.item] # "none"
             /\ \A c \in n.missing : c \in worker[w].missing \/ detail[c.item] = "none"
             /\ \A v \in n.verdicts :
                  \/ v \in worker[w].verdicts
                  \/ v.claim \in worker[w].existing /\ Classifiable(v.claim.item)'
                  \/ /\ v.claim \in worker[w].missing
                     /\ v.verdict = "done" => detail[v.claim.item] # "none"
<1> DEFINE b == worker[w]
           Grows(n) ==
             /\ \A c \in n.existing : c \in b.existing \/ detail[c.item] # "none"
             /\ \A c \in n.missing : c \in b.missing \/ detail[c.item] = "none"
             /\ \A v \in n.verdicts :
                  \/ v \in b.verdicts
                  \/ v.claim \in b.existing /\ Classifiable(v.claim.item)'
                  \/ /\ v.claim \in b.missing
                     /\ v.verdict = "done" => detail[v.claim.item] # "none"
<1> SUFFICES \E n : worker' = [worker EXCEPT ![w] = n] /\ Grows(n)
  OBVIOUS
<1>1. b \in Batch
  BY DEF TypeOK
<1>2. CASE LoadBatch(w)
  <2> DEFINE read == {c \in b.unread : detail[c.item] # "none"}
             n == [NoBatch EXCEPT !.existing = read, !.missing = b.unread \ read]
  <2>1. worker' = [worker EXCEPT ![w] = n]
    BY <1>2 DEF LoadBatch
  <2>2. n.existing = read /\ n.missing = b.unread \ read /\ n.verdicts = {}
    BY DEF NoBatch
  <2> HIDE DEF n
  <2>3. Grows(n)
    BY <2>2
  <2>4. QED
    BY <2>1, <2>3
<1>3. CASE Reconcile(w)
  <2>1. PICK c \in b.existing :
          /\ \E vs \in {{}, {Verdict(c, "done")}, {Verdict(c, "retry")}} :
               /\ worker' = [worker EXCEPT ![w].existing = @ \ {c}, ![w].verdicts = vs]
               /\ vs # {} => Holds(c)
          /\ hashed' = [hashed EXCEPT ![c.item] =
               IF Holds(c) THEN HasState(detail[c.item]) ELSE @]
          /\ enqueued' = [enqueued EXCEPT ![c.item] =
               IF Holds(c) THEN HasState(detail[c.item]) /\ Reconciled(c.item) ELSE @]
    BY <1>3 DEF Reconcile
  <2>2. PICK vs \in {{}, {Verdict(c, "done")}, {Verdict(c, "retry")}} :
          /\ worker' = [worker EXCEPT ![w].existing = @ \ {c}, ![w].verdicts = vs]
          /\ vs # {} => Holds(c)
    BY <2>1
  <2> DEFINE n == [b EXCEPT !.existing = b.existing \ {c}, !.verdicts = vs]
  <2>3. worker' = [worker EXCEPT ![w] = n]
    BY <2>2 DEF TypeOK
  <2>4. c.item \in Items /\ \A v \in vs : v.claim = c
    BY <1>1 DEF Verdict, Batch, Claim
  <2>5. /\ n.existing = b.existing \ {c} /\ n.verdicts = vs
        /\ n.missing = b.missing
    BY <1>1 DEF Batch
  <2>6. Holds(c) => Classifiable(c.item)'
    BY <1>3, <2>1, <2>4 DEF Reconcile, Classifiable, HasState, Reconciled, TypeOK
  <2> HIDE DEF n
  <2>7. Grows(n)
    BY <2>2, <2>4, <2>5, <2>6
  <2>8. QED
    BY <2>3, <2>7
<1>4. CASE FetchMissing(w) \/ Persist(w) \/ FetchRaises(w)
  <2>1. PICK n : /\ worker' = [worker EXCEPT ![w] = n] /\ n.missing = b.missing
                 /\ n.existing = b.existing /\ n.verdicts = b.verdicts
    <3>1. ASSUME NEW at, NEW ps, NEW is,
                 worker' = [worker EXCEPT ![w] =
                   [b EXCEPT !.at = at, !.arrived = ps, !.answered = is]]
          PROVE  \E n : /\ worker' = [worker EXCEPT ![w] = n] /\ n.missing = b.missing
                        /\ n.existing = b.existing /\ n.verdicts = b.verdicts
      <4> DEFINE n == [b EXCEPT !.at = at, !.arrived = ps, !.answered = is]
      <4>1. n.missing = b.missing /\ n.existing = b.existing /\ n.verdicts = b.verdicts
        BY <1>1 DEF Batch
      <4>2. QED
        BY <3>1, <4>1
    <3>2. ASSUME NEW ps, NEW is,
                 worker' = [worker EXCEPT ![w].arrived = ps, ![w].answered = is]
          PROVE  \E n : /\ worker' = [worker EXCEPT ![w] = n] /\ n.missing = b.missing
                        /\ n.existing = b.existing /\ n.verdicts = b.verdicts
      <4> DEFINE n == [b EXCEPT !.arrived = ps, !.answered = is]
      <4>1. n.missing = b.missing /\ n.existing = b.existing /\ n.verdicts = b.verdicts
        BY <1>1 DEF Batch
      <4>2. worker' = [worker EXCEPT ![w] = n]
        BY <3>2 DEF TypeOK
      <4>3. QED
        BY <4>1, <4>2
    <3>3. CASE FetchMissing(w)
      <4> DEFINE local == {c \in b.missing : detail[c.item] \in {"textless", "full"}}
                 partial == {c \in b.missing : detail[c.item] = "partial"}
      <4>1. PICK replied \in SUBSET (b.missing \ local) :
              \E content \in [replied -> Contents] :
                worker' = [worker EXCEPT ![w] =
                  [b EXCEPT !.at = "persisting",
                    !.arrived = {[claim |-> c, content |-> content[c]] : c \in replied},
                    !.answered = {c.item : c \in local \cup (partial \ replied)}]]
        BY <3>3 DEF FetchMissing
      <4>2. PICK content \in [replied -> Contents] :
              worker' = [worker EXCEPT ![w] =
                [b EXCEPT !.at = "persisting",
                  !.arrived = {[claim |-> c, content |-> content[c]] : c \in replied},
                  !.answered = {c.item : c \in local \cup (partial \ replied)}]]
        BY <4>1
      <4>3. QED
        BY <3>1, <4>2
    <3>4. CASE Persist(w)
      <4>1. PICK p \in b.arrived :
              worker' = [worker EXCEPT ![w].arrived = b.arrived \ {p},
                ![w].answered = IF Holds(p.claim) THEN b.answered \cup {p.claim.item}
                                ELSE b.answered]
        BY <3>4 DEF Persist, TypeOK
      <4>2. QED
        BY <3>2, <4>1
    <3>5. CASE FetchRaises(w)
      BY <3>2, <3>5 DEF FetchRaises
    <3>6. QED
      BY <1>4, <3>3, <3>4, <3>5
  <2>2. QED
    BY <2>1
<1>5. CASE Collect(w)
  <2> DEFINE vs == {Verdict(c, IF Prepared(b, c) THEN "done" ELSE "retry") : c \in b.missing}
             n == [NoBatch EXCEPT !.verdicts = vs]
  <2>1. worker' = [worker EXCEPT ![w] = n]
    BY <1>5 DEF Collect
  <2>2. \A v \in vs : /\ v.claim \in b.missing
                      /\ v.verdict = "done" => detail[v.claim.item] # "none"
    BY DEF Verdict, Prepared
  <2>3. n.existing = {} /\ n.missing = {} /\ n.verdicts = vs
    BY DEF NoBatch
  <2> HIDE DEF vs, n
  <2>4. Grows(n)
    BY <2>2, <2>3
  <2>5. QED
    BY <2>1, <2>4
<1>6. CASE Record(w)
  <2>1. PICK v \in b.verdicts : worker' = [worker EXCEPT ![w].verdicts = @ \ {v}]
    BY <1>6 DEF Record
  <2> DEFINE n == [b EXCEPT !.verdicts = b.verdicts \ {v}]
  <2>2. worker' = [worker EXCEPT ![w] = n]
    BY <2>1 DEF TypeOK
  <2>3. /\ n.existing = b.existing /\ n.missing = b.missing
        /\ n.verdicts = b.verdicts \ {v}
    BY <1>1 DEF Batch
  <2> HIDE DEF n
  <2>4. QED
    BY <2>2, <2>3
<1>7. CASE Crash(w)
  <2>1. worker' = [worker EXCEPT ![w] = NoBatch]
    BY <1>7 DEF Crash
  <2>2. QED
    BY <2>1, ClaimsOfNothing
<1>8. QED
  BY <1>2, <1>3, <1>4, <1>5, <1>6, <1>7 DEF WorkOnBatch

LEMMA DetailedBatch ==
    ASSUME TypeOK, NEW w \in Workers, BatchDetailed(worker[w]),
           WorkOnBatch(w) \/ Crash(w)
    PROVE  \E n : worker' = [worker EXCEPT ![w] = n] /\ BatchDetailed(n)
  BY BatchStep DEF BatchDetailed

\* A job becomes done only by a verdict that some worker holds.
LEMMA NewlyDone ==
    ASSUME TypeOK, [Next]_vars, NEW i \in Items, jobs[i].status # "done",
           jobs'[i].status = "done"
    PROVE  \E w \in Workers : \E v \in worker[w].verdicts :
             v.verdict = "done" /\ v.claim.item = i
<1>1. ASSUME NEW w \in Workers, Record(w)
      PROVE  \E v \in worker[w].verdicts : v.verdict = "done" /\ v.claim.item = i
  <2>1. PICK v \in worker[w].verdicts :
          jobs' = [jobs EXCEPT ![v.claim.item] =
            IF Holds(v.claim) THEN Recorded(@, v.verdict) ELSE @]
    BY <1>1 DEF Record
  <2>2. v.claim.item \in Items /\ v.verdict \in {"done", "retry"}
    BY BatchShape
  <2>3. CASE i = v.claim.item /\ v.verdict = "done"
    BY <2>3
  <2>4. CASE i = v.claim.item /\ v.verdict = "retry"
    BY <2>1, <2>2, <2>4 DEF Recorded, Row, TypeOK
  <2>5. CASE i # v.claim.item
    BY <2>1, <2>5 DEF TypeOK
  <2>6. QED
    BY <2>2, <2>3, <2>4, <2>5
<1>2. ASSUME \A w \in Workers : ~Record(w) PROVE jobs[i].status = "done"
  <2>1. ASSUME UNCHANGED jobs PROVE jobs[i].status = "done"
    BY <2>1
  <2>2. ASSUME NEW k \in Items, BackoffEnds(k) \/ LeaseLapses(k)
        PROVE  jobs[i].status = "done"
    <3>1. CASE BackoffEnds(k)
      BY <3>1 DEF BackoffEnds, TypeOK, Job
    <3>2. CASE LeaseLapses(k)
      BY <3>2 DEF LeaseLapses, TypeOK, Job
    <3>3. QED
      BY <2>2, <3>1, <3>2
  <2>3. ASSUME NEW r \in Resolvers, Admit(r) PROVE jobs[i].status = "done"
    <3>1. jobs'[i] = jobs[i] \/ jobs'[i] = Row("queued", 0, TRUE, 0)
      BY <2>3 DEF Admit
    <3>2. QED
      BY <3>1 DEF Row
  <2>4. ASSUME NEW w \in Workers, ClaimBatch(w) PROVE jobs[i].status = "done"
    <3>1. \/ jobs'[i] = jobs[i] \/ jobs'[i] = Expired(jobs[i])
          \/ jobs'[i] = Leased(jobs[i]) \/ jobs'[i] = Leased(Expired(jobs[i]))
      BY <2>4 DEF ClaimBatch
    <3>2. QED
      BY <3>1 DEF Expired, Leased, Row
  <2>5. ASSUME NEW w \in Workers, WorkOnBatch(w) \/ Crash(w) PROVE UNCHANGED jobs
    BY <1>2, <2>5 DEF WorkOnBatch, LoadBatch, Reconcile, FetchMissing, Persist,
       FetchRaises, Collect, Crash
  <2>6. ASSUME NEW k \in Items, NEW content \in Contents, OtherWrite(k, content)
        PROVE  UNCHANGED jobs
    BY <2>6 DEF OtherWrite
  <2>7. ASSUME NEW r \in Resolvers,
               (\E requested \in SUBSET Items : ResolveRead(r, requested))
                 \/ FilterExisting(r)
        PROVE  UNCHANGED jobs
    BY <2>7 DEF ResolveRead, FilterExisting
  <2>8. CASE Switch \/ UNCHANGED vars
    BY <2>1, <2>8 DEF Switch, vars
  <2>9. QED
    BY <2>1, <2>2, <2>3, <2>4, <2>5, <2>6, <2>7, <2>8 DEF Next
<1>3. QED
  BY <1>1, <1>2

LEMMA DoneStep ==
    ASSUME TypeOK, Detailed, [Next]_vars, NEW i \in Items, jobs'[i].status = "done"
    PROVE  detail[i] # "none"
  BY NewlyDone DEF Detailed, DoneHasDetail, BatchDetailed

LEMMA DetailedNext == ASSUME TypeOK, Detailed, [Next]_vars PROVE Detailed'
<1>1. \A i \in Items : detail[i] # "none" => detail'[i] # "none"
  BY DetailStays
<1>2. DoneHasDetail'
  BY <1>1, DoneStep DEF DoneHasDetail
<1>3. ASSUME NEW w \in Workers, BatchDetailed(worker'[w]) PROVE BatchDetailed(worker[w])'
  <2>1. TypeOK'
    BY TypeNext
  <2>2. /\ \A c \in worker'[w].existing : c.item \in Items
        /\ \A v \in worker'[w].verdicts : v.claim.item \in Items
    BY <2>1 DEF TypeOK, Batch, Claim
  <2>3. QED
    BY <1>1, <1>3, <2>2 DEF BatchDetailed
<1>4. BatchDetailed(NoBatch)
  BY ClaimsOfNothing DEF BatchDetailed
<1>5. ASSUME NEW w \in Workers PROVE BatchDetailed(worker'[w])
  <2>1. CASE UNCHANGED worker
    BY <2>1 DEF Detailed
  <2>2. ASSUME NEW v \in Workers, WorkOnBatch(v) \/ Crash(v)
        PROVE  BatchDetailed(worker'[w])
    <3>1. PICK n : worker' = [worker EXCEPT ![v] = n] /\ BatchDetailed(n)
      BY <2>2, DetailedBatch DEF Detailed
    <3>2. QED
      BY <3>1 DEF Detailed, TypeOK
  <2>3. ASSUME NEW v \in Workers, ClaimBatch(v) PROVE BatchDetailed(worker'[w])
    <3>1. CASE w # v
      BY <2>3, <3>1, ClaimBatchMoves DEF Detailed
    <3>2. CASE w = v
      <4> DEFINE cs == worker'[w].unread
                 n == [NoBatch EXCEPT !.at = "claimed", !.unread = cs]
      <4>1. worker'[w] = n \/ worker'[w] = NoBatch
        BY <2>3, <3>2, ClaimBatchMoves
      <4>2. n.existing = {} /\ n.verdicts = {}
        BY DEF NoBatch
      <4> HIDE DEF n
      <4>3. QED
        BY <1>4, <4>1, <4>2 DEF BatchDetailed
    <3>3. QED
      BY <3>1, <3>2
  <2>4. CASE Switch
    BY <1>4, <2>4 DEF Switch
  <2>5. ASSUME NEW i \in Items, NEW content \in Contents, OtherWrite(i, content)
        PROVE  UNCHANGED worker
    BY <2>5 DEF OtherWrite
  <2>6. ASSUME NEW r \in Resolvers,
               \/ \E requested \in SUBSET Items : ResolveRead(r, requested)
               \/ FilterExisting(r)
               \/ Admit(r)
        PROVE  UNCHANGED worker
    BY <2>6 DEF ResolveRead, FilterExisting, Admit
  <2>7. ASSUME NEW i \in Items, BackoffEnds(i) \/ LeaseLapses(i) PROVE UNCHANGED worker
    BY <2>7 DEF BackoffEnds, LeaseLapses
  <2>8. CASE UNCHANGED vars
    BY <2>1, <2>8 DEF vars
  <2>9. QED
    BY <2>1, <2>2, <2>3, <2>4, <2>5, <2>6, <2>7, <2>8 DEF Next
<1>6. QED
  BY <1>2, <1>3, <1>5 DEF Detailed

\* A done job has a detail, whichever worker finished it and by which path.
THEOREM DoneImpliesDetail == Spec => []DoneHasDetail
<1>1. Init => TypeOK /\ Detailed
  BY TypeInit, ClaimsOfNothing DEF Init, Detailed, DoneHasDetail, BatchDetailed, Row
<1>2. TypeOK /\ Detailed /\ [Next]_vars => (TypeOK /\ Detailed)'
  BY TypeNext, DetailedNext
<1>3. Detailed => DoneHasDetail
  BY DEF Detailed
<1>4. QED
  BY <1>1, <1>2, <1>3, PTL DEF Spec
-----------------------------------------------------------------------------
(* A job that becomes done leaves a complete detail classifiable.  The fetch *)
(* path marks a job done without looking at its hash: it may, because the    *)
(* item had no detail when its batch was loaded, so that whoever wrote one   *)
(* since did so in a transaction that materialized the hash and enqueued;    *)
(* the flag cannot have changed in between, since switching it restarts the  *)
(* workers.  Legacy details are rebuilt by the reconciliation.               *)

BatchClassifiable(b) ==
    /\ \A c \in b.missing : Classifiable(c.item)
    /\ \A v \in b.verdicts : v.verdict = "done" => Classifiable(v.claim.item)
AllClassifiable == \A w \in Workers : BatchClassifiable(worker[w])

\* A classifiable item stays so until the flag is switched.
LEMMA ClassifiableStays ==
    ASSUME TypeOK, Next, ~Switch, NEW i \in Items, Classifiable(i)
    PROVE  Classifiable(i)'
<1>1. ASSUME UNCHANGED <<detail, hashed, enqueued, enabled>> PROVE Classifiable(i)'
  BY <1>1 DEF Classifiable
<1>2. ASSUME NEW k \in Items, NEW content, Upsert(k, content), UNCHANGED enabled
      PROVE  Classifiable(i)'
  <2>1. CASE k = i
    BY <1>2, <2>1 DEF Upsert, HasState, Classifiable, TypeOK
  <2>2. CASE k # i
    BY <1>2, <2>2 DEF Upsert, Classifiable, TypeOK
  <2>3. QED
    BY <2>1, <2>2
<1>3. ASSUME NEW w \in Workers, Persist(w) PROVE Classifiable(i)'
  <2>1. PICK p \in worker[w].arrived :
          /\ Upsert(p.claim.item, p.content) \/ UNCHANGED <<detail, hashed, enqueued>>
          /\ UNCHANGED enabled
    BY <1>3 DEF Persist
  <2>2. p.claim.item \in Items
    BY BatchShape
  <2>3. QED
    BY <1>1, <1>2, <2>1, <2>2
<1>4. ASSUME NEW w \in Workers, Reconcile(w) PROVE Classifiable(i)'
  <2>1. PICK c \in worker[w].existing :
          /\ hashed' = [hashed EXCEPT ![c.item] =
               IF Holds(c) THEN HasState(detail[c.item]) ELSE @]
          /\ enqueued' = [enqueued EXCEPT ![c.item] =
               IF Holds(c) THEN HasState(detail[c.item]) /\ Reconciled(c.item) ELSE @]
    BY <1>4 DEF Reconcile
  <2>2. UNCHANGED <<detail, enabled>>
    BY <1>4 DEF Reconcile
  <2>3. CASE c.item = i
    BY <2>1, <2>2, <2>3 DEF HasState, Reconciled, Classifiable, TypeOK
  <2>4. CASE c.item # i
    BY <2>1, <2>2, <2>4 DEF Classifiable, TypeOK
  <2>5. QED
    BY <2>3, <2>4
<1>5. ASSUME NEW w \in Workers, WorkOnBatch(w) \/ Crash(w) \/ ClaimBatch(w),
             ~Persist(w), ~Reconcile(w)
      PROVE  Classifiable(i)'
  BY <1>1, <1>5 DEF WorkOnBatch, LoadBatch, FetchMissing, FetchRaises, Collect, Record,
     Crash, ClaimBatch
<1>6. ASSUME NEW k \in Items, NEW content \in Contents, OtherWrite(k, content)
      PROVE  Classifiable(i)'
  BY <1>2, <1>6 DEF OtherWrite
<1>7. ASSUME NEW k \in Items, BackoffEnds(k) \/ LeaseLapses(k) PROVE Classifiable(i)'
  BY <1>1, <1>7 DEF BackoffEnds, LeaseLapses
<1>8. ASSUME NEW r \in Resolvers,
             \/ \E requested \in SUBSET Items : ResolveRead(r, requested)
             \/ FilterExisting(r)
             \/ Admit(r)
      PROVE  Classifiable(i)'
  BY <1>1, <1>8 DEF ResolveRead, FilterExisting, Admit
<1>9. QED
  BY <1>3, <1>4, <1>5, <1>6, <1>7, <1>8 DEF Next

LEMMA ClassifiableNext ==
    ASSUME TypeOK, AllClassifiable, [Next]_vars
    PROVE  AllClassifiable'
<1>1. CASE UNCHANGED vars
  BY <1>1 DEF vars, AllClassifiable, BatchClassifiable, Classifiable
<1>2. CASE Switch
  <2>1. \A w \in Workers : worker'[w] = NoBatch
    BY <1>2 DEF Switch
  <2>2. QED
    BY <2>1, ClaimsOfNothing DEF AllClassifiable, BatchClassifiable
<1>3. ASSUME Next, ~Switch, NEW w \in Workers PROVE BatchClassifiable(worker[w])'
  <2>1. \A i \in Items : Classifiable(i) => Classifiable(i)'
    BY <1>3, ClassifiableStays
  <2>2. /\ \A c \in worker[w].missing : c.item \in Items
        /\ \A v \in worker[w].verdicts : v.claim.item \in Items
    BY DEF TypeOK, Batch, Claim
  <2>3. BatchClassifiable(worker[w])
    BY DEF AllClassifiable
  <2>4. CASE worker'[w] = worker[w]
    BY <2>1, <2>2, <2>3, <2>4 DEF BatchClassifiable
  <2>5. CASE WorkOnBatch(w) \/ Crash(w)
    <3>1. PICK n :
            /\ worker' = [worker EXCEPT ![w] = n]
            /\ \A c \in n.missing : c \in worker[w].missing \/ detail[c.item] = "none"
            /\ \A v \in n.verdicts :
                 \/ v \in worker[w].verdicts
                 \/ Classifiable(v.claim.item)'
                 \/ v.claim \in worker[w].missing
      BY <2>5, BatchStep
    <3>2. worker'[w] = n
      BY <3>1 DEF TypeOK
    <3>3. TypeOK'
      BY <1>3, TypeNext
    <3>4. \A c \in n.missing : c.item \in Items
      BY <3>2, <3>3 DEF TypeOK, Batch, Claim
    <3>5. \A c \in n.missing : Classifiable(c.item)'
      <4>1. ASSUME NEW c \in n.missing PROVE Classifiable(c.item)
        BY <2>3, <3>1 DEF BatchClassifiable, Classifiable
      <4>2. QED
        BY <2>1, <3>4, <4>1
    <3>6. \A v \in n.verdicts : v.verdict = "done" => Classifiable(v.claim.item)'
      BY <2>1, <2>2, <2>3, <3>1 DEF BatchClassifiable
    <3>7. QED
      BY <3>2, <3>5, <3>6 DEF BatchClassifiable
  <2>6. CASE ClaimBatch(w)
    <3> DEFINE cs == worker'[w].unread
               n == [NoBatch EXCEPT !.at = "claimed", !.unread = cs]
    <3>1. worker'[w] = n \/ worker'[w] = NoBatch
      BY <2>6, ClaimBatchMoves
    <3>2. n.missing = {} /\ n.verdicts = {}
      BY DEF NoBatch
    <3> HIDE DEF n
    <3>3. QED
      BY <3>1, <3>2, ClaimsOfNothing DEF BatchClassifiable
  <2>7. ASSUME NEW v \in Workers \ {w}, ClaimBatch(v) \/ WorkOnBatch(v) \/ Crash(v)
        PROVE  worker'[w] = worker[w]
    <3>1. CASE ClaimBatch(v)
      BY <3>1, ClaimBatchMoves
    <3>2. CASE WorkOnBatch(v) \/ Crash(v)
      <4>1. PICK n : worker' = [worker EXCEPT ![v] = n]
        BY <3>2, BatchStep
      <4>2. QED
        BY <4>1 DEF TypeOK
    <3>3. QED
      BY <2>7, <3>1, <3>2
  <2>8. ASSUME UNCHANGED worker PROVE worker'[w] = worker[w]
    BY <2>8
  <2>9. ASSUME NEW k \in Items, NEW content \in Contents, OtherWrite(k, content)
        PROVE  worker'[w] = worker[w]
    BY <2>8, <2>9 DEF OtherWrite
  <2>10. ASSUME NEW k \in Items, BackoffEnds(k) \/ LeaseLapses(k)
         PROVE  worker'[w] = worker[w]
    BY <2>8, <2>10 DEF BackoffEnds, LeaseLapses
  <2>11. ASSUME NEW r \in Resolvers,
                \/ \E requested \in SUBSET Items : ResolveRead(r, requested)
                \/ FilterExisting(r)
                \/ Admit(r)
         PROVE  worker'[w] = worker[w]
    BY <2>8, <2>11 DEF ResolveRead, FilterExisting, Admit
  <2>12. QED
    BY <1>3, <2>4, <2>5, <2>6, <2>7, <2>9, <2>10, <2>11 DEF Next
<1>4. QED
  BY <1>1, <1>2, <1>3 DEF AllClassifiable

\* A job that becomes done leaves a complete detail with its hash and its moderation
\* work, whoever wrote the detail, before or during the batch.
THEOREM DoneLeavesEnqueued == Spec => DoneIsEnqueued
<1>1. Init => TypeOK /\ AllClassifiable
  BY TypeInit, ClaimsOfNothing DEF Init, AllClassifiable, BatchClassifiable
<1>2. TypeOK /\ AllClassifiable /\ [Next]_vars => (TypeOK /\ AllClassifiable)'
  BY TypeNext, ClassifiableNext
<1>3. TypeOK /\ AllClassifiable /\ [Next]_vars =>
        [\A i \in Items :
           /\ jobs[i].status # "done" /\ jobs'[i].status = "done"
           /\ enabled /\ detail[i] = "full"
           => hashed[i] /\ enqueued[i]]_vars
  BY NewlyDone DEF AllClassifiable, BatchClassifiable, Classifiable
<1>4. QED
  BY <1>1, <1>2, <1>3, PTL DEF Spec, DoneIsEnqueued
-----------------------------------------------------------------------------
(* The cap.  Admission alone makes rows active, and it admits no more rows   *)
(* than there are slots: the last one it admits has fewer than that many     *)
(* candidates before it, and the others are among those.                     *)

Pending == {i \in Items : jobs[i].status \in Active}

LEMMA PendingFinite == IsFiniteSet(Pending) /\ Cardinality(Pending) \in Nat
  BY ItemsAssumption, FS_Subset, FS_CardinalityType DEF Pending

LEMMA PendingFiniteNext == IsFiniteSet(Pending') /\ Cardinality(Pending') \in Nat
  BY ItemsAssumption, FS_Subset, FS_CardinalityType DEF Pending

\* A set whose last element has fewer than `slots` elements of C before it, the
\* others among them, has at most `slots` elements.
LEMMA ChosenFit ==
    ASSUME NEW C, IsFiniteSet(C), NEW chosen \in SUBSET C, NEW last \in chosen,
           NEW earlier \in SUBSET C, chosen \ {last} \subseteq earlier,
           NEW slots \in Nat, Cardinality(earlier) < slots
    PROVE  Cardinality(chosen) <= slots
<1>1. IsFiniteSet(earlier) /\ Cardinality(earlier) \in Nat
  BY FS_Subset, FS_CardinalityType
<1>2. IsFiniteSet(chosen \ {last}) /\ Cardinality(chosen \ {last}) <= Cardinality(earlier)
  BY <1>1, FS_Subset
<1>3. Cardinality(chosen \ {last}) \in Nat
  BY <1>2, FS_CardinalityType
<1>4. chosen = (chosen \ {last}) \cup {last}
  OBVIOUS
<1>5. Cardinality(chosen) = Cardinality(chosen \ {last}) + 1
  BY <1>2, <1>4, FS_AddElement
<1>6. QED
  BY <1>1, <1>2, <1>3, <1>5

LEMMA AdmitFits ==
    ASSUME TypeOK, PendingBounded, NEW r \in Resolvers, Admit(r)
    PROVE  PendingBounded'
<1> DEFINE candidates == resolver[r].candidates
           slots == Slots(Cardinality(Pending))
           earlier(i) == {k \in candidates : Before(k, i)}
           admitted == {i \in candidates : Cardinality(earlier(i)) < slots}
<1>1. /\ jobs' = [i \in Items |->
           IF i \in admitted /\ Insertable(i) THEN Row("queued", 0, TRUE, 0) ELSE jobs[i]]
      /\ admitted # {} => \E last \in admitted :
           \A k \in admitted \ {last} : Before(k, last)
  BY DEF Admit, Pending
<1>2. MaxPending \in Nat /\ Cardinality(Pending) \in Nat /\ Cardinality(Pending) <= MaxPending
  BY LimitsAssumption, PendingFinite DEF PendingBounded, Pending
<1>3. slots \in Nat /\ slots + Cardinality(Pending) = MaxPending
  BY <1>2 DEF Slots
<1>4. candidates \subseteq Items /\ IsFiniteSet(candidates)
  BY ItemsAssumption, FS_Subset DEF TypeOK, Request
<1>5. IsFiniteSet(admitted) /\ Cardinality(admitted) \in Nat
  <2>1. admitted \subseteq candidates
    OBVIOUS
  <2>2. QED
    BY <1>4, <2>1, FS_Subset, FS_CardinalityType
<1>6. Cardinality(admitted) <= slots
  <2>1. CASE admitted = {}
    <3>1. Cardinality(admitted) = 0
      BY <2>1, FS_EmptySet
    <3> HIDE DEF admitted, slots
    <3>2. QED
      BY <1>3, <3>1
  <2>2. CASE admitted # {}
    <3>1. PICK last \in admitted : \A k \in admitted \ {last} : Before(k, last)
      BY <1>1, <2>2
    <3>2. Cardinality(earlier(last)) < slots
      BY <3>1
    <3>3. admitted \subseteq candidates /\ earlier(last) \subseteq candidates
      OBVIOUS
    <3>4. admitted \ {last} \subseteq earlier(last)
      BY <3>1, <3>3
    <3> HIDE DEF admitted, slots, candidates, earlier
    <3>5. QED
      BY <1>3, <1>4, <3>1, <3>2, <3>3, <3>4, ChosenFit
  <2>3. QED
    BY <2>1, <2>2
<1> HIDE DEF admitted, slots
<1>7. Pending' \subseteq Pending \cup admitted
  BY <1>1 DEF Pending
<1>8. /\ IsFiniteSet(Pending \cup admitted)
      /\ Cardinality(Pending \cup admitted) <= Cardinality(Pending) + Cardinality(admitted)
  <2>1. Cardinality(Pending \cap admitted) \in Nat
    BY <1>5, FS_Intersection, FS_CardinalityType
  <2>2. /\ IsFiniteSet(Pending \cup admitted)
        /\ Cardinality(Pending \cup admitted) =
             Cardinality(Pending) + Cardinality(admitted) - Cardinality(Pending \cap admitted)
    BY <1>5, PendingFinite, FS_Union
  <2>3. QED
    BY <1>2, <1>5, <2>1, <2>2
<1>9. Cardinality(Pending') <= Cardinality(Pending \cup admitted)
      /\ Cardinality(Pending \cup admitted) \in Nat
  BY <1>7, <1>8, FS_Subset, FS_CardinalityType
<1>10. Cardinality(Pending') <= MaxPending
  BY <1>2, <1>3, <1>5, <1>6, <1>8, <1>9, PendingFiniteNext
<1>11. QED
  BY <1>10 DEF PendingBounded, Pending

\* Every other step leaves the inactive rows inactive.
LEMMA InactiveStays ==
    ASSUME TypeOK, [Next]_vars, \A r \in Resolvers : ~Admit(r), NEW i \in Items,
           jobs[i].status \notin Active
    PROVE  jobs'[i].status \notin Active
<1>1. ASSUME UNCHANGED jobs PROVE jobs'[i].status \notin Active
  BY <1>1
<1>2. ASSUME NEW k \in Items, BackoffEnds(k) \/ LeaseLapses(k)
      PROVE  jobs'[i].status \notin Active
  <2>1. CASE BackoffEnds(k)
    BY <2>1 DEF BackoffEnds, TypeOK, Job
  <2>2. CASE LeaseLapses(k)
    BY <2>2 DEF LeaseLapses, TypeOK, Job
  <2>3. QED
    BY <1>2, <2>1, <2>2
<1>3. ASSUME NEW w \in Workers, ClaimBatch(w) PROVE jobs'[i].status \notin Active
  <2> DEFINE expired == [k \in Items |-> IF Lapsed(k) THEN Expired(jobs[k]) ELSE jobs[k]]
             ready == {k \in Items : expired[k].status \in Waiting /\ expired[k].due}
  <2>1. PICK S \in SUBSET ready :
          jobs' = [k \in Items |-> IF k \in S THEN Leased(expired[k]) ELSE expired[k]]
    BY <1>3 DEF ClaimBatch
  <2>2. expired[i] = jobs[i] /\ i \notin ready
    BY DEF Lapsed, Active
  <2>3. jobs'[i] = jobs[i]
    BY <2>1, <2>2
  <2>4. QED
    BY <2>3
<1>4. ASSUME NEW w \in Workers, Record(w) PROVE jobs'[i].status \notin Active
  <2>1. PICK v \in worker[w].verdicts :
          jobs' = [jobs EXCEPT ![v.claim.item] =
            IF Holds(v.claim) THEN Recorded(@, v.verdict) ELSE @]
    BY <1>4 DEF Record
  <2>2. jobs'[i] = jobs[i]
    BY <2>1 DEF Holds, Active, TypeOK
  <2>3. QED
    BY <2>2
<1>5. ASSUME NEW w \in Workers, WorkOnBatch(w) \/ Crash(w), ~Record(w) PROVE UNCHANGED jobs
  BY <1>5 DEF WorkOnBatch, LoadBatch, Reconcile, FetchMissing, Persist, FetchRaises,
     Collect, Crash
<1>6. ASSUME NEW k \in Items, NEW content \in Contents, OtherWrite(k, content)
      PROVE  UNCHANGED jobs
  BY <1>6 DEF OtherWrite
<1>7. ASSUME NEW r \in Resolvers,
             (\E requested \in SUBSET Items : ResolveRead(r, requested))
               \/ FilterExisting(r)
      PROVE  UNCHANGED jobs
  BY <1>7 DEF ResolveRead, FilterExisting
<1>8. CASE Switch \/ UNCHANGED vars
  BY <1>1, <1>8 DEF Switch, vars
<1>9. QED
  BY <1>1, <1>2, <1>3, <1>4, <1>5, <1>6, <1>7, <1>8 DEF Next

LEMMA PendingNext == TypeOK /\ PendingBounded /\ [Next]_vars => PendingBounded'
<1> SUFFICES ASSUME TypeOK, PendingBounded, [Next]_vars,
                    \A r \in Resolvers : ~Admit(r)
             PROVE  PendingBounded'
  BY AdmitFits
<1>1. Pending' \subseteq Pending
  BY InactiveStays DEF Pending
<1>2. Cardinality(Pending') <= Cardinality(Pending)
  BY <1>1, PendingFinite, FS_Subset
<1>3. Cardinality(Pending) <= MaxPending /\ MaxPending \in Nat
  BY LimitsAssumption DEF PendingBounded, Pending
<1>4. Cardinality(Pending') <= MaxPending
  BY <1>2, <1>3, PendingFinite, PendingFiniteNext
<1>5. QED
  BY <1>4 DEF PendingBounded, Pending

LEMMA PendingInit == Init => PendingBounded
<1> SUFFICES ASSUME Init PROVE PendingBounded
  OBVIOUS
<1>1. {i \in Items : jobs[i].status \in Active} = {}
  BY DEF Init, Row, Active, Waiting
<1>2. Cardinality({i \in Items : jobs[i].status \in Active}) = 0
  BY <1>1, FS_EmptySet
<1>3. QED
  BY <1>2, LimitsAssumption DEF PendingBounded

\* Admission never leaves more queued, retrying and leased rows than the cap, for
\* any number of concurrent resolver requests and any catalog.
THEOREM CapIsKept == Spec => []PendingBounded
  BY TypeInit, TypeNext, PendingInit, PendingNext, PTL DEF Spec
=============================================================================
