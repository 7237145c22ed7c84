# A TLA+ verification of Denn

Denn is a media tracker: a Django service (`src/core`) that owns accounts, lists,
tracking, ratings and the persisted metadata of content items; a Go gateway
(`src/proxy`) to the metadata providers; and a TanStack web application with its
own server side (`src/web`). This directory holds TLA+ models of the parts of it
whose correctness depends on the order in which several actors act, the TLC
configurations that check them on small instances, and proofs, checked by TLAPS,
of what they guarantee for instances of any size.

- [The system](#the-system): components, their state, how they interact, what makes them correct
- [The modules](#the-modules): how state and actions correspond to the code
- [The runs](#the-runs): what each checks, its bounds, the fairness it assumes
- [The proofs](#the-proofs)
- [Where the code and its documentation part](#where-the-code-and-its-documentation-part)
- [What is not modelled](#what-is-not-modelled)
- [Plan](#plan)

Run from this directory:

    tlc -workers 2 -config ModerationOutbox_race.cfg MCModerationOutbox.tla
    tlapm ModerationOutboxProofs.tla

## The system

Paths are relative to `src/core/content/` unless they start with `proxy/` or `web/`.

| Component | State it keeps | Operations | Hard behaviour | What makes it correct |
|---|---|---|---|---|
| **Moderation outbox** `services/moderation_job_{enqueue,worker}.py`, `moderation_source_hash.py`, `moderation_service.py`, `models/moderation.py` | one job per (item, source hash, question revision) with status, attempts, lease; the item's current hash; judgments | detail write with enqueue, resolver admission, claim, process, finish, retry, expiry | leases that lapse under a running worker; paid requests whose answer is lost; sources that change under a call | no job in two hands; no lost request sent twice; final states final; waiting jobs end |
| **Metadata preparation** `services/metadata_preparation_{enqueue,worker}.py`, `source_data_orchestrator.py` | one job per item, the admission cursor, the item's detail | bounded admission, claim, reconcile, fetch, guarded write, record | reclaimed leases whose old holder still writes; a full queue; partial failures inside a batch | one worker passes the fence; no stale write; cap and attempts bounded; `done` means a detail; every candidate admitted eventually |
| **Tracking** `services/{tracking_service,progress_policy,dynamic_collections}.py`, `signals/rating_signals.py` | tracking rows, ratings, favorites, banner, list items of the dynamic collections, rating aggregates | ensure, transition, rate, (un)favorite, remove, delete rating, synchronize, choose banner | READ COMMITTED transactions that lock different rows | each call is atomic; quota held; ratings follow status; losses acknowledged; collections heal |
| **List ordering** `models/list_item.py`, `views/list_item.py` | `list_order` of each item, unique per list | add, update, remove, move, reorder, apply sort | renumbering under a constraint checked row by row; reads before the transaction; an update that writes the whole row back | places distinct and positive; a new row is the last; a move keeps the others' relative order; a reorder yields the order asked for; an update moves no other row |
| **List membership** `services/list_{policy,service}.py`, `views/list_{invitation,member}.py` | members with roles, invitations | invite, respond, change role, leave, repair ownership | role checks and writes in separate statements without locks | one owner; only invited users join; no promotion past the actor's role |
| **Source data reads** `services/source_data_orchestrator.py`, `services/local_content_store/` | details with fetch dates; in-flight refresh ids per process | local-first read, foreground fetch, background refresh | an in-flight id that is never released; refreshes racing writes | one refresh per id and process; every id released; local data served on failure |
| **Homepage aggregate** `proxy/internal/handlers/homepage/handler.go` | fresh and stale cache entries, flights per key | request, lead a flight, follow one, refresh in the background | followers tied to the leader's context; degraded results cached | one flight per key and process; every request answered; a good stale copy not lost |
| **Provider client** `proxy/internal/clients/`, `middleware/ratelimit.go`, `providers/spotify/` | circuit breaker, cached responses, token, counters in Redis | request with retries, breaker transitions, token refresh, count | late successes and failures around the breaker; two calls where one is meant | breaker opens and closes; one refresh at a time; every counter expires |
| **Web session and BFF** `web/src/server/{auth-cookies,core-bff,session,auth-routes}.ts`, `web/src/stores/auth-store.ts` | access and refresh cookies, refreshes in flight per process, the browser's session state | bootstrap, authenticated call, refresh, login, logout | rotating refresh tokens; several tabs and server processes; logout during a refresh | a live session is not dropped; a tab forgets its user only when told so; coalesced refreshes per token |
| **List page** `web/src/components/pages/ListDetailPage/`, `web/src/lib/api/mutations/useList*.ts` | the address, the cached pages, statistics and list, mutations under way, reorder mode, dialogs | explore, turn pages, search, mark done, rate, delete, reorder, edit and delete the list, leave and return | optimistic patches on pages that are being read; rollbacks; page numbers that stop existing | once quiet the page shows what Core has |
| **Content page** `web/src/components/pages/ContentDetailPage/`, `web/src/lib/api/mutations/use{Tracking,Rating}Mutations.ts` | cached details, own rating, pages of ratings, rows of a list, mutations with snapshots | change status with confirmation, favorite, stop tracking, rate, delete the rating, go elsewhere | snapshots of all details put back by one refused call; two pages that change the same title | once quiet the viewer sees his own writes |
| **Add-to-list dialog** `web/src/components/common/modals/AddToListModal/` | boxes, selection, calls in progress | add and remove the title or seasons, create a list | several calls, some failing, and refreshes that cross | the boxes are no older than the viewer's last call |
| **Forms** `web/src/components/{common/modals,forms}/`, `PublicProfilePage/EditProfileModal.tsx` | a copy of a record, submission, error | open, type, submit, close | the record changes under an open form; closing during a submission | an untouched dialog shows the record |
| **Profile page and settings** `web/src/components/pages/{PublicProfilePage,SettingsPage}/`, `web/src/lib/profileSearch.ts`, `usePublicProfileMutation.ts` | overview, tabs, address, banner, the session store's user | edit, change tab, filter, page, choose a banner, preferences | one edit writes three copies and rolls back three | banner chosen or favorite; rows those of the address; owner sees what Core keeps |
| **Cards, artwork, platforms** `web/src/components/common/{cards,media}/`, `web/src/lib/platforms/` | popover, timers; reveals; the chosen way to watch | hover, focus, dismiss; reveal; select | timers that outlive their reason; components reused for another title | no popover without a reason; only what was revealed is uncovered; each offer shown once |
| **Search, browse, home** `web/src/components/pages/{SearchPage,BrowsePage,HomePage}/`, `web/src/hooks/useDebouncedSearch.ts`, `web/src/server/catalog.ts` | typed query, debounced query, address, kept answers | type, navigate, page, sort, resolve provider titles | answers kept from the previous query; identities that share an id | what is shown is what was asked for; a card leads to its title |
| Multi-search, provider mappers, moderation text and policy, REST views | none, or single rows | parsing, mapping, scoring, rendering | - | see [What is not modelled](#what-is-not-modelled) |

How they interact. A catalog request of the web application reaches the proxy's
homepage aggregate; core's `ContentItemBulkResolveView` resolves its ids and, in
the same request, admits *preparation* jobs for items that lack a detail or a
hash and *moderation* jobs for items that lack a judgment. A preparation worker
fetches details through the source data orchestrator and the proxy; every detail
write materializes the item's source hash and enqueues its moderation job in the
same transaction, which is also what an ordinary detail read or ingest does. A
moderation worker sends the text to an external classifier. Tracking, lists and
ratings share the item rows with these but no protocol: they meet in row locks
and constraints only. Shared state is in PostgreSQL (and Redis for the proxy);
there are no messages between the parts but HTTP calls. The browser reaches core
through the web server's BFF only, which holds the tokens in cookies; its pages keep
what they read in one query cache and patch it optimistically.

`PROJECT.json` lists under "hazards" each place where the code is exposed to
something a test would hardly reach, with the properties that cover it.

## The modules

| Module | Role |
|---|---|
| `ModerationOutbox` | the outbox: writers, resolver, leased workers, crashes, redeployments |
| `ModerationLifecycle` | abstract: the life cycle of one job identity, no leases or workers |
| `MetadataPreparation` | admission behind the cursor, leased workers, guarded writes |
| `TrackingRules` | pure operators: what each tracking call does to an entry |
| `TrackingPromises` | abstract: every accepted call is one atomic step |
| `Tracking` | the same calls as READ COMMITTED transactions with their locks |
| `SessionRules` | pure operators of the session: cookies, statuses, the browser's store, redirects |
| `WebSession` | tabs, requests and cookies, server processes with their refreshes, core's tokens |
| `ListOrdering` | the places of a list's rows under concurrent requests |
| `HomepageFlight` | the proxy's homepage aggregate: two cached copies, one flight per key |
| `SourceData` | Core's reads of provider data: foreground fetches, background refreshes |
| `MCServices` | the session and these three as the scenes of one specification |
| `QueryCache` | the client's query cache: reads under way, patches, invalidation, cancellation |
| `ListQuery`, `ListLayout` | pure operators: a list's address; grouping, sorting and paging of its rows |
| `ListPage`, `ContentPage`, `AddToList`, `ProfilePage` | pages over `QueryCache` with their mutations |
| `Forms`, `HoverCard`, `Artwork`, `Platforms` | user interface with state of its own |
| `Catalog`, `Discovery` | resolution of provider titles; search, browse and home |
| `MCPages` | all pages as the scenes of one specification |
| `MC*` | instances for TLC (symmetry sets, item types); values are in the `.cfg` files |
| `*Proofs` | theorems and proofs about the module they are named for |

Conventions. An action's comment names the function it stands for; `PROJECT.json`
maps every definition to its lines. `budget` bounds what the environment may do
(writes, crashes, redeployments, calls, failures); the constants `Max...` name the
bounds. An operator `D_mistake` just before `D` is a plausible wrong version of
`D`; no specification uses it. Each property of a passing run has such a mistake that makes
TLC report it, which shows that the property is about the code's logic.

### ModerationOutbox

`jobs` is the table `content_moderation_job` indexed by its unique identity,
`current` and `text` the item's hash and the text it is computed from, `judged`
the identities with a complete judgment, `worker` what each
`run_moderation_worker` process remembers, `snapshot` what a resolver request has
read and not yet used.

- *Writers*: `WriteDetail` is `upsert_detail_with_moderation_hash`, one
  transaction under the item's row lock with `enqueue_current_moderation_job`
  inside; `RehashDetail` and `ClassifyManually` are the two backfill commands. The
  latter classifies without a job.
- *Resolver*: reads hashes and judgments (`ResolveRead`), later inserts missing
  jobs (`ResolveAdmit`). Both sets are stale by then.
- *Worker*: `StartBatch` expires lapsed leases and claims; `process_claim` is one
  action per database access or remote call: `LoadClaim`, `CheckSuccess`,
  `SendRequest`, `ReceiveResult` or `ClassifierRaises`, `RecheckSource`,
  `FinishClaim`. Between any two of them anything else may happen.
- *Environment*: `BackoffEnds`, `LeaseLapses`, `Crash`, `Deploy` (settings are
  read at process start, so a change of the flag or of the revision restarts
  every process).

Abstractions. Time is reduced to the two comparisons the code makes (`due`,
`lapsed`). A lease token, a fresh uuid4 in the code, is the number of the claim.
The claims of a batch are processed in any order and any nonempty subset of the ready
rows may be claimed: `order_by` matters for nothing stated here. `revision`
stands for the state builder and the question revision together. The judgment
of any requested model that matches the deployed one counts as the identity's.

What the model shows about the code that its text does not: the token check is
redundant as long as an expired job stays `outcome_unknown`, since then no second
claim of a job exists while an older one is remembered (`SoleClaimant`); attempts
are not reset when a superseded job is revived; `process_claim` does not look at
`lease_until`, so a worker whose lease lapsed may still finish its job until
another worker expires it, and that is harmless.

### MetadataPreparation

`jobs`, `cursor` and `detail` are tables and columns; a detail is reduced to what
the code tells apart: `none`, `textless` (no moderation state, so its hash is
NULL), `partial` (fails `detail_is_complete`), `full`. `hashed` and `enqueued` say
whether the hash is materialized and whether a moderation job for the current
source was enqueued; `author` is a history variable, the attempt whose guarded
write the detail is. `worker` is a batch on its way through
`run_metadata_preparation_batch`, `resolver` the candidates of a request.

`ResolveRead`, `FilterExisting` and `Admit` are `enqueue_metadata_preparation`: only
`Admit` runs under the cursor's lock, where it counts active rows, takes as many
candidates as there are slots in round-robin order from the cursor and advances
it. `ClaimBatch` is the claim transaction; `LoadBatch` splits the batch;
`Reconcile` handles one existing detail under the job's lock; `FetchMissing`,
`Persist`, `FetchRaises` and `Collect` are the orchestrator's fetch with the lease
as persistence guard; `Record` is the fenced update. `OtherWrite` is any detail
write outside the worker, `Switch` the classification flag.

### TrackingRules, TrackingPromises, Tracking

`TrackingRules` translates the rules of `tracking_service` and `progress_policy`: `After` is what a
call makes of an entry, `Accepts` when it is answered with success, `Effects`
what must be acknowledged, `DropsBanner` when the banner is cleared, `Membership`
what the dynamic collections should contain. `TrackingPromises` lets
each accepted call happen in one step. `Tracking` runs the same calls as
PostgreSQL runs them under READ COMMITTED:

- a call takes its locks and reads in `BeginCall`: the user's row (`lock_user`) for
  all calls except the deletion of a rating and the synchronizing views, and the
  rating's row where it is selected FOR UPDATE or deleted;
- the signal of a saved or deleted rating recomputes the item's aggregates with
  one UPDATE. Its subqueries use the snapshot taken when the statement starts
  (`TakeSnapshot`), and it waits for the item's row (`UpdateItem`); PostgreSQL
  re-reads the row it waited for but not the subqueries' rows;
- `sync_dynamic_collections` reads the tracking rows (at `BeginCall` or
  `BeginView`) and later the list items (`ReadRows`);
- `Commit` makes everything visible; a list item that another transaction
  inserted meanwhile makes it a `Conflict`. The foreign keys are deferred, so a
  view that inserts list items waits at its commit for the holder of the user's
  lock.

Abstractions. Reads of rows that only the holder of the user's lock writes are
merged. Writes become visible and their uniqueness is checked at commit. `Fail`
stands for a lost connection, a deadlock that the database breaks, and the
conflicts on `list_order` and on the first creation of a collection. A list item
is deleted by id: a committed deletion also leaves what other open transactions
mean to delete. Ratings are reduced to none, active, archived, and an item's aggregates to the set of
users whose rating they include. Deleting a rating that is already gone again, which only
recomputes the aggregates, is left out.

### SessionRules, WebSession

`req` holds the requests that are out: a request reads the cookies when it leaves
the browser (`Ask`, `Navigate`, `Submit`, `Logout`, `Reload`, `Retry`) and changes them when its
answer is delivered, so answers cross. On the server one action runs from one
await to the next: `SessionArrives` is the start of `resolveSession`,
`ForwardCoreRequest` of `forwardCoreRequest`, `FirstCallDenied` the call that makes them
refresh, `JoinRefresh` the table of refreshes by token that one process keeps,
`CheckRotation` and `Rotate` core's rotating view between its two writes,
`SettleRefresh` and `FailRefresh` what the waiters get, `SecondCallDenied` the repeated
call. `LateRotation` is a rotation whose answer came after the timeout, `Lost` a
connection that broke. `store` is a tab's `auth-store` and `persisted` the user kept in the
browser's storage. Token pairs are numbers in the order of their issue, a revoked
one is blacklisted. `CookieLapses`, `CsrfLapses`, `AccessLapses` and `Deactivate` are time and core's
administrators. Left out is the catalog's visitor cookie; `POST /api/auth/refresh` has no caller in the client.

### ListOrdering, HomepageFlight, SourceData, MCServices

`ListOrdering` has `rows`, the places of one list's rows, and `req`, the requests that change
them. A request reads before its transaction (`AskAdd`, `AskUpdate`, `AskOrder`, `AskMove`, `MayMove`) and
writes in one step (`Insert`, `Update`, `Arrange`, `Move`; `Remove` reads nothing first). `Update` is
a `save()` without `update_fields`: it writes the number that was read, whatever the row has got since,
and inserts the row under its id when it is gone. The step's guard is the unique
constraint: a place taken meanwhile makes the transaction fail, and so may anything
else (`Fail`). `Aside` is the detour of a moved row: its negative number makes `save()` put it
behind the last one, not at the negative number that `move` sets. Two transactions
that meet are taken to be serial or to fail; in PostgreSQL a shift that waited for another may
also skip a row that the other brought into its range, which the constraint refuses unless a gap
is next to it, and which swaps no rows.

`HomepageFlight` is one cache key. `Join` and `Lead` are the two branches under the
mutex of `singleflight`; the goroutine of a flight goes through `Compute`, `StoreFresh`, `StoreStale`,
`Close` and `Forget`; `Wake` and `GiveUp` are the branches of the select. A
background refresh is the request that got the stale copy, which goes on. An aggregate is a number and
whether its buckets came, which they cannot do once the leader's context is over.

`SourceData` is one process. Requests and workers of the pool run the same
`fetch_bulk_source_data`: `Classify`, `Note` and `Submit` (`_schedule_stale_refresh` inside and after its
lock), `CallProxy`, `Persist` row by row, `End` on success or an exception; `Take` and `Release` are
the worker's frame. `Restart` empties the pool and the ids in flight. A row missing and one incomplete
are treated alike and are one state.

In `MCServices` a behaviour plays one of these or the session, as in `MCPages`.

### QueryCache and the pages over it

`hist` is the sequence of versions that core's state has had, `cache` maps a key to its data,
whether it is fresh, the version at which the read under way was asked, and whether
the last read failed. A read is answered with any version since it was
asked (`Deliver`) or lost (`LoseRead`). `Fetched`, `Invalidate`, `Patch` and the like stand for
the library's calls that the pages make; they are marked external. A mutation is a
record in `jobs` or `tasks`: submitted with its patch and its snapshot, `CarryOut`, `Refuse`
or `LoseAnswer` at core, then settled (`ToggleDone`, `TrackingFailed`, `SettleEdit`, ...), where the rollback and
the invalidation of the source are made. An effect of the code (`Seed`, `Clamp`,
`ResetPersonal`, `Render`) runs before anything else may happen, as React runs it.

- `ListPage` is `useListDetailController` with its hooks, its toolbar, its views and dialogs. Who may
  edit, reorder, rate and delete is the code's, for a shared and a personal list.
- `ContentPage` puts the content page and the rows of a list over the same titles: both
  mutate through the same hooks. Core decides by `TrackingRules`, the module of the
  tracking service.
- `AddToList` is the dialog's two phases with `useListOperations`, where each call awaits and then
  refreshes.
- `ProfilePage` has the loader, the search of the address (`Parse` translates `parseProfileSearch`),
  the banner's effect, and the two preferences of the settings.
- `Discovery` has the navigation under way (the root route asks for session and settings
  again), the debounced input, and the keys of what is kept. `Catalog` is the server's resolution.

`hopped`, `loose` and `blind` record that a behaviour went through a state for which the code promises
nothing: a read that no invalidation restarts is under way beside a mutation, two writings of
one preference overlap, the answer of a call that nothing refreshes after was lost. From
there on the properties about quiet pages are silent. `Loose` says which states these are on the
content page. A profile has two kinds, and `loose` is the set of those that occurred: `Overlapping`
silences what is said of the copies in the session store and the settings, and `Unwatched` what
is said of the overview: it was being read out of view while an edit was saved, and the invalidation
that settles an edit restarts reads for the screen only (`usePublicProfileMutation.ts:96-100`).

### Forms, HoverCard, Artwork, Platforms, ListQuery, ListLayout

`Forms` follows one form of one kind: what brings its copy up to date differs (an effect on
`isOpen` and the record, a key that remounts it, nothing). `HoverCard` is `useCardHover`: pointer, focus,
layout, the opening and the closing timer, the position. `Artwork` runs
`useModerationArtworkReveal` for the surfaces of a page, which React keeps from one title to the next.
`Platforms` translates the merging of offers; two providers of one name are merged even when
their ids differ, and `findExistingProviderKey`'s branch for ambiguous names and `createProviderKey`'s suffix are never
reached. `ListLayout` translates exported functions of `utils.ts` that the page no longer calls, since Core sorts
and pages; the paging among them is there for completeness, and `BuildGroupedItems` in `ListQuery` is the
grouping it does use.

### MCPages

A behaviour of `PagesSpec` plays one scene: a page, a sample of platforms, or a sample given to the
list's functions. The pages share no variable, so one run checks all of them and its state
space is the sum of theirs. The constants of each scene are constants of `MCPages` with its letter in
front (`CItems`, `PContents`, ...), so that its proofs hold for all of their values; `Pages.cfg`
gives them those of the run. Where an `INSTANCE` names a value itself, nothing is proved of that scene.

## The runs

A violation run checks one statement of the repository's documentation that the
code does not meet; see below. All numbers are distinct states after symmetry.

| Run | Instance | Checks | States |
|---|---|---|---|
| `outbox_race` | one item, two texts and none, two workers, two attempts, three writes, a crash | `TypeOK`, `SoleClaimant`, `FencedOutIsUnknown`, `DoneIsJudged`, `LostIsNeverResent`, `SettledIsFinal`, `ImplementsLifecycle` | 569,189 |
| `outbox_live` | one worker, two revisions, two attempts, a write, a redeployment, fairness | `LeaseIsReleased`, `WaitingEnds` | 112,000 |
| `outbox_heals` | one worker, three writes | `HomepageHeals`: violated | |
| `prep_race` | one item, two workers, three attempts, two other writes, a crash, a switch | `TypeOK`, `AttemptsBounded`, `OneFence`, `DoneHasDetail`, `StaleIsNeverPersisted`, `DoneIsEnqueued`, `SettledIsFinal` | 62,718 |
| `prep_live` | two items, two concurrent requests, a cap of one, two attempts, a crash, fairness | `PendingBounded`, `PreparationEnds`, `AdmittedEventually` | 139,007 |
| `track_race` | one user, two albums, favorite limit one, two open requests, four calls, a failure | `TypeOK`, `QuotaHeld`, `RatingFollowsStatus`, `BannerIsFavorite`, `AggregatesMatch`, `LossIsAcknowledged`, `ImplementsPromises` | 671,862 |
| `track_heal` | a movie and an album, three calls, a failure, fairness | `CollectionsHeal` | 531,833 |
| `track_counts` | two users, one item | `AggregatesMatch`: violated | |
| `services` | session: one tab, two server processes, two requests out, two token pairs, two acts; list: four ids, up to three rows, three requests; homepage: three requests; source data: two rows, two requests, a worker | `ServicesTypeOK`, `CookiesAreKept`, `SharedWorkIsSingle`, `IdentityIsKept`, `OrderIsMeant` | 1,452,108 |
| `session_retry` | one tab, one request at a time, fairness | `RetryLeadsSomewhere`: violated | |
| `pages` | the scenes of `MCPages`, two to four acts and losses each | `PagesTypeOK`, `ListIsTrue`, `ArrangementsAreWhole`, `WritesAreSeen`, `DialogsShowRecords`, `ProfileIsTrue`, `NothingUnasked`, `DiscoveryIsTrue` | 314,814 |
| `content_families` | two titles, three acts | `RowsAreTrue`: violated | |

What the properties say, beyond their names, stands above each in its module.

*Why the bounds are enough to be interesting.* Job identities do not interact
except through the item they share, so one item with two hashes (`outbox_race`) has every
supersession, revival and race of one row; the second item's part is a batch of
several claims, which `outbox_live` gets from two revisions of one item. Two
workers suffice for every pairwise race, three writes for a source that changes
and returns while a lease is out, and a crash for a lost answer. Two attempts make
the last attempt and one before it differ. In `prep_race` three attempts let a
lease be reclaimed twice; in `prep_live` a cap of one and two candidates make
the queue full and both requests admit at once; details from before hashes were
materialized (`Legacy`) are left to `prep_race`. In `track_race` two albums and a
limit of one make two requests compete for the last favorite slot, and four calls
are enough to complete, rate, favorite and take one of them away; albums have
the fewest statuses, and `track_heal` adds a movie. In `outbox_live` the redeployment, which
kills every process and changes the revision, also plays the crash.

Two server processes are the least at which refreshes of one token are not
coalesced; two requests out, of any of seven kinds, cross, and two pairs make one rotation.
Three requests on a list are an addition or an update that was overtaken by a removal and a sort; first
lists have up to three rows at places up to three, or at 1, 2 and 4, so gaps at the front, inside and
before the end occur. Three requests on the homepage make a leader that gives up, one that waits for it
and one that comes after. Two requests for source data note the same row around the
release by a worker; the code's second worker only runs tasks of other rows.
The writers of a list, the visitors of the homepage and the titles of source data are the model
values of requests and processes, so that one symmetry set serves every scene.
In `pages` a loss is a read or an answer that
fails, an act something the user does that calls core, navigates or submits; local clicks are free.
The constraint `Events` bounds acts and losses together: two on the list page, one on a personal
list, three on the content page, in the add-to-list dialog and on a profile (changes from outside
counted too), so that two overlapping mutations and one read or answer lost among them reach every
rollback. The list has two rows and pages of one or two, so that
the last page disappears (`ListIsTrue` also held without losses at three acts, one behaviour of the
page at a time: four complete searches that take too long for a run); rows, samples of three rows out of four, and anchors
of the hover card are chosen for every tie, empty group and edge of the window to occur. The content scene
offers the status `completed` only beside untracking, since the others differ from it in
core's rules, which `track_race` checks. Deadlock is not checked
because every behaviour may end: budgets run out and nobody owes the system a
call.

*Fairness* (only in the runs that say so). `outbox_live`, `outbox_heals`: a worker process
keeps polling and goes on with its claim, the classifier's call returns or raises because the
client has a timeout, clocks advance (WF of each); the homepage keeps resolving
each item, which a stale snapshot may interrupt, hence SF of `ResolveRead`. `prep_live`: the
same for the preparation worker; requests for the whole catalog recur.
`track_heal`: a transaction that has begun goes on (WF), and users open their
collections again and again (SF of `BeginView`, as both requests may be busy);
nobody has to call the service. `session_retry`: the server goes on with a request, answers
are delivered, the page's own reaction runs (WF), and nobody has to click. Writers, operators,
crashes, failures, redeployments and switches are never fair: liveness is conditional on
`enabled` where the flag matters.

## The proofs

All theorems are about the specifications that the runs check, for arbitrary
constants that meet the modules' ASSUMEs (nonnegative bounds, positive limits,
null values outside their sets, finite sets of items and of visitors of the homepage, at
least one tab; the threads of the refresh pool are not those that serve requests; titles as the proxy
gives them; the states a content page offers are those of core's rules).

**`ModerationOutboxProofs`**

| Theorem | Property |
|---|---|
| `TypeCorrect` | `TypeOK` |
| `OneHolder` | `SoleClaimant` |
| `FenceLostIsUnknown` | `FencedOutIsUnknown` |
| `SettledForGood` | `SettledIsFinal` |
| `NoResendAfterCrash` | `LostIsNeverResent` |
| `DoneHasJudgment` | `DoneIsJudged` |
| `LifecycleImplemented` | `ImplementsLifecycle`: a refinement |

The invariant is `SoleClaimant /\ FencedOutIsUnknown /\ HandIsNotPending`. Neither
of the first two is inductive alone: a row that may be leased is waiting, so by
`FencedOutIsUnknown` no worker remembers a claim of it and leasing it keeps
`SoleClaimant`; a worker that finishes its job fences out nobody else because by
`SoleClaimant` there is nobody else. `HandIsNotPending` keeps the claim in hand
out of the backlog. `NoResendAfterCrash` adds that the job of a lost request is
leased or unknown and remembered by no worker. `JudgedInv` adds that the answer a worker holds,
or is about to record as `done`, stands for a persisted judgment. `LifecycleImplemented` takes both:
`RowSteps` says how the row of one identity may move in any step, and with one holder per job
the calls of the classifier map to those of the abstract life cycle.

**`MetadataPreparationProofs`**

| Theorem | Property |
|---|---|
| `TypeCorrect` | `TypeOK` |
| `AttemptsAreBounded` | `AttemptsBounded` |
| `FenceIsExclusive` | `OneFence` |
| `SettledForGood` | `SettledIsFinal` |
| `NoStaleDetail` | `StaleIsNeverPersisted` |
| `DoneImpliesDetail` | `DoneHasDetail` |
| `DoneLeavesEnqueued` | `DoneIsEnqueued` |
| `CapIsKept` | `PendingBounded` |

Here a lapsed lease is claimed again, so two workers may remember one job. The
invariant `Fences` says that a waiting row has an attempt left, that the token of a
leased row is the number of its attempt, that no remembered claim and no written
detail is newer than the row (`ClaimsKnown`, `AuthorsKnown`), and that claims of one job
by two workers have different tokens (`ClaimsDistinct`). `Detailed` adds that the
items a batch means to finish as done have a detail; no write takes one away. For
`DoneIsEnqueued` it is that they are classifiable (`AllClassifiable`), which lasts while
classification stays on. `PendingBounded` is inductive: the admitted candidates are those with
fewer than `Slots` others before them in the round-robin order, so there are at most as many
(`ChosenFit`), whoever admitted in between.

**`TrackingProofs`**

| Theorem | Property |
|---|---|
| `TypeCorrect` | `TypeOK` |
| `LocksHeld` | the inductive invariant `Locks` |
| `CallsAreAtomic` | `ImplementsPromises` |
| `RatingsFollow` | `RatingFollowsStatus` |
| `BannersAreFavorites` | `BannerIsFavorite` |
| `LossesAcknowledged` | `LossIsAcknowledged` |
| `QuotaIsHeld` | `QuotaHeld` |
| `AggregatesMatchForOne` | `AggregatesMatch`, when there is one user |
| `OwnRatingsCounted` | what remains of it for any number of users: a commit counts the rating it saves |

`Locks` says that open requests that want the same lock exclude each other, that
what each has read still equals what is committed as far as its locks reach
(`Current`: a holder of the user's lock may only find a rating gone), and that the
committed entries still accept each open call (`Accepts`, including the room for a
favorite). From it, the columns that a commit writes make of the committed entry
what the call makes of it in one step (`WritesAreAfter`): a refinement. The other
properties are then proved of atomic steps only (`StepIsAtomic`), with the
invariant `Kept` that favorites are completed, ratings follow the status and the
banner follows the favorite. `Seen` says that the snapshot of a request counts its own rating
as its call leaves it; what it misses of other users is the finding of `track_counts`.

**`ListOrderingProofs`** (any ids, any number of requests, any first lists)

| Theorem | What it says |
|---|---|
| `Invariance` | the inductive invariant `Inv` |
| `PlacesAreDistinct` | the rows are a list: positive numbers, each for one row (part of `TypeOK`) |
| `OrderChangesAreExplained` | `AnswersAreMeant`, which the run `services` checks as `OrderIsMeant`: only a request that ends changes the order, as it was asked to, or as an update that puts its own row back to where it read it |

`Inv` adds to the list what an open request must still rely on: that the list it read
is one (`Sound`), and that the id of a row about to be inserted is nobody else's (`Fresh`): neither that of a row or of
another new one, nor that of a removed row which an open update may insert again.
Most of the work is in lemmas about numbers: `Max('list_order')` bounds every place of a finite
list (`LastIsLast`, by the well-foundedness of strict subsets), and the two shifts of a
move keep the order weakly, fill 1..n again and leave the right rows before the one that moves
(`SlidKeepsOrder`, `SlidFillsGaps`, `SlidPasses`);
that the order is kept strictly is owed to the unique index, the guard `Distinct`.

**`ServicesProofs`** (any tabs, processes, requests, token pairs, bounds)

| Theorem | Property |
|---|---|
| `ServicesInvariance` | the inductive invariant `ServicesInv`, one part for each scene |
| `ServicesTypes` | `ServicesTypeOK` |
| `CookiesKept` | `CookiesAreKept` |
| `IdentityKept` | `IdentityIsKept` |
| `HomepageShares` | `TypeOK`, `FlightIsSingle` and `StoresAreNewer` of `HomepageFlight` (any finite set of visitors) |
| `RefreshesAreSingle` | `TypeOK` and `RefreshIsSingle` of `SourceData` (any rows, requests and workers) |
| `SharedWorkSingle` | `SharedWorkIsSingle` |
| `OrderMeant` | `OrderIsMeant` |

The session's part is `SessionInv`. `Sound` says what the fields of a request promise of core: one
that repeats its call (`profile2`, `call2`) came with a refresh token that is blacklisted by now;
one that is to clear the cookies, or is told `expired` or `denied`, came with a token that is missing
or blacklisted, or the account is not active; one that carries an access token carries a refresh token,
because the access cookie is never left alone (`BrowserOK`). `RefreshesOK` says the same of the table
of refreshes: an entry is `rotated` or `refused` for good. Blacklisting and deactivation are never
undone, so all of it survives every other step (`SoundStays`). From there a store loses its user only
to an answer that `Sound` explains (`StorePut`, `BootstrapType`). Of the homepage the invariant says
that nobody who still looks for a copy has a computation, and that the number of the computation that
works is the count of those started (`Newest`): so what it stores is not older than what is there. For
source data a count of holders is not inductive as it stands; `Held` says which holder an id has: the
thread that noted it, one task of the queue or the worker that took it, and none of the other two. The
list's part is that of `ListOrderingProofs`.

**`ContentPageProofs`** (any items, types, reviewers, ratings, states offered and bounds)

| Theorem | What it says |
|---|---|
| `ContentInvariance` | the inductive invariant `ContentInv` |
| `ContentTypes` | `TypeOK` of `ContentPage` |
| `ContentSeesOwn` | `ViewerSeesOwn`, the content page's half of `WritesAreSeen` |

A failed change puts back a snapshot of every cached detail, so while one is under way nothing is
known of the details, and it is not an invariant that they are right for the items nobody
changes: a rollback may bring back what another change had removed. What holds is that this ends.
While no change is under way and the state has never been `Loose`, every entry but a list's rows is
`Healthy`: fresh entries are what Core's last version answers, and a read that is out was asked of
that version. A change that settles invalidates all it may have put wrong and asks again what is
shown (`InvalidateTrackingResources`, `InvalidateRatingResources`). One entry comes to the cache without a
read: an item's own rating starts fresh with what the detail says (`Render`), even with a detail put back
by a rollback. `NewAreUnrated` makes that right: an item without an entry of its own was never
rated, in any version, snapshot or detail. The rows
of a list are left out, as the property leaves them out: `content_families` shows what they may be.

**`ProfilePageProofs`** (any contents and bounds)

| Theorem | What it says |
|---|---|
| `ProfileInvariance` | the inductive invariant `ProfileInv` |
| `ProfileSeesOwn` | `BannerIsFavorite`, `RowsMatchSearch` and `OwnerSeesOwn` of `ProfilePage` |

`ProfileInv` has four parts. `ProfileTyped` is what the variables hold, with the fact that an entry that
nothing is asked for has data or failed. `ProfileDisplay` is what the screen may take for granted: the
overview is there, the loader's rows are those of its search, the banner follows the overview.
`Watched`: while no edit is under way, all versions since a read of the overview was asked have
Core's biography, and so has a fresh overview, whose banner is that of such a version. `Copies` says how
the session store and the settings may differ from Core while a change is under way, and that what the
change took along to put back is what Core keeps when it is refused.

The attempt to prove `Watched` without `Unwatched` failed for a reason, which TLC then showed as
a behaviour: an overview that is read out of view while an edit settles comes back as fresh and may be from
before the edit. `OwnerSeesOwn` says of the overview what holds whatever is lost or overlaps, and excludes
this alone.

**`PagesProofs`** (any measures of the browser, artwork, titles, answers of Core, texts, seasons, lists
and bounds; items, contents and reviewers as above)

| Theorem | Property |
|---|---|
| `PagesInvariance` | the inductive invariant `PagesInv`, one part for each page below |
| `DialogsShow` | `DialogsShowRecords` |
| `NothingIsUnasked` | `NothingUnasked` |
| `DiscoveryTrue` | `DiscoveryIsTrue` |
| `WritesSeen` | `WritesAreSeen` |
| `ProfileTrue` | `ProfileIsTrue` |

`FormsInv` says what an untouched dialog shows while it is not submitting, and that only the profile's
dialog can be left during a submission and has no error of its own: without it an answer that comes
after the dialog was left could put its error on the next one. `ArtworkInv` makes the reveal a function
of page, viewer and what was asked, which is nothing where no blur is required. `CardInv` says that an
opening is pending only while the pointer is on the card, that a popover without a reason is `stray`,
and that a dismissed one stays suppressed until the pointer leaves. `DiscoveryInv` says that an entry of
the cache holds answers to its own key, that what the page in view is to show has been asked for, and
that on the search page the settled query is that of the latest navigation; the cards of an answer
are right for the version of Core it was made from (`AnswersAreRight`) and no version is forgotten. It rests
on `DiscoveryAssumption`: the proxy's titles carry no id of Core's, and there are no people on the
homepage, whose five buckets are the content families, or in a family that is browsed.
`AddInv` says that a call that changed a list, or may have, is owed a refresh until it settles
(`Owed`), and that when none is, the read that the boxes show or wait for is no older than the last
answered call (`UpToDate`); a settling that is not `blind` restores this (`AddInvalidates`,
`AddRefetches`). The key of that read changes when the seasons arrive: `KeysKnown` says that until
then nothing but the card's own item has been asked for, so the new key is read afresh.

The content and the profile page bring the invariants of their own modules.

Model-checked only: all liveness (fairness and ENABLED are out of the prover's reach) and three
invariants of the pages, because of what functions over sequences compute for every input, which takes an
induction the prover cannot make. `ListIsTrue` compares rows that were filtered, sorted and cut into
pages (`SelectSeq`, `SortSeq`), and its completion rate counts them; `PagesTypeOK` says that the order of
a list stays one of its rows, and applying a sort goes through the same functions;
`ArrangementsAreWhole` is about folds. Of the other pages' types the proofs establish what they need
(`ContentTypes` and the typing parts of the invariants).
`AggregatesMatch` is false for several users (`track_counts`), which is why its theorem assumes one.

## Where the code and its documentation part

- **A homepage that does not heal** (`outbox_heals`). A job whose source changed
  while it was leased is finished `superseded`. If the source returns before that
  write, the enqueue leaves the leased row alone, the write supersedes the job of
  what is again the current source, and the resolver never revives an existing
  row. The runbook promises healing without operator action for all but `failed`
  and `outcome_unknown` jobs (`jev-moderation-workers.md:85-90`).
- **Aggregates that lose a rating** (`track_counts`). Two users rate one item at the
  same time: the second UPDATE waits for the item's row but its subqueries keep
  the snapshot from before the first commit. The docstring calls it thread-safe
  (`rating_signals.py:14-20`). With one user the locks order the updates and
  `AggregatesMatch` holds (`track_race`).
- **A retry that leads nowhere** (`session_retry`). When the session check fails, Retry sets the
  store to pending; if the next check answers the same for no user, the effect of
  `AuthSessionBootstrap` does not run again and the page stays empty, with neither spinner nor retry
  (`auth-session-bootstrap.md:22-24` promises a recoverable state).
- **Rows older than a rating** (`content_families`). A rating completes the title in core, but its
  mutation does not invalidate list rows, lists and collections, as a change of status does
  (`useRatingMutations.ts:76`, against `data-fetching.md:82`). Back on the list, the rows
  show the old status as fresh.

Met while modelling and stated by a definition that no run keeps:

- *A timed-out request is sent again* (`TimeoutIsNeverResent` in `ModerationOutbox`). The re-check of the
  source comes before the outcome, so a request that timed out while its source changed
  is `superseded`, not `outcome_unknown` as `current-state.md:278` says, and is sent again when
  the source returns.
- *Collections disagree with tracking for a while* (`CollectionsMatch` in `Tracking`). A view that read the
  tracking before a call committed and the list items afterwards deletes what the call
  inserted. The next synchronization repairs it (`track_heal`).
- *A logout of all sessions that revokes none* (`LogoutAllIsComplete` in `WebSession`). With a lapsed access
  cookie the BFF never calls core and still answers "Signed out from all sessions."
  (`auth-routes.ts:142`).
- *A tab that outlives its CSRF token*. The cookie has a maximum age that nothing renews, the tab keeps the
  token it once got (`lib/auth/client.ts:35`): after seven days every write of that tab is refused until it
  is loaded again (`CsrfLapses`, then `CsrfFailure`).
- *The input and the address part* (`AddressIsTruth` in `Discovery`). A sort link clicked
  while a typed query's navigation is under way supersedes it; the input keeps the new text,
  the page the old one (`BrowseToolbar.tsx:29-43`, `useDebouncedSearch.ts:45`).
- *The temporary sort is saved as the order* (`SavedOrderIsChosen` in `ListPage`). Saving the reorder mode
  without moving anything stores the order the mode was entered with, which under a sort
  of the page is not the canonical one.
- *An update that undoes a reorder* (`UpdateKeepsOrder` in `ListOrdering`). `PATCH` of an item promises to "Update
  specific fields of a list item" (`views/list_item.py:176`), and ends in a `save()` of the whole row
  (`views/list_item.py:393`, `models/list_item.py:105`): the number read before a reorder, a move or a
  removal by another request is written back, or the removed row is inserted again. The unique index refuses only
  a number that is taken. `UpdateMeant`, a part of `OrderIsMeant`, says how far it goes.
- *A stale refusal that deletes newer cookies* (`HonouredCookiesStay` in `WebSession`). A request that left with a
  refresh token another response has since replaced is refused, and its answer clears the cookies
  the browser has by then (`auth-cookies.ts:126`). `ClearedOnlyWhenRefused` and `IdentityStep` look at the
  token of the request and allow it.
- *A refused edit over a newer one* (`Overlapping` in `ProfilePage`, which `OwnerSeesOwn` excludes). The user put back in the
  session store (`usePublicProfileMutation.ts:65`) is that of the time the edit began; what an edit that
  overlapped it has stored there is lost until the next load. The overview is read again.
- *A move that misses its place* (`MoveMeant` in `ListOrdering` speaks of a rank in lists without gaps only, and
  else of the numbers it comes between). `move` takes its
  "1-based position" (`views/list_item.py:565`) for a `list_order`; removals leave gaps, so after
  one the row may land before the place asked for, and the number of the last row may be above
  every position that is accepted. `reorder` takes an id named twice (`list_item.py:536` compares sets), which leaves a gap.
  `bulk_update` and the shifts change row by row under a constraint that is not deferrable: a
  shift of several rows may fail by the order the database visits them.
- *A homepage without buckets that is kept* (`StoresAreNewer` in `HomepageFlight` speaks of age only). If the client of the
  leading request leaves, its context ends, all buckets fail, and the empty aggregate goes to every
  waiter and into both copies (`handler.go:205-207`, `:222-245`).
- *A stale row without its mark*. When the proxy answers but `_persist` fails, the old row is rebuilt and
  returned without `is_stale` (`source_data_orchestrator.py:191`, `:305-310`), which the docstring at `:239-240` promises.
- *A read that outlives an edit* (`Unwatched` in `ProfilePage`, which `OwnerSeesOwn` excludes). Leaving the profile
  while an edit is being saved and an overview is being read, and coming back within a minute, the owner
  may see the profile from before the edit: the read goes on out of view, the settling edit does not
  restart it, and its answer counts as fresh (`usePublicProfileMutation.ts:96`, `usePublicProfileQueries.ts:20`).
- *A popover outside the window* (`PopoverFits` in `HoverCard`). It is first placed with the card's height
  (`useCardHover.ts:133`) and again in a frame that a later change may precede.

## What is not modelled

- *List membership and invitations*: the endpoints read and write without locks, and what
  a reader would ask of them (an invitation that was cancelled or a member that was removed
  stays so when an acceptance crosses it) is neither kept by the code nor promised by a
  document, so there is a decision to take before a specification can be written; see the plan.
- *The provider client*: planned, see below.
- *The refresh policy by age*, *payloads* and `FORCE_PROXY_FETCH` of source data: a row becomes
  stale at any time. *The fan-outs* behind a homepage computation.
- *In the web client*: the seasons and episodes of a show's page, invitations and
  member administration of a list, the random pick and the panels of a profile, the
  sidebar; in `Discovery` the check of a path, countries, the families but one, the
  personal lists of the home page and redirects of the route. The route tree, the
  navigation bar's menus, static pages, types and styling have no state to check.
- *Visibility preferences of collections, dates, comments, scores, the order of
  list items* in tracking: no modelled operation's effect on the rest depends on
  them.
- *Enqueueing and detail writes* are atomic because the code runs them in one
  transaction under the item's row lock.
- *The multi-search aggregate* is a stateless fan-out behind a one-minute cache.
- *Moderation text, policy and evaluation*, *provider mappers*: pure functions of
  long texts; the models abstract them to a hash, a verdict, a kind of detail.
- *REST views and serializers*: parsing and single-row writes without a protocol of their own.

## Plan

Done: the outbox, preparation and tracking, since they carry the concurrent writes
of the core service; the session and the pages of the web client, where most
of the code is; list ordering, the homepage flight and the reads of source data. Next, most important first:

1. `ListMembership`: invitations and role changes without locks, under an
   abstract specification of who may do what, once it is decided what an
   acceptance that crosses a cancellation or a removal should do.
2. The pipeline: `SourceData` composed with `MetadataPreparation`'s guarded
   writes, and preparation with the outbox, where `enqueued` of the
   one is the enqueue of the other.
3. `ProviderClient`: the breaker, the token and the counter.
4. Liveness of the homepage and of background refreshes: every request answered, every id
   released.

The runs stay a dozen: a module of the core or the proxy that is added takes the place of
a violation run.

Theorems to add: what of `ListIsTrue` does not depend on how rows are sorted and counted (that the
pages, the statistics and the list are from versions no older than the last change settled), which needs
a statement about versions where the run compares contents; the same for the type of the list's order.
