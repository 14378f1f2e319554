# Planipus in TLA+

Planipus copies events between calendars under policies, places recurring
meetings into free time and answers invitations that conflict. Its server is a
set of replicated processes (API, scheduler, workers) around one PostgreSQL
database and one calendar provider (Google). Almost everything that can go
wrong lies between them: a worker outlives its lease, a provider applies a
write whose answer is lost, a person edits a copy by hand, a policy is paused
while a write is on its way, two requests each check before the other commits.
This project models that part, checks it with TLC, and proves the safety of the
job queue, managed copies, calendar ingest, planning, the calendar protection
locks and the conflict responses with TLAPS.

Paths below are relative to `src/`; `sync/…`, `jobs/…`, `planning/…` are under
`server/src/`.

## 1. Inventory

| Part | State | Operations | What is hard |
|---|---|---|---|
| Job queue (`jobs/queue.ts`, `jobs/leased-job.ts`, `commands/worker.ts`) | `scheduled_jobs`: key, state, lease owner and expiry, attempts, run_after | enqueue, enqueueOnce, lease with reaping, renew, complete, fail | lost leases, two workers on one job, crashes, retention |
| Scheduler (`scheduler.ts`) | none of its own; windows in the keys of its jobs | queue syncs, reconciles, verifications; retention sweep | several replicas, windows, rows deleted under others |
| Calendar ingest (`sync/coordinator.ts`, `sync/query.ts`) | `sync_cursors`, `source_observations` | full and incremental listings, pages, expired tokens, horizon refresh, upgrades | crashes between pages, absence inferred from silence, overlapping passes |
| Reconciler (`sync/reconciliation.ts`, `packages/calendar-sync`) | `projections`, `outbox_effects` | evaluate the source against the policy, record the intent, queue an effect | inputs read before the commit, held edits, blocked effects |
| Outbox executor (`sync/effects.ts`) | `outbox_effects` with leases | lease, look up, create, update, delete, defer, fail, supersede | unanswered writes, pause in between, stale intents, generations |
| Verifier (`sync/verification.ts`) | `projections` | load, read the provider, settle: repair, hold, clear | the row moves on between read and verdict |
| Notices (`sync/notices.ts`) | `notices` | acknowledge, keep and detach, restore | a decision about a copy that changed |
| Policies (`policy/…`) | `policies`, previews | preview, activate, pause, resume, retry, remove | pause must be a boundary for writes |
| Google connection (`providers/google/oauth.ts`) | `provider_connections` | connect, refresh, revoke, change roles, purge | content must not come back after a purge |
| Planning (`planning/…`) | `planning_rules`, `planned_events`, `planning_suggestions` | preview, activate, reconcile, apply, suggest, accept, pause, remove | plan, suggestion and event change in any order |
| Conflict responses (`conflict-response/…`) | previews, rules, `invitation_response_actions`, audit facts that are the budget (20 declines per rolling 24 hours) | preview, activate, reconcile, recheck, decline, pause, resume, remove | a decision that is stale when sent, an unanswered PATCH, a budget shared by passes and workers |
| Calendar protection (`calendar-protection-lock.ts`, `providers/calendar-identity.ts`) | advisory locks on endpoints and provider calendars | taken in sorted order by every activation, resumption, retirement and role change | records in different tables that no constraint relates, delegated names of one calendar |
| Hours, transform, evaluation (`packages/…`) | none (pure) | expand hours, redact, compare | time zones and boundaries |
| macOS app (`macos/Sources`) | its own store | a second sync coordinator | restarts, two writers of one calendar |
| HTTP API, sessions, MCP server, web client, deployment | rows looked up by hash; presentation | routing, validation | nothing that interleaves on its own |

How they interact: the scheduler and the API put jobs into the queue; workers
lease them and run ingest, reconcile, verify and planning handlers; ingest
writes observations and queues reconcile jobs; the reconciler turns
observations into projections and effects; the executor turns effects into
provider calls; the verifier feeds direct changes of the copies back. Everything
is shared through row locks: the executor, the planning worker and the apply job
of a conflict response keep their rows locked across provider calls, the
reconcilers, the verifier and ingest do not. Which features may use a calendar
together is decided under advisory locks.

What makes each part correct is stated in its module; `PROJECT.json` lists the
hazards at their lines with the properties that cover them.

## 2. Modules

| Module | Models | Composition |
|---|---|---|
| `JobContract` | what the queue promises: a row is opened, settled once, forgotten; one open row per key | abstract specification |
| `JobQueue` | rows, leases, heartbeats, crashes, retries, the sweep | implements `JobContract` by `Phase` (a row without its lease) |
| `JobQueueProofs` | theorems about `JobQueue` | extends `JobQueue`, `TLAPS` |
| `CopySync` | reconciler, executor, verifier, notices, pause and retry around one managed copy | composes the components that share a projection |
| `CopySyncProofs` | theorems about it: shape, pause, holds, content, markers, detachment | extends `CopySync`, `TLAPS`, induction theorems |
| `CopyConvergenceProofs` | theorems about it that involve the calendar: no copy left behind, nobody else's event touched, "converged" true | extends `CopySyncProofs` |
| `CalendarIngest` | one source calendar, its cursor, listings and the purge | feeds the observations that `CopySync` calls `source` |
| `CalendarIngestProofs` | theorems about it | extends `CalendarIngest`, `TLAPS`, `FiniteSetTheorems` |
| `Planning` | one smart-meeting rule | its jobs are rows of `JobQueue` |
| `PlanningProofs` | theorems about it | extends `Planning`, `TLAPS`, `FiniteSetTheorems`, induction theorems |
| `CalendarProtection` | activation, resumption and retirement of bridges, private-reply rules and planning rules, and role changes of accounts, under advisory locks | the activations of `CopySync`, `Planning` and `ConflictResponse` together |
| `CalendarProtectionProofs` | theorems about it | extends `CalendarProtection`, `TLAPS` |
| `ConflictResponse` | reconcile passes, the budget, apply jobs and their provider calls, the life of a rule | its jobs are rows of `JobQueue`; one live rule per calendar is what `CalendarProtection` shows |
| `ConflictResponseProofs` | theorems about it | extends `ConflictResponse`, `TLAPS`, `FiniteSetTheorems` |
| `MCJobQueue`, `MCCopySync`, `MCCalendarIngest`, `MCPlanning`, `MCCalendarProtection`, `MCConflictResponse` | small instances | one per component |

### JobQueue

`row[j]` is a `scheduled_jobs` row. Time is two facts per row: whether the lease
has run out (`expires`) and whether `run_after` has come (`after`). An owner is
one incarnation of a worker, because the owner string carries a random token.
`Lease` includes the reaping that `lease()` does in the same transaction;
`Dispatch…`, `Confirm` and `Record` are the runner of `leased-job.ts` with its
heartbeat's verdict in `beat`. `Enqueue` is the insert under the partial unique
index, `EnqueueOnce` the scheduler's variant that also looks at finished rows
of its window, `Cleanup` the retention sweep. Not modelled: payloads, kinds and
the order in which leasable rows are taken.

### CopySync

One source occurrence, its projection, up to `MaxQueue` unfinished effects and
the destination events by generation. A transaction is one step, except the
executor's: it takes its locks, and each provider call is a step of its own
(`Begin`, `Lookup`, `Write`), between which only those may act whose rows are not
locked. `Read`/`Commit` are the reconcile pass before and inside its
transaction, `Load`/`Look`/`Settle` the verifier. What version *v* of the source
becomes after selection and privacy is the constant `Copy[v]`, so the content is
a model value; whether two versions look the same on the destination is what
matters, and the runs choose it. The evaluator's selection `invalid`, for input that
fails its validation, is not represented. Faults are named for their effect: `refused`
(a passing error), `rejected` (a final one), `auth`, `lost` (unanswered, not
done), `applied` (unanswered, done), `died` (the worker, with or without the
write), `stall` (a lease that runs out under a live worker).

### CalendarIngest

The provider numbers changes; a sync token is such a number. `Open`, `Start`,
`Fetch`, `Persist` (once per page) and `Finish` are the stretches of
`syncCalendar` between transactions and calls; `Gone` is the reset after
`410`, `Purge` the removal of event content when the account gives up reading,
`Upgrade` a release that changes the query fingerprint and so starts a new
cursor. Events may be live, cancelled, or outside the listing's horizon, where
only a full scan that no longer lists them can tell.

### Planning

Time is counted in slots and windows follow each other. `Read`/`Commit(in)` are a
reconcile pass; several may overlap (scheduled, manual, resumed). `Updated` is
`updateOccurrence` with its early returns, `Left` the rows that fell out of the
horizon, `Accept`/`Drop` the decisions about suggestions. `apply()` is `LookUp`
followed by one of `Delete`, `Recognise`, `Write`, `TooLate`, `NotOurs`,
`Missing`, `Precondition` or `Fault`; its row locks keep every other transaction of the rule
out (`Locked`). A failed job either waits for its next attempt or, at the tenth, is
dead (`Retried`: the count is left out, so it may die at any attempt); it is dead at
once after a final error: a foreign event, a final refusal, an update of an event that
was deleted since the lookup (`Missing`, a 404 or 410) or a grant that gives no token
(`Unauthorised`). `desired_hash` contains the generation and the intent of its row,
so hash equality is equality of the slot (`Same`). The check constraint of
`planned_events` is part of the model: a late pass under `keep_with_warning` can
try to hold a row whose event is already over, which the database rejects
(`Valid`), and the job starts again. A preview's ten-minute life and the score of
a candidate are left out: any age of a preview is allowed as long as its inputs
are unchanged, and the earliest free slot stands for the preferred one. The
lookup of a deleted event is taken to find nothing, as the code and the fake
provider do.

### CalendarProtection

`policy`, `rule` and `plan` are the statuses of rows, `role` and `auth` those of
connections, `holder` the owner of each advisory or row lock, `tx` what a request
is doing. The database runs at read committed, so a request is a sequence of
steps: `TakeRow` (the `for update` read that starts it and the reads that decide
which locks it needs), `TakeKey` (one `pg_advisory_xact_lock`, in the order of
`Rank`), `Check` and `Verify` (the reads under the locks), `Broker` (the token
broker's update over a second session), `Write` (the last statements and the
commit). `Fail` rolls back anywhere, `Timeout` is the 30-second
`statement_timeout` of a statement that waits. A calendar is an endpoint (what
one connection calls it) with an identity (the provider's calendar behind it);
`Needs` lists which of both a request locks. Whether an endpoint is readable or
writable follows from the role of its connection, and references of old
projections and actions, which only make a role change refuse more, are left
out, as is the unique index over the provider identity of live rules
(`server/migrations/0012_…`): the locks keep `OneController` without it.

### ConflictResponse

An invitation is a revision and an answer, at the provider (`remote`) and in
`source_observations` (`mirror`); its observation hash stands for both. Private
busy times are a number, 0 for none. `Prepare` and `Commit` are the unlocked and
the locked half of `reconcile()`; `Reservable` is its loop over the conflicts,
`Declined` the count of audit facts. `apply()` is one transaction across several
provider calls: `Begin` (locks and database checks), `AskAvailability`,
`ReadInvitation`, `Patch`, `Verify`, each a step that others may interleave with
as far as the row locks (`RuleFree`, `MirrorFree`) allow; `Refused` is a final
provider error, `Retry` a rollback with or without another attempt, `Finish` the
completion of the job in its own transaction. A PATCH without an answer goes to
`wire` and may be applied at any later time (`Land`). `facts` and `declines` hold
times: what the audit says and what the provider did. A rule's revision never
changes in the code and is left out, as are the decline comment and the horizon.

## 3. Runs

| Run | Question | Bounds and why they suffice |
|---|---|---|
| `job_queue` | Does a job end once, in the hands of its holder, and end at all? | two rows, an ordinary and a windowed key, two workers of which one may crash, two attempts: a takeover needs two workers and one row, a duplicate needs two rows; the attempt limit is reached |
| `copy_repair` | Is what reaches the calendar current, recognisable, ours, and is "converged" true? | one fault of any kind, one direct change and one lost connection in any order, two versions, three generations (each loss advances by one) |
| `copy_hold` | Do pause, hold and detach stop everything? | two executors (a stall lets both work on one effect), one pause, one direct change, one fault, an occurrence that leaves the horizon, which is its source change; checked as well with a second version, no ageing and the other bounds as they are |
| `copy_converges` | Does the copy come to agree with the source? | one fault that leaves a write undone, done without an answer or half recorded, one direct change, two versions, four generations |
| `ingest` | Does the mirror follow the calendar through pages, crashes, resets and a purge? | two events (one listed, one changing behind the listing), three changes, two resets, one failed pass, one purge |
| `planning` | One event per occurrence, "converged" true, no row given up before its time? | one window of three slots (a move can miss its time while the event is still to come), all three policies, two overlapping passes, one change of availability, two intents, two generations, one trouble: a write without an answer (done or not, retried or dead), a worker that dies or a touch by hand |
| `planning_removal` | Does removal end, with all meetings gone, and is every intent settled? | two windows planned together, one trouble: a passing or a final refusal, a touch by hand, an outage, a lost grant or a pause; two intents, so that a pass of the model stops where a third would be needed (`Cut` excepts these behaviours; with three intents and no pauses the run passes too) |
| `protection` | Can two requests that each looked first both get what only one may have? | two requests at a time (every race here is between two), two calendars each with two endpoints in two accounts, two bridges, two rules for the same calendar, one planning rule, role changes of both accounts, any failure, timeout or unusable token |
| `response` | Is the budget kept, and is only what was evaluated declined? | two invitations for a budget of one, of which one is moved, answered and has changing busy times; one pass beside one worker, lost leases, lost and late PATCHes, a window of one tick that passes. Two passes, two workers or two rules that follow each other were checked as well with a clock that stands still; the theorems cover any number |

Deadlock is checked in `job_queue`, `copy_converges`, `ingest`,
`protection` and `response`.
The other runs stop where a bound is used up or, in `Planning`, when the rule is
deleted and time is over.

### Disagreements found

Three runs are expected to violate a property; each is a trace of the code as it is.

- `lost_update`: an update superseded because the source moved on is not sent
  again when the newer version looks the same on the destination; the copy keeps
  old content and reports "converged" (`sync/effects.ts:276`).
- `copy_removed`: a create applied without an answer is forgotten when the source goes
  before the retry (`sync/effects.ts:420`). The create is superseded, the deletion that
  follows knows no event id and makes no call, and the projection is `deleted` while the
  copy stays, where nothing will look for it again; `docs/CALENDAR-SYNC.md:277` says
  "Source deletion or exclusion deletes the managed copy." `Converges` fails there.
  With faults that leave the create undone it holds for a source that goes, too
  (checked with a refused call, ageing and a lost connection).
- `decline_budget`: a decline that took effect while its worker died leaves no
  audit fact. When a conflict that begins earlier then takes its place in the
  budget, or the sync mirrors the decline before the retry, it is never counted,
  and more than the budget is declined in the window
  (`conflict-response/coordinator.ts:437`). What the database can know, the
  budget over facts and reservations, is `WithinBudget`, which holds.

Met while modelling or proving, without a run of their own. The first two are
violated by the same modules when the instance is widened (`ForeignIsSafe` with a pause
beside a direct change, `AbsenceIsReal` with two passes), as is `NoCopyLeftBehind` by
the sequence of `copy_removed`; the next two were found by the proof of
`ConvergedIsTrue`, which fails there. Section 4 names the hypothesis that excludes
each:

- `defer()` on a paused policy drops the flag that makes a recovery look before it
  writes (`sync/effects.ts:615`), so after resume an event without ownership
  markers may be overwritten.
- A pass that lost its lease lowers a row's generation under a full scan, which
  then tombstones a live event (`sync/coordinator.ts:490`).
- A deletion can be overtaken by a source that returns. Planning it erases
  `desired_hash`; when the occurrence is selected again before the delete is sent, the
  delete is superseded (`sync/effects.ts:276`) and the evaluator, which has no
  fingerprint to compare with, plans nothing
  (`packages/calendar-sync/src/evaluate.ts:342`). The copy keeps the content it had
  before the source went and is reported "converged".
- A repair is planned for the source basis that the verifier loaded
  (`sync/verification.ts:363`). When a version that reads the same was reconciled
  between its load and its verdict, the row looks unchanged to the verifier, the repair
  is superseded at once, and the edited copy is reported "converged" at the revision
  that the repair had adopted.
- While a private-reply rule is activated with its locks held, the token broker
  may update the connection over another session (`providers/google/oauth.ts:340`).
  A role change that holds that row and waits for an advisory lock of the
  activation closes a circle the database cannot see; only `statement_timeout`
  ends it. `NoDeadlock` is about the waits the database sees, all of them in
  sorted order, as `docs/ARCHITECTURE.md:240` says.
- A role change asks about planning rules by their target calendar only, not by
  the availability calendars of smart meetings (`providers/google/oauth.ts:428`),
  and a role given up in two steps, `both` to `destination` to `availability`,
  escapes the question about destinations, since only the first step removes the
  right to read.
- A full scan that failed half way is repeated under the same generation; an event
  it had stored and that left the horizon in between stays until the daily scan
  (`sync/coordinator.ts:364`). It is the exception that `NextScanReaches` names.
- A deletion whose job is dead is never queued again once its rule is being removed:
  reconcile passes are of active rules, and `remove()` runs once. The job dies at its
  tenth attempt, after some 17 minutes without the target (`jobs/queue.ts:170`), or at
  once when the broker has no token (`planning/coordinator.ts:200`); when the target
  comes back later the rule stays `deleting` and the meeting stays. `docs/API.md:534`
  says that "target and precondition failures retry". `RemovalCompletes` excepts it.
- An update of a meeting that somebody deletes between the lookup and the call gets 404
  or 410, a final error that is not a failed precondition: the row stays
  `pending_update` with an error, its job is dead, and passes do not queue a row with an
  error again (`planning/coordinator.ts:335`, `428`). `IntentsSettle` excepts it.
- `RemovalCleansUp` and `GivenUpLate` need their condition `Answered`. A planned
  event is created without an answer, its window then has no free time, so the row
  becomes `unmet` with no event id; `remove()` takes it for one that never existed
  (`planning/service.ts:636`) and the rule is `deleted` while the meeting stays.
  `docs/API.md:531` speaks of "possibly in-flight events".
- Even with every call answered, removal judges an event by the time it should
  have, not by the time it has. A pass moves a meeting to an earlier free slot, the
  move is not applied before that slot is over, and `remove()` takes the meeting for
  a past one (`planning/service.ts:636`): row and rule become `deleted` while the
  meeting, still to come, stays on the calendar. It takes three slots to see;
  `RemovalCleansUp`, then without the exception, failed there. `GivenUpLate` states
  that nothing else gives a row up early; the row keeps its event id.
- A copy kept and detached while a dead effect of it is left can come back:
  `retryBlocked` does not look at ownership (`policy/service.ts:560`), and the
  verifier looks for `pending`, `leased` and `retry` effects only
  (`sync/verification.ts:322`). The dead effect, queued again, attaches and writes
  the copy. `DetachedHolds` has the hypothesis `NoDeadHold` for this.
- When an occurrence leaves the horizon while its create is still queued, the
  delete planned for the same version can be ordered before the create, which then
  writes the markers of an earlier generation. `MarkersHold` therefore assumes that
  the occurrence stays inside the horizon (`Inside`).
- An accepted skip whose deletion is still pending is replaced by a move when a
  later pass finds free time again (`planning/coordinator.ts:414`).
- Deletions run while a planning rule is paused (`planning/coordinator.ts:179`);
  `docs/API.md:525` says that jobs "do not write while paused".
- A delayed apply may move a meeting inside its no-move window: only reconcile and
  accept look at the window.
- Two unanswered creates in a row can reuse the id of a deleted event
  (`sync/effects.ts:342`), which the provider refuses.
- `created_at` orders effects by the start of their transaction
  (`server/migrations/0001_initial.sql:219`), not by commit; the model lets a new
  effect be ordered before any that committed meanwhile.
- The enqueue before the `hold_stale` error in `sync/notices.ts:281` is rolled back.
- An effect whose worker dies on every attempt never becomes dead.

### Fairness

- `JobQueue`: a worker that runs goes on, a back-off ends, the lease of a worker
  that is gone runs out, and a worker that never crashes leases each job that
  stays leasable (strong fairness per job: the queue takes the oldest due row
  first). Leases of live workers need not run out.
- `CopySync`: the scheduler's windows repeat reconcile and verify jobs, workers
  take effects, provider calls end (they time out after 20 seconds), paused
  policies resume and connections return. Nothing is assumed of the source, of
  people's decisions or of faults.
- `CalendarIngest`: passes go on (the scheduler queues one per window) and a lost
  authorisation is granted again.
- `Planning`: workers take jobs, passes of an active rule are queued and commit, an
  unusable target comes back. A rule need not be resumed or removed.
- `CalendarProtection` and `ConflictResponse` state safety only and assume none.

## 4. Proofs

`JobQueueProofs` proves, for every set of rows, keys and owners, every attempt
limit and from `QueueAssumption` alone:

- `Typed`: `Spec => []TypeOK`;
- `LeaseInvariance`: `Spec => []LeaseInv`. `AttemptIsCurrent` and
  `LeaseHasRunner` are not inductive: to see that a takeover cannot leave an old
  holder believing it holds, one has to know that a leased row names a worker
  that is gone, or one that is busy with this very row, counts its attempt and
  has not been told that the lease is lost. `LeaseInv` says exactly this of every
  leased row; it is preserved because reaping makes the row leasable before it
  names a new owner, and because a worker leases only when idle;
- `AttemptsAgree` and `LeasesHaveRunners`, which follow from it;
- `KeysStayUnique`: no key has two live rows. The lemma `StepKinds` classifies every
  step by what it does to the rows: it opens one, closes one leased row, forgets
  one, or changes nothing but leases;
- `HolderDecides`: the action property `OutcomeFromHolder`;
- `WindowsRunOnce`, from the invariant that a window's row exists until the window
  is over;
- `QueueImplementsContract`: the initial states map to initial states of
  `JobContract` and every step to one of its steps or a stutter;
- `OneRunnerHolds`: `Spec /\ []LeasesLast => []OneRunnerPerKey`. No two workers run
  jobs of one key as long as leases run out only under workers that are gone. A worker
  that runs a job then holds the lease of its row (`Owning`, inductive: reaping, another
  lease, the sweep and a takeover all need a row that is not leased, or whose holder is
  gone), and a key has one live row. It is what `OneAtATime` below rests on.

`CalendarProtectionProofs` proves, for every set of calendars, accounts, bridges,
rules, plans and concurrent requests and every injective order of the keys, from
`ProtectionAssumption` alone: `TypeCorrect`, `NoCopyHolds`, `OneControllerHolds` and
`ReadersHold`, all from `Invariance`. The three promises are not inductive: a
request about to write knows nothing of the others. The invariant adds
`LocksHeld` (a request past the lock step holds its row and all its keys) and
`Grounds` (what each request past its checks has read is still true). A write is
safe because the ground of the writer is current; it keeps the ground of another
request because the two would need a key in common (`NoSharedKey`, `KeysNeeded`).
A bridge and a rule meet in the identity key of the protected calendar, two rules
in the response key, a role change and an activation only in the endpoint key of
the account's own calendar, which is why every request locks endpoints as well
as identities.

`Rank` plays no part in these; it is for `DeadlockFree`. Its invariant `Ordered`
says that a lock is held only by a request that is past its start, and is the row
it began with or a key that ranks below all the keys it still lacks. Of the requests in a circle, each
waiting for the next, one waits for the key of the greatest rank; the holder of
that key waits for one that ranks higher. That a greatest one exists needs
`IsFiniteSet(Txs)`: each process has a connection pool of ten (`database/client.ts:17`).

`ConflictResponseProofs` proves, for every set of rules, invitations, passes and
workers, every budget and window, from `ResponseAssumption` alone: `TypeCorrect`,
`BudgetHolds`, `GroundHolds`, `AnswersHold` and the action property
`DeclinesHold`, all from `Invariance`. The invariant has four parts. An apply that
holds its locks works on a pending action of an active rule, with the mirror at
the revision and answer it checked, and no two of them share a rule (`Grounds`,
`Exclusive`). The mirror is never ahead of the provider, and a request on the wire
asks for a revision no newer than the mirror's; where all three agree the
invitation is unanswered (`MirrorBehind`, `WireBehind`), so the provider's
precondition does the rest. One rule at most is live and only active ones have
reservations (`OneLive`, `PendingLive`), so a pass that counts its own
reservations counts all. The budget then follows by counting: the window only
loses facts as time passes (`PassPast`: a pass looks from an earlier time and so
counts no fewer), a pass reserves what is left, an apply turns one reservation
into one fact (`BudgetTurns`), everything else removes reservations.

Type correctness of these two modules is left to the theorems: their runs do not
check it again.

`CopySyncProofs` proves, for any number of executors, reconcile passes, versions,
generations, queued effects and faults, from `CopyAssumption`. Its invariants come
in layers, each resting on the ones before it:

- `Base`: the shape of the rows (`TypeCorrect`), and that an executor past its
  locks is the only one, holds the lease of its effect and works for an active
  policy and the current version (`Exclusive`). With it every step of an executor
  is one of a few outcomes (`Outcome`), and the other proofs go by outcome.
  `PauseHolds` follows: a paused policy has no executor past its locks.
- `HoldWaitsHolds`: `HoldWaits` is inductive on top of `Base`.
- `Truthful`: every desired copy, in the projection, in an effect or in the
  verifier's hands, is the version it was planned for after selection and privacy.
  `WritesHold` follows, since a call is made only for the current version.
- `Fitting`: no intent is planned for a version that was not observed, only a
  version that is not selected is deleted, and an effect that may still write the
  current version carries the current generation. `MarkersHold` follows, under
  `[]Inside`.
- `Settled`: a detached copy is converged and has no effects at all.
  `DetachedHolds` follows, under `[]NoDeadHold`.

Both hypotheses hold in the initial states and are left only by the steps the list
above describes; without them the properties are false.

`CopyConvergenceProofs` adds the destination calendar, for the same constants. Every step
of an executor is classified with what it does there (`Deed`), every step with what
becomes of the recorded generation and revision: steady, a write landed, the next
generation begun, or the revision that the verifier saw adopted (`NextMoves`).

- `KnownInvariant`: the ids of later generations are unused, recorded revisions are
  past or present ones, a copy the verifier missed has an id that is used up, and a
  deletion is planned only of a version that is not selected (`Tracked`, `Sighted`,
  `Evident`). It holds without hypotheses.
- `NoCopyLeftBehindHolds`, under `[]Recorded` (an occurrence whose create was applied but
  not recorded stays selected): a generation ends only when its event is not there.
- `GuardedInvariant` and `ForeignHolds`, under `[]RecoveryRuns` (no pause while the
  recovery of a copy held for its ownership waits). `ForeignIsSafe` is an action property
  and needs two invariants: a recorded revision of an event without markers means
  that the copy is held and that whatever waits looks before it writes (`Watched`), and a
  worker about to write has seen markers at the revision it names (`Guarded`); the
  provider's precondition on the revision does the rest.
- `ConvergedHolds`, under `[]NotOvertaken`, which names the three gaps: `UpdateInPlace`,
  `DeleteInPlace` and `RepairInPlace`. `ConvergedIsTrue` is not inductive: a wrong copy
  passes through many states before it reports anything. `Owed` says that it always has a
  write of the wanted copy queued, or a recovery recorded for the retry or decision that
  it waits for, so that it cannot become converged in any other way than by that write.

The hypotheses are about behaviours. The last section shows that they follow from
conditions on the constants alone, so that the properties hold outright there:
`NoCopyLeftBehindWhereSelected` (every version selected, no ageing),
`MarkersHoldWithoutAgeing`, `ForeignHoldsUnpaused` (no pauses),
`ConvergedHoldsWhereRepaired` (a policy that repairs, selected versions that all read
differently, `Fresh`, and no return once not selected, `Leaves`) and, for a policy that
holds edits, `ConvergedHoldsWhereFresh` under `[]NoDeadHold`. The instance of
`copy_repair` satisfies all of these conditions, so its five properties are theorems for
any size of it. The invariant behind the last two is `Rooted`: what is recorded
was planned for an observed version, and a copy is given up only for a version that is
not selected.

`CalendarIngestProofs` proves `TypeCorrect` and `PurgeHolds` whatever passes overlap:
while the account may not read there is neither cursor nor observation, and a pass
that is still under way has lost its cursor row (`Clean`); the role is asked again in
the transaction of each page, so it stores nothing, and it revives no cursor.
`NothingMissedHolds`, `NextScanHolds` (with the strict bound of the scan's own test:
a row of the next scan's generation was stored by a scan of it that is under way or
failed, `Waiting` and `Fresh`) and the action
property `AbsenceHolds` are proved for any finite set of events under
`[]OneAtATime`: no two passes of the calendar at once, which is what the job queue's
deduplication key gives as long as leases last (`OneRunnerHolds`). A pass that outlives its lease breaks `AbsenceIsReal`, as said
above. The invariant says of the pass under way that it works for the cursor row it
read or for none (`Linked`), that a page in hand shows an event as it is unless it
changed after the listing began (`Paged`), and that everything the listing's token
will promise is still to be listed, in the page, or stored with the scan's
generation (`Covered`).

`PlanningProofs` proves, for any number and width of windows, any lock time, every
subset of the policies and every bound, from `PlanningAssumption`: `TypeCorrect`,
`OneMeetingHolds`, `ConvergedHolds`, `RemovalHolds` and the action property
`GivenUpHolds`, all from `Invariance`. `OneMeeting` is not inductive: a new id is
taken when the last event is gone, so the invariant says which ids are used up
(`Ids`) and what a worker still knows of the event it looked up while people edit
the calendar (`Looks`). `ConvergedIsTrue` needs that an intent number stands for one
time (`Numbered`): apply() recognises its own earlier write by that number. The
removal needs that an answered rule knows its events by id (`Known`) and which rows
a removed rule may have (`Ending`). `ReconciledKeeps` and its companions say once
what a late pass, an accepted suggestion or a failed call leaves of a row.

Only model-checked are the liveness properties `JobsSettle`, `Converges`,
`MirrorsCalendar`, `RemovalCompletes` and `IntentsSettle`, since the prover does not
handle fairness. What `DeclinesWithinBudget` states is refuted by its run and has no theorem.

## 5. Not modelled

HTTP routing, sessions, encryption, the wording of notices, deployment and the web
client hold no protocol between actors. Time zones and hours expansion are pure
functions that have not been translated yet. A write that the provider applies
later than the lookup of its retry is modelled for declines (`wire`), not yet for
copies. The macOS app is a
second implementation and is not covered. `PROJECT.json` gives the reason for
every part.

## 6. Plan

1. `PolicyLife`: preview, revision and removal of a policy with its
   projections; composed with `CopySync` through the pause boundary.
2. `Hours` and `Evaluate`: the pure operators of `packages/`, checked against
   declarative definitions over bounded inputs.
3. `MacSync`: the coordinator of the macOS app.
4. `Passes`: `CalendarIngest` with its passes as jobs of `JobQueue`, so that
   `OneAtATime` becomes a consequence of `LeasesLast` inside one specification.
