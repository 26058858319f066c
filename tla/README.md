# A verified model of the AI Recruitment Copilot back end

This directory holds TLA+ specifications of the recruitment platform's back end
(`src/backend/app`): FastAPI endpoints over services and repositories, one PostgreSQL
database reached through SQLAlchemy sessions, and worker processes that run durable jobs.
The specifications are translated from the Python source, checked with TLC on small
instances and, for every component that changes rows, files or caches, proved with TLAPS for
every instance.

`tlc -config <run>.cfg <MC module>` repeats a run, `tlapm <module>_proofs.tla` a proof
(`Services_proofs` and `MCServices_proofs` take a quarter of an hour each).

## 1. Inventory

### What makes this code hard

* **Stale reads.** Sessions are `autoflush=False, expire_on_commit=False` at PostgreSQL's
  READ COMMITTED. No table has a version column. A request loads objects, validates them in
  memory and writes `UPDATE ... WHERE id = :id` with the columns it changed. Whatever another
  request or worker committed in between is overwritten unless an index forbids it.
* **Uncommitted locks.** The job queue claims with `FOR UPDATE SKIP LOCKED` and keeps the
  transaction open while the handler runs. Exclusion is the lock, not the status column.
* **Several commits per operation.** Repositories commit by default. An operation that
  calls two of them, or one that enqueues a job after its own commit, can stop half-way.
* **Slow calls between a check and its use.** AI evaluations, calendar providers, SMTP.

### Parts, state and interactions

| part | state it keeps | operations | talks to |
| --- | --- | --- | --- |
| Durable job queue (`core/durable_job.py`, `repositories/durable_job.py`, `services/durable_job_service.py`, `services/durable_job_worker.py`) | `durable_jobs` rows: status, attempt count, next run, lock columns, idempotency key | submit, claim, execute, finalise (3 ways), recover stale, cancel | called by e-mail, webhook, calendar, resume; calls job handlers |
| Offers (`services/offer_service.py`, `core/offer_status.py`) | `offers` rows: revision, status, is_active, approver, content | create revision, edit, submit, approve, reject, withdraw, accept, decline | moves the application; gated by the hiring decision; emits notifications |
| Applications (`services/application.py`, `core/application_status.py`) | `applications.status` and scores | create, change status | written by nearly every other part |
| AI interviews and assessments (`services/ai_interview_service.py`, `services/assessment_service.py`) | sessions: pending or completed, answers, score | open session, submit | write the application, then trigger the decision |
| Hiring decision (`services/hiring_decision_service.py`, `services/hiring_recommendation.py`) | one decision per application, with a recruiter's override | evaluate, bootstrap, override | reads scores; advances the application; gates offers |
| Interview management (`services/interview_management.py`) | `interviews` rows | create, update, cancel, delete | advances the application; triggers calendar sync and notifications |
| Calendar sync (`services/calendar_sync.py`, `services/job_handlers/calendar_sync.py`) | one sync row per interview: status, external event id | enqueue create, update, cancel; execute them | job queue, calendar provider |
| Notifications, e-mail, webhooks (`services/notification*.py`, `services/webhook_*.py`) | notification rows, preferences, webhook configuration | fan an event out, enqueue delivery, deliver | job queue, SMTP, HTTP |
| Public application form (`services/public_apply.py`) | resume file, candidate, application | submit | enqueues resume intelligence |
| Resume intelligence (`services/job_handlers/resume_intelligence.py`, `resume_intelligence_engine.py`) | analysis row, scores, AI status | execute | runs inside a job, writes application, candidate and job |
| Jobs (`services/job.py`, `job_intelligence_engine.py`) | `jobs` rows with a JSON of intelligence | create, edit, delete, refresh | AI provider; the resume job writes the same JSON |
| Candidates and notes (`services/candidate.py`, `note_service.py`) | candidate, notes | create, edit, delete | cascades to applications |
| Organisation and members (`services/company.py`, `company_member.py`, `branch.py`) | companies, members, branches | found, add, remove, promote | gives users their company |
| Workspaces (`services/organization_service.py`, `api/workspace.py`) | one JSON file per workspace | read, alter, write, delete | the file system |
| Read caches (`core/read_cache.py`, `services/cache.py`) | entries with a deadline, in the process and in Redis | get, set, delete, lock | filled by reports, invalidated by writers |
| Rate limiter (`middleware/security.py`) | request times per address | admit or refuse | every request |
| AI pipelines and assistant (`ai/pipelines/*`, `services/prompt_manager.py`, `chat_service.py`) | prompt store, chat cache | generate, validate, fall back | the model's provider |
| Audit (`services/audit_service.py`) | log file, index file, table | emit, list | called by every service |
| Reports, lists, dashboards, copilot (`services/reporting.py`, `recruiter_*.py`, ...) | none | count, page, summarise | read what the others committed |

What makes each correct: the **queue** executes a job in one worker at a time, within its
budget, settles every job and never resurrects one; **offers** have one current revision, move
along their table and agree with the application; **applications** move along their table
whoever writes them; **sessions** are submitted once; the **calendar** converges to the
interview; an **event** reaches each subscriber at least once and a duplicate at most once per
key; a **cache** never serves, beyond its lifetime, what its reader could know to be old;
**scores** never fall because an input got better (but for the cases of section 4), and labels
follow them; what was derived from old input is **reported stale**; **views** of the same rows
agree; no **audit** entry is lost, and of a **workspace** only what overlapping changes take
from each other. `PROJECT.json` lists, under `hazards`, the lines where these can go wrong.

## 2. Modules

| module | models |
| --- | --- |
| `JobLifecycle` | abstract: `ALLOWED_JOB_TRANSITIONS`, and that every submitted job settles |
| `DurableJobs` | the queue with its workers, submitters and cancellers; implements `JobLifecycle` |
| `DurableJobs_proofs` | TLAPS proofs about `DurableJobs` |
| `ApplicationStatus`, `OfferStatus` | the two transition tables, shared by the modules below |
| `OfferContract` | abstract: what the offer code promises of the revisions of one application |
| `OfferLifecycle` | the offer service under concurrent requests; implements `OfferContract` one request at a time |
| `OfferLifecycle_proofs` | TLAPS proofs about `OfferLifecycle` |
| `ApplicationPipeline` | every writer of one application between resume and decision |
| `ApplicationPipeline_proofs` | TLAPS proofs about it and about `CompositeScore` |
| `CalendarSync` | an interview, its sync row, its jobs and the provider's events |
| `CalendarSync_proofs` | TLAPS proofs about `CalendarSync` |
| `Notifications` | the fan-out of a change into notifications, mails and webhook posts, and both job handlers |
| `NotificationList` | a recipient's inbox: pages, counts, hidden categories |
| `Webhooks` | the management of webhooks while events are fanned out and posted, and its audit |
| `PublicApply` | the public form: file, candidate, application, resume job |
| `CandidateRecords` | a candidate's row, notes and applications: edits, cascade, the resume job's status, applications moved by others |
| `JobRecords` | a job and the intelligence derived from its description |
| `Intelligence` | analyses and decisions derived from others, and how staleness is found |
| `Membership` | companies, members, roles, branches |
| `WorkspaceStore` | the workspace file; without a lock, since each request makes a store with one of its own |
| `ReadCache`, `TieredCache` | the cache of reports; the Redis and local tiers with their lock |
| `RateLimiter` | the sliding window of `RateLimitMiddleware` |
| `AuditTrail` | table, log and index of the audit |
| `AIPipeline` | attempts, validation, repair and fallback of one AI request |
| `Assistant` | the prompt store as processes start, the chat's cache, comparison of candidates |
| `Reports`, `Listing`, `OfferViews`, `RecruiterDesk` | queries that count, page and list the same rows, and whether they agree |
| `CompositeScore`, `StageScores` | the composite decision's weighted mean; the same as stages are scored |
| `HiringScore` | signals, evaluation, score and label of a generated decision |
| `ResumeScore`, `ResumeEngine` | the fit score without a provider; timeline, gaps, level and ATS score |
| `AnswerScore`, `Comparison`, `Copilot` | scores of answers; candidates side by side; the copilot's summary |
| `MCDurableJobs`, `MCOfferLifecycle`, `MCApplicationPipeline`, `MCCalendarSync`, `MCServices` | instances, constants and symmetry for TLC; the third and fourth also carry the theorems over to what TLC runs |
| `Services_proofs` | TLAPS proofs about the services of 2.5 that change rows, files or caches: a section and an instance each |
| `MCServices_proofs` | the same for the parts of `MCServices` |

Definitions whose name has a suffix (`Claimable_Cancelled`) are *mutants*: the same
definition with a plausible bug. Substituting it makes TLC find the paired property violated,
which shows that the property depends on that code. No specification uses them.

### 2.1 `DurableJobs`

*State.* `status, attempts, due, stale, created` are the committed columns of a row
(`due` abstracts `scheduled_at`/`next_run_at`, `stale` abstracts the age of `locked_at`).
`lock` is the row lock of an open transaction. `pc, job, mem, result` are the worker's local
variables: `mem` is `attempt_count` as loaded by the claim, which the session never reads
again. `sub` and `canc` are the progress of a submission and of a cancellation. `runs, sent,
lost` are history variables: claims, completed effects and rolled-back executions.

*A claim does not change `status`.* `claim_next` writes `running` with `commit=False`; nobody
else sees it before the finalisation commits. Crash and database error therefore give back
the row as it was. The resume handler commits half-way (`Publish`): now `running` is
visible, the lock is gone, and stale recovery and cancellation may touch the row while the
worker still runs. `Publishing` is the set of those jobs; every property says whether it
covers them.

*Actions.* `SubmitLookup`/`SubmitInsert` are `submit` and `submit_idempotent`; `Recover`,
`Claim`, `ClaimNothing` are `claim_next`; `Handle` is the handler's outcome in
`execute_claimed`; `FinalizeSuccess`, `FinalizeRetryable`, `FinalizePermanent` are the
three `_finalize_*`; `Crash`, `DbError`, `Restart` the failures; `CancelRead`/`CancelWrite`
are `cancel`; `BecomeDue`/`BecomeStale` let time pass. A write to a locked row waits
(`lock[j] \in {None, w}`), as an UPDATE in PostgreSQL does.

*Left out.* Payloads, error texts, correlation ids, `job_types` filters (a worker runs all
types), batch size and shutdown (a loop of the same steps that stops between jobs), the
concrete backoff (only that it ends).

### 2.2 `OfferLifecycle`

*State.* One application: `app` is its status, `eligible` whether the effective
recommendation is in `OFFER_ELIGIBLE_RECOMMENDATIONS`. Per revision: `status`, `active`,
`approved`, `content` (one bit that an edit flips). `req[c]` is the request a client is
executing, with what it has loaded and still uses.

*Actions.* Every operation is a load step, with the guards the code evaluates on the loaded
objects, and a write step, the transaction. Staff requests load offer and application in one
query (`joinedload`); candidates load the offer first (`CandidateLoads`,
`CandidateLoadsApplication`). Creating a revision is four steps: the application and the
gate, the active offer, the next number, the insert, which fails as a whole when
`uq_offers_application_revision` or `uq_offers_one_active_per_application` is violated.
`PatchLoads`/`PatchWrites` are a recruiter's own status change; `Decide` is any change of
the effective recommendation. A refused request changes nothing and is no step.

*Left out.* Roles and tenancy (checked before the first load), audit, notifications and
cache invalidation (after the commit; they do not feed back), compensation and dates, the
`expired` status (nothing writes it). `eligible` is read with the application, one query
earlier than in the code; no property depends on which.

### 2.3 `ApplicationPipeline`

One application with its sessions, interviews, composite score and decision row. A request
(`Ops`: resume job, opening and submitting an assessment or an AI interview, scheduling and
completing an interview, composite evaluation, generation and override of the decision, a
recruiter's change of status) loads rows, works, and flushes: `Flush` writes the columns that
differ from what was loaded, as SQLAlchemy does, so an unchanged column keeps what another
request wrote. Operations of several commits are several steps, and `Dies` may end one
between them. Questions, answers and texts are reduced to a score. `VerdictStands` names who
may leave a verdict: a recruiter, the AI interview, and whoever loaded the application before
(`LoadedBefore`), which no lock prevents.

### 2.4 `CalendarSync`

A request loads the interview (`Open`), commits its change (`Commit`), reads interview,
integration and sync row (`Look`), commits the marked row (`Mark`) and submits a job
(`Submit`); a deletion looks, marks and submits first and deletes last. Between any two another
request or a worker may come. A submission whose key exists ends as "dropped", so that
properties can name it. A worker claims, reads, calls the provider and commits row and job end
together; it may crash in between, the provider may fail, and a retried job runs with the
payload of its submission. The provider is `FakeCalendarProvider`; the Google and Microsoft
ones only raise.

### 2.5 The services

The other modules meet only through rows already committed. Each has its state, `Init`, one
action per handler or step, `Next` and its properties, and a header that says what is
abstracted. Actions that span an await, a provider call or a commit are load and write steps,
with history variables (`crossed`, `overlapped`, `doubt`, `passed`) where a property holds only
for calls that did not overlap, and says so. Loops that only compute are one expression: the
rate limiter's `while` loop drops the longest prefix of the deque that is stale (`Popped`). The
timeline of the audit is the set of its entries. The scores are functions over bounded inputs
in exact integer arithmetic (tenths of a percent, basis points); where Python rounds a binary
float both neighbours of a tie are allowed.

`MCServices` checks them in one run: a behaviour picks one `part` and then follows that
module's `Next` while the variables of all others stand still. A part is an instance with
constants; most modules have more than one (`Managed`: admins who change one webhook;
`Posted`: an admin who changes it while it posts). The run's invariants are conjunctions of
`part = ... => M!Property`, so that each names one concern of several services.

## 3. Runs

| run | question | result |
| --- | --- | --- |
| `DurableJobs_safety` | exclusion, budget, effects, idempotency, cancellation, refinement for jobs whose handler does not commit | holds |
| `DurableJobs_live` | does every submitted job settle, with one fault and a handler that commits? | holds |
| `DurableJobs_cancel` | is a terminal status final? | violated |
| `DurableJobs_budget` | is `max_attempts` respected when the handler commits? | violated |
| `OfferLifecycle` | what survives two concurrent requests ("race"); does one request at a time keep `OfferContract` and agree with the application ("single")? | holds |
| `OfferLifecycle_terminal`, `OfferLifecycle_superseded`, `OfferLifecycle_edited` | do the promises of the comments, tables and messages survive two requests? | violated |
| `ApplicationPipeline` | do scores, sessions, decision, override and status agree: every kind of request, one at a time, one of which may die ("one"); two at a time that decide and override ("race"), open and submit sessions with different scores ("submit"), write the status around a recruiter's verdict ("verdict"), schedule ("plan"); is a submission decided ("wait")? | holds |
| `CalendarSync` | one event per interview, a truthful status, no older schedule written back, and an end to "pending" unless a job was dropped, with requests that overlap and late, retried and crashed jobs | holds |
| `CalendarSync_edit` | do edits made before the first event is stored reach the calendar? | violated |
| `Services` | the properties of all modules of 2.5, 42 parts | holds |

What `Services` shows, by property: `FanoutIsComplete` (whoever should hear of a change does,
unless a fault the model counts broke the request), `OneMailPerEvent`, `ViewsAreExact`
(pages, counts, walks and summaries of the same rows), `WorkspaceKeepsItems` (an item whose
last change overlapped no other is as that left it),
`LabelsFollowScores` (with candidates who reach a "Strong Hire" and miss one thing each),
`ScoresRise` (no improvement lowers a score; for resumes, if they have a skills section),
`ApplicationsHaveTheirResume` (file, rows and job of an application; a candidate, what hangs on
it, and who gave it its status),
`StaleOnlyByOverlap` (caches, the lock, a job's intelligence), `LimitIsExact`,
`StaleIsReported`, `TenantsAgree`, `TrailIsComplete`, `AnswersAreUsable` (of a provider, a
prompt store and the chat's cache), `WorkIsFinished`. A property that the code keeps only
under a condition carries the condition: "only if calls overlapped", "for one worker".

*Bounds.* Two workers are enough for a lock conflict, for recovery by another worker and for a
late result. Three jobs give two submissions of one key and a third of higher priority.
`MaxAttempts = 2` has a retry and an exhausted attempt. `MaxFaults = 1` bounds crashes and
database errors; one fault already repeats an effect. Two requests are the smallest race and
three revisions the smallest history in which a stale request meets a successor's successor;
the violations need only two. `ApplicationPipeline` has two clients and one fault; each
scenario of two has the kinds of request that write the same columns, since all kinds at once
exceed the time of a run, and `ScoresComeFromSessions`, `VerdictStands`,
`OverrideSurvivesEvaluation` and `DecisionMissesOnlyInBetween` are proved of any number of
requests of all kinds (5.2). `CalendarSync` has three requests (schedule, change, end, in any
overlap; as calls are alike they begin in the order of their names), two workers, two attempts:
682,645 states. Its pair of workers has the calls that write interview or row; one worker,
alone, has those of admins too. In `Services` each part has two or three actors, the keys that
make a conflict (two pages and a rest for lists of limit 2, two cache keys of one company and
one of another, a full cache of one), and as many clock ticks as its lifetimes plus one. Score
inputs are the thresholds and their neighbours. The theorems of section 5 remove these bounds,
of actors, rows, keys, faults and time, from every invariant they state.

*Deadlock.* Checked for the queue and the offers. `ApplicationPipeline`, `CalendarSync` and
`Services` say `CHECK_DEADLOCK FALSE`: there the bounded requests, faults and clock run out and
the system rests.

*Fairness.* Queue (`FairSpec`): weak fairness of `Execute(w)`, since `run_forever` polls
until shutdown and every external call of a handler has a timeout; of `Restart(w)`, as the
supervisor restarts `run_worker_process`; of `BecomeDue` and `BecomeStale`, since time
passes. Nobody has to submit, cancel or publish, and nothing has to fail. Elsewhere: a
request that was begun runs to its end (a step of a server thread is always enabled until
it returns) and a worker polls for ever. No user action and no provider is fair.

In `OfferLifecycle` the conjunct about the application excludes behaviours in which a
recruiter set a status of the offer stage by hand (`byHand`), who parts the two deliberately.

## 4. Where the code departs from what it says

1. **A terminal job status can be overwritten** (`DurableJobs_cancel`).
   `validate_job_transition` runs on the loaded object, the UPDATE names only the id, and
   `cancel` takes no lock.
2. **`max_attempts` can be exceeded** (`DurableJobs_budget`): a recovered worker that
   finishes late writes back its own, smaller attempt count.
3. **A terminal offer status can be overwritten** (`OfferLifecycle_terminal`): for instance
   a withdrawal and an acceptance that both loaded the approved offer.
4. **An in-flight offer can be superseded** (`OfferLifecycle_superseded`): submitted between
   the blocking check and the insert of the next revision.
5. **An approved offer can be edited** (`OfferLifecycle_edited`): the edit was checked before
   the approval committed.
6. **A reschedule can be lost** (`CalendarSync_edit`): made before the first event is stored,
   it queues a second "create", which is skipped as already synced.

A condition on the old status in the UPDATE (or a version column), and a lock in `cancel`,
would close the first five.

What else the models show; each is part of the modules, which state properties that allow it:

* *Applications and decisions.* A finished AI interview sets its status over any other. A
  resume job, an assessment, a scheduled interview or an evaluation that loaded the application
  before a rejection overwrites it. Two tabs may submit one interview: the "idempotency check"
  reads the session before the slow evaluation, and the second submission replaces answers and
  score of the first. Two first visits may make two sessions of one kind. The offer gate
  compares labels in two spellings ("hire", "Hire"). An override bumps `updated_at`, so a stale
  AI score passes for fresh; regenerating a stale decision drops the override, and a failed
  regeneration leaves no row. A deleted interview does not make a decision stale.
* *Candidates.* A candidate may be created with any status, and its status follows no later
  move of the application. `CandidateService.update` sets the latest application's status only
  in the session (the repository has no `session`), so it is never stored. A candidate with
  applications cannot be deleted; one whose application arrives after the load is deleted with
  it. A resume job that loaded a "new" candidate overwrites the status set meanwhile.
* *Calendar.* All cancellations of an interview have the fingerprint "cancel": one that
  overlaps another, or comes after a resumption, marks the row "pending" and its job is dropped
  as a duplicate of the finished one, so the row stays "pending". Two workers can create two
  events of one interview.
* *Webhooks and mail.* A webhook switched off when its job runs loses the event for good,
  though the job succeeds; an unsubscribed one still gets what was queued. Deleting twice is
  audited twice, and "activated" is audited for an enabling that wrote nothing because the
  row was loaded as on. A crash between commit and audit leaves no entry. An inbox whose
  newest rows are all of hidden categories may show an empty first page.
* *Jobs.* The provider's client never raises, so an outage replaces good intelligence by a
  blank one; the resume job can restore that of an older description; a match noted in an
  empty column hides that none was built.
* *Workspaces.* The API's lock belongs to one request and excludes nobody: two changes that
  overlap lose each other's items, and may write into each other's file, which then is no JSON. A
  half-written file reads as a missing one, a crash then loses it; a change that overlaps a
  removal makes the workspace again. Preferences of a missing workspace answer `{}`, which their
  response schema refuses.
* *Prompts.* `_load_defaults` rewrites the store before it is read, although its comment says
  "Only populate defaults if not already present in store": versions added earlier are lost.
  Blank answers of an outage are cached for half an hour.
* *Caches and audit.* Other processes' copies, and Redis outages, serve deleted values up to
  their lifetime; the local cache holds one entry above its size; the lock is a get and a
  set. Two processes, or a crash, lose entries of the audit index.
* *Scores.* A completion ratio of 0 counts as complete; an overall score of 1 per cent counts
  as 100; experience or education of 0 is not penalised but 1 to 49 is; no "Strong Hire" without
  an analysed interview; everyone has the concern "coding_assessment: score 0"; overlapping
  roles make gaps and count years twice; one more incomplete record can lower the ATS score;
  a resume without a skills section has its first words for skills, so that the first skill it
  lists can lower its fit;
  unknown experience outranks five recorded years in a comparison.
* *Lists and reports.* Changes between two pages hide or repeat rows; parts of an overview
  are of different moments; hires are dated by `updated_at` and their rate can exceed 100
  per cent; the status columns leave out three statuses; the pending queue misses the legacy
  status "pending".

## 5. Theorems

TLC checks a small instance, a theorem holds for every value of the constants: any number of
workers, requests, rows, keys, faults, seconds. What is supposed of the constants is named and
stands with the component (`JobConstants`, `OfferConstants`, `...Constants` in
`Services_proofs`); it is what an encoding needs ("nobody" is not a form, a candidate is not
staff), what a setting is (an attempt at least, a cache of at least one entry, process numbers
from 1), or what the model has one of (one lock). Only the keys of `TieredCache` are supposed
to be finite. Where a property holds of one client or one worker only, that is a hypothesis of
the theorem (`OneClient`, `OneWorker`) and of the run alike.

Every proof has the same shape. The property is seldom inductive: a state of the property
can have requests half-way that are about to break it. So an invariant adds what a request
under way relies on; one lemma says that it holds initially, one that each action keeps it
(a step per action, and below it a step per conjunct the action can disturb), one that it
implies the property. `PTL` puts them together.

### 5.1 Queue and offers

`DurableJobs_proofs`: `TypeCorrect`; `QueueInvariantHolds`; from it `OneWorker`, `Budget`,
`EffectIsRepeatedOnlyAfterRollback`, `Idempotence`, `CancelledStays`; and `Refinement`, that
every step of the queue is a step of `JobLifecycle` or none. The invariant has four parts.
`RowsFollowSubmissions`: rows and keys. `LocksFollowClaims`: a lock holder works on the job,
and on a job whose handler does not commit only the holder works. `RowsFollowLocks`: such
a row never shows `running`, and while locked equals what its worker loaded - this is why
the write of a stale `mem` is harmless there. `HistoryIsPaidFor`: every claim was paid for
by a counted attempt or a rollback, except one under way.

`OfferLifecycle_proofs`: for any interleaving `TypeCorrect`, `OfferInvariantHolds`,
`NewestRevision`, `FailedOffersStayOut`, `AnswersFollowApproval`. The strengthening is
`RequestsAreGrounded`: the revision a request names exists, a candidate answers a revision
that was approved, and a creation's number follows an existing one. Rows only grow
(`RowsOnlyGrow`), so what was read stays true in the respects that matter, and the insert can
only be the next revision (`InsertIsNext`). For one request at a time
`OfferAndApplicationAgree` and `OneRequestKeepsContract`, the refinement of `OfferContract`;
their invariant is `Alone`: the others are idle, so what the request loaded is still so.

### 5.2 Applications and scores

`ApplicationPipeline_proofs`: for any number of requests of all kinds `TypeCorrect`,
`OverridesSurvive` (with `NoRowNoDecision`), `ScoresAreOfSessions` (with `ScoreInvariant`: who may
write a score has a completed session, scores stay, and the last to commit writes session and
application alike), `VerdictsStand` (with `AdvancesShortlisted`: who goes on to advance the status
has loaded a shortlisted application) and `DecisionsAreThere`. Only `DecisionsMatch`
supposes one request at a time, by `OneInvariant`: a flush leaves out a column that equals what
was loaded, so composite and explanation may come from two evaluations. Of the composite: it
is a percentage (`CompositeIsPercentage`), between the worst and the best stage
(`CompositeWithinStages`), has the label of the band its stages are in (`LabelFollowsStages`), and
never falls by an improvement, whichever way ties are rounded (`ImprovementNeverLowers`).
`MCApplicationPipeline` has `OneRequestKeepsDecision`, for the scenario TLC runs.

### 5.3 Calendar

`CalendarSync_proofs`: `TypeCorrect` for any number of workers; for one worker, which may
crash, `OneWorkerTellsTruth` and `SchedulesGoForward`; for one that does not,
`OneWorkerMakesOneEvent`. Requests overlap in any way. `SyncInvariant` types the rows and says
how long the sync row stays and what a request has read of it (`GoodReq`). `WorkerInvariant`
adds that the row is as the worker saw it or was marked since (`RowIsAsSeen`), and that whoever
leaves an untrue status leaves a job that mends it (`StatusIsOwed`). `EventIsKnown`: the only
event is the one in the row, or the one the worker at work has just been told of.
`MCCalendarSync` carries three of them over.

### 5.4 Services

`Services_proofs` has a section per service, with its invariant:

* `TenantsStayApart` (`TenantsInvariant`): who is about to be added had no company when the
  request checked, and the unique indexes decide the rest.
* `WorkspacesKeepItems` (`StoreInvariant`): no lock, any number of requests. The file
  (`FileIsRight`) and what each request under way is about to write (`DataIsRight`) are right about
  every item whose last change overlapped no other, the request's own item included; overlapping
  requests are marked on both sides (`OverlapsAreMarked`). Nothing is said of the items in `doubt`:
  those the code loses.
* `StaleRowsAreReported` (`DatedInvariant`): a row whose date does not show it stale was made
  from inputs nobody has touched since (`Untouched`), also by requests that have read them but
  not stored yet.
* `ResumesStayWithApplications` (`ApplyInvariant`), `CandidatesAreAccountedFor`
  (`PeopleInvariant`: unless calls crossed, one is under way and has loaded all applications; other
  services move applications at any time).
* `EventsAreRemembered` (`AuditInvariant`): the lock of a process leaves one thread at the
  index (`AloneAtIndex`), which what it read and what it writes follow (`IndexHolds`).
* `TrailShowsConfigurations` (`HookInvariant`): the last entry about each attribute tells its
  value, or a request that will write that entry is under way (`Told`).
* `SubscribersAreHeard` (`DeliveryInvariant`): a delivery counts its failures and successes.
* `ChangesAreTold`, `ChangesAreMailedOnce` (`FanoutInvariant`): until its producer ends, each
  recipient either has been told or still awaits their turn; there is one mail job per key;
  a mail is sent by the attempt that ends its job, or its worker died.
* `PipelinesAnswer` (`PipeInvariant`), `AssistantsAnswer` (`AssistantInvariant`): what a process
  knows once it is up, and how old an answer being rendered can be.
* `ReportsAreFresh` (`ReadCacheInvariant`): not only entries but values a reader carries from
  the database are of the last announced version, or are marked as overtaken. The size is
  bounded since expired entries go first and then the oldest one.
* `CacheIsCoherent` (`CacheInvariant`): an entry, in Redis or in a copy, is of the last value
  written or expires before its process must have seen the change (`Known`), except in the
  copy of a process that has still to store or drop it; `LockInvariant`: while Redis is up
  and no calls for the lock overlapped, the holder's entry lasts as long as it holds, so
  who finds the lock free finds no holder.
* `IntelligenceFollowsText` (`PostInvariant`): while nothing went wrong one call at a time is
  under way, which is an edit or keeps current what is current.
* `LimitsAreExact` (`LimitInvariant`): the deque is the end of what was let through, all else
  has left the window; so the length of the deque is the number of requests in it.
  `WFMin`, the least element of a set of numbers, shows that the loop ends and where.

`MCServices` gives these modules values and runs one part at a time. `MCServices_proofs`
takes three instances of `Services_proofs` (`First`, `Second`, `Third`: parts of the same module
have different values), shows each part to be the instance's service under another name
(`...Holds`), and concludes the run's own invariants: `TenantsHold`,
`ApplicationsKeepTheirResume`, `MailsAreSentOnce`, `LimitStaysExact`, `WorkspaceFilesKeepItems`,
`StaleIsAlwaysReported`, `TrailStaysComplete`, `AnswersStayUsable`, `FanoutStaysComplete`,
`StaleOnlyByOverlaps`.

### 5.5 Only model-checked

* Liveness (`EverySubmittedJobSettles`, `PublishedJobsSettle`, `SubmissionIsDecided`,
  `PendingResolves`, `WorkIsFinished`): fairness and `ENABLED` are outside the prover.
* `ViewsAreExact`, `LabelsFollowScores` and `ScoresRise`, but for the composite (5.2). The first
  needs that a walk through pages adds up to the list and that sums over rows agree, by
  induction over lists of any length; the library's induction theorems take an operator as a
  parameter, which no backend can instantiate. (Where a least counterexample is enough,
  `WFMin` replaces them, as for the rate limiter.) The others compare scores over the
  thresholds of the code and their neighbours, which are finite lists: TLC evaluates them all.
* The properties of section 4, which the code violates.

## 6. Not modelled

* *Authentication and sessions*: passwords, tokens and role checks decide within one request
  and from its own rows; the models start after a request was let in.
* *Texts*: prompts, parsing of resumes, wording of summaries, mails and reasons. Where their
  outcome matters it is a choice from a small set.
* *Legacy services*: `ai_interview_engine`, `ai_knowledge_prompt_registry`, `hiring_workflow`,
  `decision_engine`, `event_bus`, `background_job` and some twenty more (`PROJECT.json`) are
  reached by no endpoint and no worker; a model would describe nothing that runs.
  `services/cache.py` is in use by the chat and the health check only.
* *The front end and the migrations*: no state of the back end, and generated history.
* *Partly modelled* are the components whose plain queries (text search, public listing,
  timelines, access checks) are left out; their notes in `PROJECT.json` say which.

What would come next: the queue in place of the jobs that `CalendarSync` and `Notifications`
abstract, and proofs of the views that are walked in pages.
