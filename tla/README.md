# QRit in TLA+

A verification project for QRit (a QR-code generator with tracked, editable
codes): TLA+ modules translated from the source, TLC configurations that check
them on small instances, and proofs of the main safety properties, and of most
of what must happen in the end, for instances of every size. Paths are relative
to the repository, line numbers are of the commit this project is kept beside.
`PROJECT.json` maps every definition to its source lines, and lists the runs,
the mutants, the hazards, the findings and the theorems.

## 1. The system

QRit is a Django backend (`src/backend`, PostgreSQL, Redis), the Go services it
replaces step by step (`src/reference/go-v2`: API, redirect, ingest, worker;
PostgreSQL, Redis streams and pub/sub), and a web front end
(`src/frontend`, Next.js). What is hard in it is not computing but concurrency. In
the backend, every request is a few SQL statements in READ COMMITTED isolation,
`ATOMIC_REQUESTS` is not set, so that a statement outside `transaction.atomic()`
commits by itself, and several workers serve the same account, code or workspace.
In the front end no two tasks run at once, but answers come in any order, to pages
that have changed since they asked, and every tab keeps a copy of its own of what
the browser stores.

| Component | State | Operations | Interacts with |
|---|---|---|---|
| Sign-in sessions (`backend/apps/accounts/services.py`) | `sessions`, `users`, reset tokens, the counter `lock:login:<email>` | sign-in, rotation of refresh tokens, sign-out, revocation, password reset and change, OAuth sign-in | row locks in PostgreSQL, Redis |
| E-mail tokens (same file) | `email_tokens` | issue, reissue, use | sessions (reset) |
| Redirect of the backend (`apps/qr/redirect.py`) | `qr_codes` counters, `scan_visitors_daily`, `scan_events` | scan, record | dashboard (edits the same row) |
| Dashboard (`apps/qr/dashboard.py`, `views.py`) | `qr_codes`, `qr_versions`, tags, folders | create, edit, toggle, bulk, delete | redirect (serves the current version), entitlements (quota) |
| Scan pipeline (`go-v2/internal/redirect/emitter.go`, `ingest/ingest.go`) | emitter channel, Redis stream, consumer group, dedupe keys, `scan_events`, rollups, totals | emit, flush, read, claim, store, acknowledge, dead-letter, rebuild | redirect service, Redis, PostgreSQL |
| Link cache (`go-v2/internal/resolve`) | local LRUs, Redis, last-known-good | resolve, evict, invalidate | API (pub/sub), PostgreSQL |
| Job queue and periodic tasks (`go-v2/internal/jobs`) | `job_queue`, `worker_task_runs` | enqueue, claim, run, retry, rescue; lease | every service |
| Approvals (`go-v2/internal/httpapi/approval_handlers.go`, backend triggers) | requests, decisions, held versions | decide, cancel, expire, finalise | versions |
| Audit chain (`worker/audit.go`, `apps/audit`) | hash-chained events | append, verify | all |
| Idempotency, rate limits, flags (`apps/core`) | `idempotency_keys`, sorted sets in Redis, an in-process cache | reserve, replay; count, add; read, clear | requests |
| Workspaces and entitlements (`apps/workspaces`) | members, folders, plans | limits, roles | dashboard |
| Billing, serials, identity, developer (`backend/apps`) | tables | none of their own here | - |
| Sign-in of the front end (`frontend/src/lib/auth.ts`, `api.ts`, `enterprise.ts`) | the tokens in each tab and in localStorage, the renewal under way in each of two HTTP clients | sign-in and sign-out, calls, renewal on 401 or before a token lapses, repetition, forced sign-out | sessions of the backend; every page |
| Workspaces and pages of the front end (`frontend/src/lib/workspace.ts`, `components/enterprise/shell.tsx`, `app/dashboard`) | the list of workspaces, the active one, its entitlements, localStorage; what the mounted page has loaded | load, switch, create, delete, join; gate, load, filter, save | the sign-in (signs out on 401), the backend |
| Other Go services (billing, webhooks, SSO, domains), the rest of the front end, v1 and render references | - | - | - |

What makes each correct, and what is hard about it, is the list `hazards` of
`PROJECT.json`, with the properties that catch it going wrong. In short:

- **Sessions**: a refresh token is honoured once; a revoked sign-in stays
  revoked; the account lock holds. Hard: two requests with one token, an UPDATE
  of many rows whose snapshot misses a row committed meanwhile, an exception
  that rolls back the revocation it reports, transactions that lock the users row,
  session rows and a unique index in different orders, a lock on the account that is
  read from a store which may fail.
- **Redirect**: counters agree with events, a visitor is unique once a day, the
  scan limit, and no failure of recording stops a redirect. Hard: gates decided
  on a row read earlier, an insert that waits for another transaction, which may
  roll back.
- **Dashboard**: dense, append-only version histories, a current version of the
  code's own, short codes that are never reused, deletions that last, the plan's
  quota. Hard: read-then-write in separate transactions, edits refused half-way.
- **Scan pipeline**: exactly-once effect on at-least-once delivery. Hard:
  writes that fail after they happened, crashes between commit and
  acknowledgement, batches claimed from a consumer that is only slow, messages
  acknowledged as dead by a consumer that did not get them.
- **Job queue**: a job is executed by one worker at a time unless one outlasts its
  lease, a bounded number of times, and finishes. Hard: a rescue that takes a job
  from a worker which may only be slow, late results that name the row by its id
  alone, a unique index that refuses some of them.
- **Sign-in of the front end**: the server takes a second use of a refresh token
  for theft and revokes the sign-in, so the browser must exchange each token once,
  keep the newest, and leave no call waiting. Hard: many calls that meet 401 at
  once, two clients that know nothing of each other, other tabs, answers that are
  lost.
- **Pages of the front end**: what is shown and what is saved is of the workspace
  that is active. Hard: answers of the workspace before, closures that remember it,
  pages that read it from localStorage, a list that arrives after its account left.
- **Without a model**: cache invalidation racing a fetch; leases that outlive
  their task; two approvers who do not see each other; a rebuild that loses a
  concurrent batch; e-mail tokens that are reissued at the same time.

## 2. Modules

| Module | Models | Definitions correspond to |
|---|---|---|
| `SignIns` | abstract: a sign-in is a line of refresh tokens, none exchanged twice or after the end | what `refresh_session` and the endings of sign-ins promise to a client: how many tokens each sign-in had, how many were exchanged, which ones are over |
| `Sessions` | the sessions of one account | one action per SQL statement, or per group of statements of a transaction that nobody can see between; `pc` is the place in the request, `arg` its session or token, `rowLock`/`userLock` the locks of open transactions, `snap` the snapshot of a running UPDATE, whose rows `LockRow` locks one by one; `Deadlocked` is PostgreSQL's choice of a victim |
| `SessionsProofs` | its theorems, and that it implements `SignIns` | |
| `Redirect` | `/r/<code>` for one dynamic code | `scan` (gates), `RecordVisitor` (the `ON CONFLICT` insert, which waits), `RecordCommit`, `RecordFail` (rollback, swallowed), `Change` (any edit by the owner), `Midnight` |
| `RedirectProofs` | its theorems, and that it implements `ScanCounts` | |
| `ShortLinks` | abstract: a short code leads to one destination from the step that gives it out to the one that withdraws it, for good | what `dashboard.py` and the bulk delete promise to whoever prints a code |
| `Dashboard` | the codes of one workspace | `create` (`CreateCheck` ... `CreateCommit`, with the retries of `_save_with_unique_code`), `update` (`UpdateRead` ... `UpdateSave`), toggle, delete, bulk actions |
| `DashboardProofs` | its theorems, and that it implements `ShortLinks` | |
| `ScanCounts` | abstract: scans are recorded once and counted in the same step | the package comment of `ingest.go`; `record_scan` of the backend keeps it too |
| `ScanIngest` | emitter, stream, consumer group, dedupe, batch, dead letters | one action per Redis or SQL command of `Emitter.Run`, `Consumer.Run`, `Process`, `WriteBatch`; of `Reclaim` the listing (`List`), each claim (`ClaimDead`, `ClaimRetry`), each dead letter (`toDLQ`) and the acknowledgement (`AckDead`) |
| `ScanIngestProofs` | its theorems, and that it implements `ScanCounts` | |
| `JobRuns` | abstract: a job is in the hands of one worker at a time, and of one more for each lease that ended in somebody's hands; a settled job is not begun again unless a late worker puts it back | what `claim`, `execute` and `rescue` promise to the handlers |
| `JobQueue` | the rows of `job_queue` and the goroutines that run them | one action per statement of `jobs.go`: `Enqueue`, `claim`, the results of `execute` (`Complete`, `Snooze`, `Fail`, `Retry`, and `Refuse` where nothing is written), `rescue`, `Prune`; `Lose` is the end of a worker, `Due` and `Tick` the passing of time |
| `JobQueueProofs` | its theorems, and that it implements `JobRuns` | |
| `BrowserSession` | the tabs of one browser, their stored tokens and calls, and the server as they see it | one action per answer or act of the user: `SignIn`, `SignOut`, `Send`, `SendRenewing` (the request interceptor of `api.ts`), `Unauthorized` (401), `Renewed` and `NotRenewed` (the answer to `/auth/refresh`, with all that waited for it), `Reload`, `Lose`; of the server `Serve`, `Rotate`, `DetectReuse`, `Lapse` |
| `BrowserSessionProofs` | its theorems, and that its server implements `SignIns` | |
| `DashboardPages` | a table: of each of the 20 pages of the dashboard, who may see it, where it takes its workspace from, what it loads and where its buttons send | the pages under `app/dashboard` |
| `WorkspacePages` | the workspace store of one tab and the page it shows | `load`, `setActive`, `refreshEntitlements`, `reset` of the store; `WorkspaceGate`, `useResource` (`Mounted`, `Refetched`, `Fetched`) and `useMutation` (`Press`, `Saved`) of `shell.tsx`; what a page takes as its workspace (`Take`); `Rendered`, the last part of every action that changes the store, is what React does about it |
| `WorkspacePagesProofs` | its theorems | |
| `MC...` | instances for TLC | |

Definitions headed *Mutation* are plausible bugs, each put in the place of the
definition that follows it or that it names, to see that the property it belongs
to fails.

Four abstract specifications say what a component promises to the others, and six
refinements that it keeps the promise; each concrete module has the mapping (the
operators substituted in `Promise`) and `Implements` among its properties:

| Promise | Kept by | Mapping |
|---|---|---|
| `SignIns` | `Sessions` | of each family: the number of its rows, of those that have a successor, and whether all are revoked |
| `SignIns` | the server inside `BrowserSession` | the number of the newest session, one less, and whether the sign-in was ended |
| `ScanCounts` | `ScanIngest`, `Redirect` | the rows of `scan_events`, and `total_scans` |
| `JobRuns` | `JobQueue` | the state of the row, the workers that have the job, and the leases they outlasted |
| `ShortLinks` | `Dashboard` | the short codes in the table, and the destination of the current version of the code that has it and is not deleted |

`SignIns` is where the two halves of the sign-in meet: `BrowserSession` has a server
of its own, reduced to what a browser can tell, and both that server and the database
under `Sessions` behave as `SignIns` allows.

From a promise follows what its users rely on, and the theorems draw it from the
refinement: a sign-in has exactly one token that was not exchanged (`OneTokenLeft`), a
short code leads to one destination at most (`OneDestination`), and to none again once
withdrawn (`WithdrawnForGood`). `OneHand` of `JobRuns` is `OneWorkerPerJob` of
`JobQueue`, which is proved of it directly.

Abstractions, per module:

- `Sessions`: passwords are abstracted to "the request knows the password" (a
  nondeterministic outcome), tokens to the row they name, time to ticks. A
  request's transaction is visible from the action that commits it. Ids are those
  of the rows in the order in which they become visible, and no definition or
  property compares them: the code makes a uuid7 before it commits. An UPDATE of
  several rows takes its snapshot, locks the rows in any order, waiting for each,
  and writes when it has all; one that is going to be rolled back does the same
  with the lock on its first row held. Of requests that wait for each other in a
  circle any one is ended and rolled back (the caller sees an error). Redis may
  fail at every use: the account lock then reads as open, and counts and clearings
  are lost. Provider calls of OAuth are external; their outcome is any. IP rate
  limits are not modelled (they only refuse).
- `Redirect`: the refusals (paused, not started, expired, limit, password) are
  one outcome, recorded alike. `starts_at` and `expires_at` are the flag `open`.
  A code without a current version does not occur: creation commits both, and
  `CurrentIsOwnVersion` of `Dashboard` checks it.
- `Dashboard`: names, designs, folders, tags, the payload of static codes and
  passwords are left out: last writer wins, and nothing modelled depends on
  them.
- `ScanIngest`: one code; rollups, uniques and the velocity limit are fed by the
  same rows in the same transaction as the total, and are left out; trimming of
  the stream at 5 million messages does not happen. Redis and PostgreSQL do not
  lose what they acknowledged. The age of a pending message is a flag that may be
  set at any time after its delivery and is reset by a claim. The delivery count
  stands at `MaxDeliveries + 1` for that and more, since it is only compared with
  `MaxDeliveries` (a claim of dead messages raises it further). The dedupe calls
  for a batch, one pipeline, are one action (`Enrich`): what is lost is a pipeline
  interleaved with that of another consumer or with the end of a dedupe window,
  where duplicates are decided scan by scan; the total is exact for any outcome.
- `JobQueue`: kinds, queues, priorities and order choose among the due rows; here
  any choice is possible. A claim of several rows is one `claim` per row, since
  `Run` gives each to a goroutine that is free when it claims (`RunOnce`, which
  executes a batch one after the other, is for tests). All jobs have the same
  `max_attempts`. Nothing is assumed of the pace of a worker: `context.WithTimeout`
  does not stop a handler, and the result is written without a deadline, so a
  worker may be there at any age of its row, also after the rescue, and writes its
  result whatever the row has become. What a handler returned is known to its
  worker alone until the UPDATE, so that both are one step. `late` counts the
  leases that ended while a worker had the job, bounded by `MaxLate`. Backoff and
  snoozes are a row that is not due, and becomes so. The state `cancelled` is set
  by nothing.
- `BrowserSession`: a task of JavaScript runs to its end, so an action is one answer
  or one act of the user with all that follows. A token is the number of its session
  in its sign-in. The server is external, reduced from `Sessions`: a sign-in is a
  line of sessions with one end; a token that is not the newest revokes it, unless
  the two calls met in the database (finding 2). There are no clocks: an access
  token may lapse at any moment, and whether it is about to is any. What an answer
  is, other than 401 or not, is left out, and so are the forms of the auth pages.
- `WorkspacePages`: one tab. Of a page one resource is followed, any of them; what
  is typed or picked is one of a few queries; what an answer has in it is the
  workspace and the query it was asked for. Forms and what is drawn are left out.
  Roles and features are those of a workspace, whoever looks at it. A button of a
  page stands for all buttons of that page that send alike.

## 3. Runs

| Run | Instance | Shows |
|---|---|---|
| `sessions` | 2 requests, 3 sessions, 1 reset token, clock 0..1, lock after 1 failure, 1 sign-in that cannot read it | at most one live session per family, families are lines of rotations with one expiry, refinement of `SignIns`, the lock is overshot by less than the requests in flight and the sign-ins that could not read it, every waiter waits for one that has what it needs, and circles of waiters are of the known kinds (deadlock is checked as well: PostgreSQL breaks them) |
| `sessions_reset` (violation) | the same, clock 0..2 | a session committed after the snapshot of the reset's UPDATE survives the reset |
| `sessions_reuse` (violation) | the same, clock 0..2 | the revocation under the row lock is rolled back by the error that announces it |
| `redirect` | 2 requests, 3 scans, 1 visitor and 1 bot, 2 days, a set of rows that covers each gate | counters, uniques, bounded overshoot of the limit; every scan that passed is served |
| `dashboard` | 2 requests, 3 codes, 2 short codes, 2 destinations, 3 versions, quota 1 | the properties of the codes listed above, refinement of `ShortLinks` |
| `dashboard_quota` (violation) | the same | two creations exceed the plan |
| `scan_ingest` | 2 consumers, 2 scans of one visitor, 2 messages, 1 delivery before dead-lettering | each scan is recorded and counted once (refinement of `ScanCounts`), a delivered message is lost in two ways only |
| `scan_ingest_live` | 2 consumers, 1 scan that decode rejects, 2 messages, batches of 1, 1 delivery | every message is settled; types, and what can be lost, with the dead letters of `decode` |
| `jobs` | 2 workers, 2 jobs, 1 key, 2 attempts, 1 snooze, 1 lost run, 1 lease outlasted | bounded runs, results refused only of a job whose worker was late, the workers of a job against its leases (refinement of `JobRuns`), and every job finishes |
| `jobs_attempts` (violation) | the same | a job rescued in its last attempt is retried |
| `browser_session` | 1 tab, both clients, 2 calls, 2 sign-ins of 2 sessions, 2 mishaps or sign-ins | one client of one tab never sets off the reuse detection unless an answer is lost or an old token is loaded; no tab keeps a token it exchanged; no call waits for a renewal that nobody makes; every call ends |
| `workspace_pages` | 2 workspaces, 2 accounts, 12 of the 20 pages, 2 queries, 2 lists under way, 2 events | panels show the active workspace and the last query; whose list the store has |

**Why the bounds are enough to be of interest.** Two requests are what every
hazard of the list needs (a second actor between two steps of the first);
three sessions allow a rotation, its successor's rotation and a second family;
three scans allow a unique, a repeated and a late scan with a limit of one;
three versions allow two edits to meet on one number and to be refused; two
messages allow one scan to be written twice and one batch to hold two; one
delivery before dead-lettering makes a claim, its failure and the dead letter
happen; two jobs contend for one key, one lost run lets a rescue meet a
retry, a snooze and another job with the same key, and one lease that is outlasted
lets a late result meet each of them. One sign-in that cannot read the lock and one
failure that sets it let the count pass the limit by both. In the browser, two calls are what a shared renewal needs, two clients are those
there are, and two sessions of a sign-in let a token be replaced and then reach
its end; further tabs differ from a second client only in what they read from
localStorage, and the proofs of `BrowserSessionProofs` cover any number of them
(the invariant was checked with two tabs as well, which takes too long for a run).
Two accounts and two workspaces are what a list or a call that goes astray needs;
the 12 pages are one of each kind, and the other 8 differ from one of these in
nothing that a state tells apart.
Beyond these sizes the safety properties that matter most are proved
(section 5). Bounds on counters (`MaxSessions`, `MaxTime`, `MaxScans`, `MaxDay`,
`MaxBlind`, `MaxCodes`, `MaxVersions`, `MaxMessages`, `MaxJobs`, `MaxLosses`,
`MaxSnoozes`, `MaxLate`,
`MaxFamilies`, `MaxEvents`, `MaxCalls`) are guards of the actions that would
exceed them, and named as bounds where they are declared. `CHECK_DEADLOCK
FALSE` is given where the bounded system may stop: `Redirect` when its scans are
used up, the runs of `ScanIngest` and `JobQueue` when their messages and jobs
are, and `WorkspacePages` where its events and calls are.

**Symmetry** is used over requests, consumers, short codes and destinations in
runs without liveness only; none of them is distinguished by a definition.

**Fairness.** `Redirect`: weak fairness of the steps of each request that has
begun (a worker runs a request to its end, by commit or by the exception it
swallows); nothing is assumed of scans arriving. `ScanIngest`: weak fairness of
`Process` for each consumer (a step that hangs ends by its context, and then
fails) and of each message's growing old; strong fairness of reading and of listing
what is old (between batches the loop of `Run` always comes back to XREADGROUP, and
every 30 seconds to `Reclaim`, but a consumer is not always idle), and of the two
claims, which do not fail for ever; and `CarriedThrough`: if dead messages are
claimed for ever, some claim is followed by its acknowledgement, that is, the
consumers do not crash for ever between the two. No step is assumed to succeed
otherwise: each attempt may fail, and the number of deliveries ends it.
`JobQueue`: weak fairness of time, of the rescue and of the claim of each job
(`Run` polls for ever; among a bounded number of jobs none is overtaken for
ever), and of each worker's way from claim to result, however long it takes.
Losses, snoozes and outlasted leases are bounded, not fair: without these bounds a
job need not finish, since each rescue gives it another run.
`BrowserSession`: every call ends, by an answer or by an error, and is handled when
it does (weak fairness of `Answer` for each call, and of `Settle` for the renewal
under way in each client of each tab). Browsers end a call whose connection is
lost; neither client sets a timeout, so a server that accepts a call and never
answers is excluded. Nothing is assumed of the user.
The safety runs of `Sessions`, `Dashboard` and `WorkspacePages` need no fairness.

## 4. Findings

- **A session survives a password reset** (`sessions_reset`). `reset_password`
  ends the sessions in the snapshot of its UPDATE (`services.py:534`). A
  rotation that holds the row of the old session makes the UPDATE wait, commits
  its new session, and the UPDATE skips the old row (revoked now) and does not
  see the new one. Same for a sign-in under way. The docstring at
  `services.py:498` says "revoke all existing sessions".
- **A reuse report that is not true** (`sessions_reuse`). Under the row lock
  `refresh_session` revokes the family and raises inside `transaction.atomic()`
  (`services.py:373-382`): the revocation is rolled back with it, and the answer
  says "all sessions in this family were revoked". The test before the lock
  (`services.py:362`) does revoke.
- **The quota is not serialised** (`dashboard_quota`). `docs/v3/QRit_v3_Plan.md`
  asks for an advisory lock around the quota check; `dashboard.create`
  (`dashboard.py:257`) counts outside its transaction and takes none.
  `QuotaOvershoot` shows how far it can go.
- **Exhausted jobs are retried** (`jobs_attempts`). `rescue` (`jobs.go:301`) makes
  a stuck row available whatever its attempts, and `claim` (`jobs.go:233`) does
  not compare them with `max_attempts`; only a result that is written does
  (`jobs.go:284`). The migration (`00003_worker.sql:6`) says "jobs that exhaust
  their attempts stay as 'failed' for inspection". A job that kills its worker is
  run without end; `RunsAreBounded` counts by how much.

Two more places where the code does not do what the repository says, for which there
is no run:

- **Dead messages can be lost.** "messages delivered more than MaxDeliveries times go
  to the DLQ" (`ingest.go:145`, and `docs/v2-blueprint/QRit_v2_Blueprint.md:1680`).
  `Reclaim` acknowledges every id it has listed as dead (`ingest.go:569`), not those
  XCLAIM gave it. Two consumers list a message; one claims it and crashes, or does
  not get the answer; the claim of the other gives nothing, and its XACK takes the
  message off the pending list: it is neither stored nor in the dead letters.
  `DeliveredIsKept` is this claim; TLC finds it violated within 16 states on the
  instance of `scan_ingest`. What does hold is `AcknowledgedIsKept`: this is one of
  two ways only in which a message can be lost (the other one: it is acknowledged so
  while the consumer that claimed it has it in hand, and that one fails before it has
  stored or dead-lettered it). With one consumer nothing is lost, which is proved
  (`OneConsumerLosesNothing`).
- **Pages with a workspace of their own.** `workspace.ts:4-7` says "The active workspace
  now lives here, persisted, and every page reads it". The settings page takes the
  first of the list (`settings/page.tsx:25`), the leads page that of localStorage
  (`leads/page.tsx:56`), and `useMutation` the one of its first render
  (`shell.tsx:71`): they send calls to a workspace that is not the active one.
  `WorkspacePages` records them (`StraysAreKnown`, proved as `NoOtherStrays`, says
  which pages they come from, and which do not stray).

The code behaves as follows where nothing in the repository says it should not (but
for the pages above), so that no run claims it. The models include each of these
unless it is marked.

- `enterprise.ts:66-70`: a renewal without a refresh token returns before the `try`
  whose `finally` clears `refreshInFlight`. From then on every 401 of that client
  signs the tab out until the page is loaded anew (`broken`).
- A renewal under way at sign-out puts the new tokens into the store: the tab is
  signed in again (`Renewed` after `SignOut`).
- The failure of a renewal signs out whoever is signed in by then (`NotRenewed`).
- Two tabs, or the two clients of one tab, renew for themselves: the later one sets
  off the reuse detection and the sign-in ends (the exceptions of
  `OneClientIsNoReplay`).
- `useMutation` (`shell.tsx:71`) keeps the first closure it is given: the codes
  selected on one workspace, team invitations and exports go to the workspace that
  was active when the page was mounted, and forms post what they held at first (the
  latter not modelled). Pages with a feature at their gate are saved by the gate,
  which closes while the entitlements are loaded.
- A request that answers a reused token can end in a deadlock with another such
  request, with a reset, a password change or a securing sign-in, and so can a first
  provider sign-in with a securing one; one of the two is answered with an error
  (`CirclesAreKnown`: there are no other circles).
- A retry that is written late runs a job again that another worker has completed
  or failed (`jobs.go:290`), or is refused by the unique index and lost.
- The campaigns of the list of codes are loaded by the entitlements of its first
  render (`qr-codes/page.tsx:84-87`): with those still under way they are not fetched
  (not modelled).
- A sign-out forced by 401 does not reset the workspace store, a list under way at
  sign-out is stored for the next account, and the answer of entitlements is stored
  for whichever workspace is active by then (`StoreIsOfAccount`, `Entitled`).
- The settings page does not look at the answer to deleting a workspace
  (`DeleteWorkspace`), and sign-out leaves `qrit_active_workspace` (`SignOut`).
- The branding form can be saved before its record has arrived, and then overwrites
  it (not modelled).

## 5. Proofs

All proofs are checked by TLAPS, for every value of the constants that meets the
module's named assumption (`SessionsAssumption`, `RedirectAssumption`,
`DashboardAssumption`, `IngestAssumption`, `JobQueueAssumption`,
`BrowserSessionAssumption`, `WorkspacePagesAssumption`: finite sets of requests or
scans, positive limits, disjoint sorts; the runs evaluate them).

- `SessionsProofs`: `TypeCorrect`; `AtMostOneLive` (`OneLivePerFamily`);
  `RotatedRowIsLive` (`RotationHoldsLiveRow`); `NoRevival` (`DeadFamilyStaysDead`, an
  action property); `FamiliesAreLines`, `RotationsDoNotExtend` and `LockHolds`;
  `SessionsImplement` (the refinement of `SignIns`) and from it `OneTokenIsLeft`;
  `DeadlocksAreKnown` (`NobodyIsStuck` and `CirclesAreKnown`).
  `OneLivePerFamily` is not inductive: a rotation could insert a second live
  session if the one it replaces were not the family's live one. `IInv` adds that
  a transaction about to rotate holds the lock of a live row
  (`RotationHoldsLiveRow`, itself kept because every writer of a row waits for
  its lock), that a family's root is in the table (so that a fresh id is in no
  family) and the types of the requests' locals. `LInv` adds to it, for the line of
  a family and its expiry, that a row that is not there has no successor: the live
  row that a rotation replaces has none yet, since a row with a successor is
  revoked. `LockHolds` needs the types alone: a sign-in is let in below the limit or is
  counted as one that could not read it, and each of those under way counts once.
  For the refinement, `TableSteps` reduces every step to three: no row is inserted,
  a sign-in is, or a rotation is. The first ends sign-ins, the second begins one and
  may end others (`SecureCommit`), and the third is a `Renew`: the row it
  replaces has no successor (`RotationHoldsLiveRow` with `FamilyIsALine`), so that
  exactly one more token of the family is exchanged, and the family is not over.
  `WInv` is for the waiters: who holds a session row's lock is rotating it or updates
  several of which it is one (`RowHolders`), who holds the users row's lock updates
  sessions with it or has done so (`UserHolder`); ids are given out without a gap
  (`Dense`), and the bound on the table keeps one for each request that was admitted
  (`Reserved`: so the bound blocks nobody half-way). Hence a request that cannot go
  on waits for another's transaction. For the circles: in one without an answer to a
  reused token and without a first provider sign-in, everyone who is waited for has
  the users row (`WaitedForHasUser`: a rotation waits for nothing once it has its
  row); only one request has it, and it does not wait for itself.
- `RedirectProofs`: `CountersAgree`, `VisitorsAreUniqueOnce`,
  `OvershootIsBounded` and types. `IInv` adds that requests under way have ids of
  their own, that no event has (so a commit adds exactly one event), that the
  open transactions agree with `scan_visitors_daily` (`VisitorsAgree`: the row
  of a unique one is not there and is nobody else's; the row of one that counts
  and is not unique is there), and that the row's limit is among those granted.
  `RedirectImplements`: a commit is a `Record` of one scan (its id is no event's),
  and every other step, a rollback included, stutters.
  `ScansAreAnswered` (`RedirectsAreServed`): a scan that passed the gates goes through
  two stages at most, the insert of the visitor and the commit, and each ends, in a
  record or in its failure, without losing the destination it was given
  (`ScanSteps`).
- `DashboardProofs`: every property of the run: `OvershootIsBounded`
  (`QuotaOvershoot`, from the types alone: a creation is admitted below the
  limit, and at most the other requests are creating then), `NumbersHaveNoGap`,
  `AlwaysLeadsSomewhere`, `RefusedIsNeverServed`, `ShortCodesStayUnique` and the
  action properties `PrintedCodeIsStable` and `NoReturn`. `IInv` adds what each
  request carries at its stage (`Requests`: the number of a version about to be
  inserted is one above a number the code has, so that the UNIQUE constraint
  leaves no gap), that a version not yet current belongs to one request that has
  not been refused (`SavingIsAlone`: else an edit could publish the version of a
  refused one), and that a short code being inserted is held by one request.
  `DashboardImplements`: a creation gives a short code out together with its first
  version; the save of an edit repoints it, or stutters when the code was deleted
  meanwhile; deletions withdraw. It needs that short codes are unique (or an edit of
  one code would move another's), and that a version is known by its code and
  number (`VersionsAreKnown`, or a code would lead to two destinations).
  `LeadsToOne` and `WithdrawnIsForGood` follow from it.
- `ScanIngestProofs`: `ScansCountOnce` (`TotalIsExact`), `LossesAreKnown`
  (`AcknowledgedIsKept`, an action property), `IngestImplements` (the refinement of
  `ScanCounts`), `OneConsumerLosesNothing` and types. `IInv` adds that a consumer
  makes one row of a scan (`RowsDistinct`: else one batch could insert an event
  twice), that an enriched batch has a row, and a stored batch a stored row, for
  every valid message (`BatchHasRows`), and that what is acknowledged as invalid or
  dead was written to the dead letters before (`BatchIsWritten`); without these an
  acknowledgement of a message in hand could lose it. The steps that record are
  `WriteBatch` only; every other step stutters. For one consumer `Alone` adds that
  what it listed or has in hand is pending, and what it listed still old: nobody
  else claims or acknowledges it, so a claim gives all that was listed.
- `JobQueueProofs`: every safety property of the run (`TypeCorrect`,
  `RunsStayBounded`, `ResultsStayTaken`, `QueueImplements`), `ExecutionIsExclusive`
  (`OneWorkerPerJob`) and the action property `NoRerun` (`FinishedStaysFinished`).
  None is inductive alone. `IInv` adds `Held`: the workers of a job are at most one
  more than its outlasted leases, and one less where the row is not running; and
  `Accounts`: the runs of a job are its attempts and snoozes; its workers and retries
  are no more than its attempts (so an attempt given back is one that was taken); the
  workers that are not in their last attempt, with the retries, are fewer than
  `max_attempts` (so a late retry, which may be written over anything, puts a job back
  no more often than it has attempts); and the attempts are no more than one, the
  retries and the rescues. The bound on the runs follows from the last three.
  `QueueImplements`: a claim is a `Begin`, because by `Held` the row it takes, which is
  not running, is in no more hands than leases that were outlasted; every result, a
  late or a refused one included, and every loss is a `Leave`; `Tick` is an `Outlast`
  of the jobs whose lease ends in somebody's hands; a rescue stutters.
- `BrowserSessionProofs`: `TypeCorrect`, `SpentTokensAreDropped` (`NoSpentToken`) and
  `OneClientIsSafe` (`OneClientIsNoReplay`), for any number of tabs and calls.
  `IInv` adds `Protocol`: a client of a tab has one renewal under way at most
  (`SingleFlight`); as long as one client alone renews a sign-in, its call presents
  the newest token (`Sole`), and its tab has that token in the store or will have it
  from an answer under way (`Kept`); the token an answer brings is nowhere yet
  (`AnswersAreNew`), and none is ahead of the server (`Known`). The
  sign-ins in which two clients or tabs ask, and those with a lost answer, are
  excluded, as in the property. `BrowserSessionImplements` (the refinement of
  `SignIns` by the server) needs the types alone. It is not in a run, for time;
  TLC found it to hold on the instance of `browser_session`.
  `NobodyForgotten` (`NobodyIsForgotten`): a call begins to wait only where a renewal
  is under way or with one of its own, and the answer to a renewal, or the reload
  that drops it, takes along all that waited for it. `CallsEnd`
  (`RequestsSettle`): a call is sent, answered, perhaps waits for a renewal and is
  sent once more; it waits for one renewal only (`OneRenewal`, `WaitsEnd`), which
  ends by the fairness of `Settle`, and the second attempt is its last
  (`AnswerSteps`).
- `WorkspacePagesProofs`: `TypeCorrect`, `PanelsFollow` (`PanelsAreCurrent`), `NoOtherStrays`
  (`StraysAreKnown`, in no run) and `StoreFollowsAccount` (`StoreIsOfAccount`), for any
  workspaces, accounts and plans and all 20 pages, whose table is proved to have
  what is needed of it (`Table`). `IInv` adds that a panel waits for nothing but
  what it wants now (`PanelWaits`: what is late was cancelled), that a page with a
  feature at its gate has the active workspace since it was mounted
  (`GateRemounts`), that nothing is kept by a page that is not mounted (`Shape`),
  and that one list is under way at a time, while the gate is closed
  (`OneListing`: else a list could change the active workspace under an open gate).

**Proofs of what must happen in the end.** `ScansAreAnswered` and `CallsEnd` are
drawn, by temporal logic, from the fairness that section 3 justifies and from what
single steps do. TLAPS does not look into `ENABLED`. That a fair step can be taken
where the argument needs it is therefore a hypothesis with a name, always that it
holds in all states of the behaviour:

| Theorem | Hypothesis | How it is known |
|---|---|---|
| `CallsEnd` | `StepsAreEnabled`: what was sent can be answered, what is being renewed can end | half of `CallsGoOn`, checked by `browser_session`; the other half is proved (`NobodyForgotten`) |
| `ScansAreAnswered` | `ScansGoOn`: a request under way can take a step | in no run: `RecordFail` has no other guard than that the request is under way |

Model-checked only:

- `JobsSettle`: the argument is an induction over the attempts, losses, snoozes
  and jobs that are left, and the provers have no induction over temporal formulas.
- `MessagesSettle`: the same induction, over the deliveries that are left.
- What is about `ENABLED`: the second half of `CallsGoOn`, and that of
  `WaitersAreServed`: `DeadlocksAreKnown` proves the rest, where `CanProceed` stands
  for what enables a request, and the run checks that it does.

Proved, and in no run: `TotalIsExact` and `OneWorkerPerJob`, which say what the
refinements of `ScanCounts` and `JobRuns` say of the state; `RotationHoldsLiveRow`,
`DeadFamilyStaysDead`, `FinishedStaysFinished` and `DeletedStaysDeleted`, in whose place
the runs check refinements that say most of the same and more; `DeliveredIsKept` for
one consumer; `StraysAreKnown`; and the refinements of `ScanCounts` by `Redirect` and of
`SignIns` by `BrowserSession`.

## 6. Not modelled

- **Link cache, rollup rebuild, periodic tasks, approvals, e-mail tokens, audit
  chain, idempotency keys, rate limits, flags**: components with state and with
  hazards, listed in `PROJECT.json` where they bite. They are smaller than those
  modelled, and what the properties above say is said without them. The rebuild is
  not for display only: it replaces the rollups of a day by what it read before it
  deleted them, and in the same transaction overwrites `qr_codes.total_scans` with
  the sum of the rollups (`ingest.go:611`). A batch that commits in between is lost
  from the rollups and from the total: `TotalIsExact` is about ingestion alone, until
  a rebuild. The cache is read for the redirect's target, the rest refuses or delays
  requests.
- **Limits of workspaces** (`apps/workspaces`): counted before the insert as the
  quota of `Dashboard` is, with the same overshoot.
- **Billing, webhooks, single sign-on and domains of the Go services**, and tables
  of the backend without operations of their own.
- **The rest of the front end**: landing and marketing pages, markup, styles, charts,
  the preview and customisation of a code. This is most of its lines, and they draw
  what they are given; the state they have is that of one form in one component. Several
  panels under `components/dashboard` and `components/layout` are imported by no
  page. `src/reference/v1-frontend` is a near copy of an earlier state of it.
- **The v1 references and the render service**: superseded by the backend, or a pure
  function from a design to a picture.
- Registration creates an account and with it the first session, which is the state
  `Sessions` starts from. E-mail, provider calls and payment are external.

Most lines of TypeScript in the repository are markup of this kind, so the part of
them that the models stand for is small by the count of lines, and the part of the
state changes that they make is not: the stores, both clients, the hooks and the
loading and saving of every page of the dashboard are in `BrowserSession`,
`DashboardPages` and `WorkspacePages`.

## 7. What could come next

1. `RollupRebuild`, composed with the batch transaction of `ScanIngest`: `Rebuild`
   against a live ingest (the comment at `ingest.go:585` says it is safe; it
   reads before it deletes).
2. `LinkCache`: resolve, single flight, Redis, negative and last-known-good
   entries, invalidation; abstract specification: a register of bounded staleness.
3. `PeriodicTask`: the lease that ends when the task's timeout does and is cleared
   by whoever finishes (`periodic.go:146`).
4. `Approvals`: decisions under the request's row lock, with a count from the
   statement's snapshot; abstract specification: n distinct approvers publish once.
5. `EmailTokens`: issue, invalidate, use once, composed with `Sessions`.
