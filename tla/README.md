# Formal model of onsiteAI

onsiteAI records what happens on a building site: expenses and labour against
jobs, evidence (photos, voice, documents), Site Log captures and tasks. A
FastAPI / async SQLAlchemy / PostgreSQL backend (`backend/`) serves an Expo
React Native app (`mobile/`) and a React admin console (`admin/`). This
directory holds TLA+ modules for the parts of it that are hard to test: the
protocols between a phone on a bad network, a server that may die between two
transactions, an object store, and administrators who intervene.

Paths below are relative to the repository root; `PROJECT.json` gives for every
definition the source lines it stands for, and for every hazard the line where
it bites.

## 1. Inventory

### Backend

| Part | State | Operations | What is hard | What makes it correct |
|---|---|---|---|---|
| **Site Log upload** `services/site_log/{upload,admin,core,inline}.py` | `site_log_event_attachments` (state, attempt number, Evidence id), `evidence`, the event's `capture_status` and `job_id`, audit rows, objects in the store | declare's rows, acquire (Txn A), stream, complete (Txn B, three tries), fail, admin reset, finalize, assign / relink job | three steps of one request with no lock between them; crash at each; retries; resets of uploads that are only slow; lost commit acknowledgements | manifest, Evidence and audit agree; stored rows name published objects of their own last attempt; late requests are inert; complete means every row stored; a value is written once |
| **Site Log declaration** `services/site_log/capture.py` | event, revision 1, manifest rows, fingerprint in the audit log | `declare_capture`, inline-text upload, server finalize | replayed and concurrent declares; a crash between the declaration and the inline upload | one event per (tenant, author, capture id); a replay never changes what was declared; the inline row recovers through replay |
| **Evidence storage** `services/evidence_storage.py` | staging and final objects (S3 or files), multipart uploads | `put`, `open`, `exists`, cleanup, error classification | cancellation during the copy or during cleanup; an unknown destination; orphaned staging | a final object's bytes are what its key names; a final is never overwritten or deleted; staging is not leaked by a run that is not killed |
| **Legacy evidence** `services/evidence.py` | `evidence` rows | create in two transactions, link / relink job, stream | no row locks, cancellation leaves `pending` | bound Evidence is never relinked behind its event |
| **Tasks** `services/tasks/` | `tasks`, task audit rows | create (idempotent by client id), update, list | concurrent same-key creates, replay after a lost answer | at most one task per (creator, key); a replay returns the task or 409 |
| **Expenses** `services/expenses.py`, `expense_write.py` | `expenses`, `expense_review_queue`, `expense_audit_log` | create (with 90 s duplicate window), update, soft delete, list by keyset cursor | concurrent retries, edits against a queue row | an expense has at most one open queue row; the split adds up; status and queue agree |
| **Review queue** `services/review_queue.py` | the same tables | resolve, reject | two administrators close one row | a row is closed once |
| **Parser** `services/parser/` | none (reads jobs, suppliers, categories) | tokenise, amounts incl. Chinese numerals, dates, job and supplier match, duplicates, what holds an expense for review | numeric edges, ambiguity; a wrong reading that is confident is saved without a human | what is saved without review is what was meant |
| **Labour** `services/labour.py` | `labour_entries`, `workers` | batch upsert of one day, delete, summarise | two foremen enter the same worker and day | at most 24 h per worker and day; the rate snapshot is written once |
| **Jobs** `services/jobs.py`, `budget_summary.py` | jobs, aliases, budgets, job audit | create, update, aliases, budgets, delete when empty | delete racing an insert; duplicate keys | foreign keys and unique keys are the backstop |
| **Users and sign-in** `services/users.py`, `api/auth.py`, `deps.py`, `core/{security,rate_limit}.py` | `users`; in-process hit lists | invite, promote, demote, deactivate; login, refresh | row locks that do not see rows that join; a stale read of the target | a removal leaves somebody; the cap is passed only by what overlaps |
| **Reports, organisation settings, suppliers** `services/{excel_export,expense_report,org_settings,suppliers}.py` | read-only reports, single-row settings | reads, simple writes | little | - |

### Mobile

| Part | State | Operations | What is hard | What makes it correct |
|---|---|---|---|---|
| **Session** `src/api/client.ts`, `src/store/auth.ts` | tokens in SecureStore and memory, `sessionNonce`, `refreshInFlight` | sign in, sign out, request, 401 refresh, replay | a sign-out and sign-in during any await | a request issued under one account is never sent under another |
| **Site Log submit** `src/siteLog/submit.ts` | the draft and its attachment states | server state, declare, upload each, finalize | lost answers, app death between steps, account change | a draft is dropped only when the server confirmed it; nothing is uploaded twice; stable ids make every step repeatable |
| **Draft stores** `src/store/{siteLogDrafts,keptRecordings,taskPendingCreates,session}.ts` | AsyncStorage lists, files | save, flush, release, logout wipe | a write that is not yet durable; a wipe racing a save | an unconfirmed capture survives everything but an explicit discard |
| **Task create flow** `src/tasks/createFlow.ts` | pending creates | send, classify, resolve, discard | an answer that never came | one key, one task |
| **Expense capture** `app/capture.tsx`, `src/store/failures.ts` | the form, the list of failed captures | submit, refill, dismiss | an answer that was given up; a retry that loses the picked job | a repeated expense is held for review |
| **Screens, offline queue for reads, i18n, UI kit** `app/`, `src/{ui,components,i18n}` | view state | rendering | - | - |

### Admin console, docs, evaluations

`admin/` is a client of the same API with local view state; `evals/`, `docs/`,
`backend/scripts/` and `backend/alembic/` hold tools, text and migrations.

### Interactions

* A phone declares a capture (`POST /site-log-events`), uploads each attachment,
  and finalizes; each request commits its own transactions, and the answer may
  be lost after the commit. The client therefore repeats requests under stable
  ids, and the server replays.
* An upload request runs Txn A, then streams to the object store with no lock,
  then runs Txn B on a fresh session, or the failure bookkeeping. All
  transactions of one event take the event row `FOR UPDATE` first.
* An administrator may reset a row that has been pending for `RESET_MIN_AGE`,
  and may relink the event's job, while an upload is running.
* All mobile requests go through one axios client that stamps the current token
  and session, refreshes once on a 401 and replays.

## 2. Plan

Modules, in the order they are written; the protocols that lose or duplicate a
customer's record if they are wrong come first.

| # | Modules | Question | Status |
|---|---|---|---|
| 1 | `SiteLogUpload`, abstract `CaptureRegister` | crash, retry, reset and relink around one upload | modelled, checked, proved |
| 2 | `EvidencePut` | what a bucket holds when puts overlap, are cancelled and their staging is cleaned up | modelled, checked, proved |
| 3 | `AuthSession` | what a token belongs to when sign-out, sign-in, refresh and slow answers interleave | modelled, checked, proved |
| 4 | `ActiveAdmins` | the last administrator and the cap under READ COMMITTED | modelled, checked, proved: what a removal that counts can rely on; a finding: the last administrator can go |
| 5 | `SiteLogSubmit` | the phone's half of 1: the draft, its submission, app death, session change | modelled, checked, proved |
| 6 | `TaskCreate`, abstract `TaskSet` | the idempotent create from the tap on Save to the server's replay | modelled, checked, proved |
| 7 | `ExpenseReview`, `GstSplit` | edit, delete, resolve and reject of one expense and its queue row; the split of its GST | modelled, checked, proved |
| 8 | `JobRows`, `LabourDay`, `ExpenseCapture`, composed in `JobBooks` | the day batch and its cap, captures and their duplicates, while jobs are archived, reopened and deleted | modelled, checked, proved |
| 9 | `CjkAmounts`, `CaptureText` | what the parser makes of a line, and what it lets through without review | modelled, checked, proved |
| 10 | `LegacyEvidence` | two-transaction create and relink beside a capture's own Evidence | planned |
| 11 | keyset cursor of the expense list, loose dates, budget bands | pure functions against reference definitions | planned |

Composition. 1 takes from 2 what a put promises (an object exists under its
final key once the put has returned), 5 takes from 1 what the server promises
(one event per capture id, a stored row names a published object, complete is
never left), and 5 and 6 take from 3 that a request carries the identity it was
built with. Each promise is a checked or a proved property of the module it comes from.
`CaptureRegister` is the abstract specification of 1: a write-once register per
attachment with a completion flag; `TaskSet` is that of 6: tasks keyed by the
client's id, each made once and for all. In 8 the composition is not of promises
but of steps: `JobBooks` interleaves the actions of three modules over the one
`job` table they share.

Every safety and action property that a passing run checks is a theorem as well;
only the three liveness properties are left to the model checker. The proofs about
expenses, of the line they are captured from and of their review, share the module
`ExpenseProof`. Next come 10 and 11 with runs and proofs of their own.

## 3. Modules and the code

Every module has one action per database transaction, object-store call,
handler or await-to-await stretch of the code, because those are the units that
another actor's step can fall between. Constants are small sets of actors and
named bounds.

### `SiteLogUpload` (backend upload, admin reset, finalize, relink)

State: `event` (`capture_status`, `job_id`), the rows of its manifest `att`
(`state`, `attempt`, `evidence`), the `evidence` table, the last `audit` row of
each attachment, the final `objects`, `aged` rows, and for each request its
program counter with what it carries across its transactions. Actions:
`Acquire` and `AcquireNoWrite` (Txn A and its replays and refusals),
`StreamStored` / `StreamFails`, `CompleteOnce` / `CompleteSuperseded` /
`CompleteRetry` (Txn B, three tries), `FailAttachment` /
`BookkeepingUnconfirmed`, `ResetAttachment`, `FinalizeCapture`, `AssignJob` /
`RelinkJob`, and `Die`. A database error takes effect or does not: the commit
may have happened with only its acknowledgement lost. The event row's lock makes
each transaction one step. Time enters through `RESET_MIN_AGE` only: `Age` may
happen at any moment to a pending row, which covers the upload that is merely
slow.

### `CaptureRegister` (abstract)

What a caller of the upload may rely on: a row goes from empty to one value and
keeps it, and completion is announced only when all rows have theirs.
`SiteLogUpload` implements it (`Capture`, `ImplementsCapture`): the value of a
row is the content of the object its stored Evidence names.

### `EvidencePut` (S3 adapter of the evidence storage)

State: the bucket's `staging` and final objects (`object`), open multipart
`uploads`, each `put` with its program counter, and `sent`, the requests the
bucket has not dealt with. The bucket is external: it serves a request at any
later time or never, whether or not its put still waits, and a put may see an
error whatever became of its request. `Tick` and `GraceOver` are the deadline of
`_supervise_cleanup`. A final key is a hash
of what is under it; prefix collisions are left out, as is the local file
adapter (a rename within one directory), `open` / `exists` and the table that
classifies errors. Each (Evidence, attempt) is put once, so the system stops
and deadlock is not checked.

### `AuthSession` (mobile axios client and auth store)

State: the store's `access` and `refresh` tokens (named by the sign-in they were
issued to) and `sessionNonce`, a `clear()` under way, the single refresh in
flight, and each request with the nonce and token it was stamped with.
JavaScript runs to completion between awaits, so a step is one such stretch.
Secure-store writes and deletes are answered in either order; overlapping
clears count as one; a sign-in starts only when no clear or save of an earlier
one is outstanding. A refused login changes no state and has no action.
`MaxNonce` bounds sign-ins, so a run may stop. The window in which a sign-out
ends a session that began during its own awaits is one the code knows
(`mobile/src/api/client.ts:162`) and is what
`MCAuthSessionSignOut.cfg` shows.

### `ActiveAdmins` (invitation and PATCH of a user)

State: the rows of `users` with role and active flag, and each request's
transaction: what its statements have read, which row locks it has, what it will
write. PostgreSQL's READ COMMITTED is modelled as an external component by the
rules the code relies on: a statement sees one snapshot; `FOR UPDATE` locks the
rows of its snapshot in `user_id` order, waits, and re-reads each row when it
gets it, dropping it if it no longer matches; a lock is kept to the end of the
transaction; SQLAlchemy's UPDATE writes only columns whose value changed since
they were loaded; a deadlock's victim and a lost connection roll back. `Patches`
may set the role, the activity or both, as the API accepts them. The
code promises more than it keeps (`AlwaysAnAdmin` and `WithinCap`, section 7).
What it does keep is about requests that count: where a removal is written,
another administrator is there (`RemovalLeavesAnother`), and those who counted
pass the cap by less than the number of requests (`OverrunIsBounded`). Neither
says more, because some requests see no need to count: two PATCHes, of the role and
of the activity of one inactive contributor, that overlap make an administrator
nobody counted for, whom the history `uncounted` remembers (the changes of
`last_admin` make one, those of `admins` do not). Invitations and PATCHes
are refused without an active administrator, so the system may stop.

### `SiteLogSubmit` (mobile submit, draft store, resume screen, sign-out)

State: the draft in memory and on disk, the running submission with what it has
learned, requests in flight with their answers, the server's event and rows, the
session. Actions follow `submit.ts` await by await: read the server's state,
declare, upload, finalize, persist, and the screen's handlers (Save, Resume,
Discard, sign-out with its question). The server half is what `SiteLogUpload`
establishes: the event of an author and capture id is unique, a row is stored
once. Simplifications that lose no interleaving: one capture with its inline row
and one attachment; a read is answered in one step; identical overdue requests
count as one; AsyncStorage applies writes in order and each carries the latest
draft (`Persist` is the middleware's unawaited write); a modal question blocks
other taps, so asking and confirming is one step over the list fixed at the
question; a refusal happens before its request commits; the two consecutive
patches at the end of a run are one flush. A file that is still in the cache when
a submission begins is rescued in two steps, as in `submit.ts:291-316`: copied to
its place, and then named there by a patch of the draft (`held`). If the app dies
before that patch is on disk, the draft still names the cache, and the file counts
as in the cache again (`AppDies`). Displayed texts and per-attachment
display statuses, `MAX_DRAFTS` and the 401 refresh (in `AuthSession`) are left
out.

### `TaskCreate` (create screen, pending records, server create)

State: the list of pending creates on the `disk` and in `memory`, the `queue` of
disk operations (the store's promise chain), the `app` (the sends, the
questions and the screen with its key and panel), the session, the requests at
the server, the committed tasks, and what the entry and the assignees allow.
Each change of the list is two steps, read and write, and each may fail
(`DiskRead`, `DiskWrite`, `DiskFails`). `Save` and `SendAgain` start a send;
the request leaves in the step that wrote its record, if the session is still
the one it was begun in. `SendAnswered` and `SendUnknown` are the classes of an
answer; `PanelMounts`, `CheckAgain` and `Lookup...` the question; `Discard`,
`Logout`, `SessionEnds` and `AppDies` what may come between. At the server
`Authenticate` loads the user with the role of that moment, and `Replay`,
`Refuse`, `Insert` and `Commit` are what runs under the advisory lock of
(creator, key); a request is inserted for a while before it commits.

Simplifications: one wished-for task of one entry, so a user who was told of the
task does not save again; a form's values are one of two, one of which assigns
to somebody else; what the entry and the assignees allow is a set of values;
"unavailable" is "unknown", which does the same; questions of screens that were
left are merged with a later one about the same key, as are overdue requests of
the same values; the discard question and its answer are one step; the explicit
sign-out is the author's. The other account's record stands for everything else
on the phone. Both exceptions of `NoTwins` are behaviours of the code: `givenUp`
is a record dropped by the user (discard, or an explicit sign-out), which the
dialog warns of; `overtaken` is what
`MCTaskCreateSlow.cfg` shows. After a discard the
form keeps its key, so an edited save may be answered with a fingerprint
mismatch although the key's task exists; this is the `givenUp` of
`SentAsRecorded`. Keys are bounded, so the system stops.

### `TaskSet` (abstract)

What the create of a task promises: a task is made under a key that has none, and
never changes; a second one only once the wish was let go; the user is told only of
what was made. `TaskCreate` implements it (`TaskRegister`, `ImplementsTaskSet`):
what lets go is a record dropped by the user or overtaken by an older request.

### `ExpenseReview` and `GstSplit` (one expense and its review)

State: the committed `expense` row and its `queue` row, the row `lock` and the
requests. A request reads (`Read`,
`ReadQueue`, `ReadExpense`), works on its copy, flushes and commits. The copy is
what matters: SQLAlchemy's UPDATE writes the columns that differ from what was
read (`Changed`), over whatever is committed by then (`Merged`), and the two
CHECKs of the table see the merged row only. `GstSplit` is the arithmetic in
cents, exact for every amount. `marks` records what exempts a property: money
written over money its writer had not seen (`raced`), a status set by hand
(`manual`), an approval (`approved`), and reasons taken away by a patch that
changes no column and so takes no row lock (`loose`); `fixed` are the reasons that
corrections have settled. Supplier, category, notes, receipt and dates decide
nothing here and are left out, as are the lists, which only read, and the audit
rows, which no request reads back: each is written with the statuses its request
saw, a verdict's even if it changes no column (`review_queue.py:317-338`,
`:379-390`), and they are listed by when their transactions began, so the last one
need not tell the status the expense has.

### `JobRows`, `LabourDay`, `ExpenseCapture`, composed in `JobBooks`

`JobRows` is PATCH and DELETE of a job: read without a lock, count what refers
to it in two queries, delete, with PostgreSQL's foreign keys as an external
component (a delete waits for the key shares of flushed inserts and is refused
while a committed row refers to the job). `LabourDay` is one day: a batch reads
its job and the active workers, then takes worker after worker in the order of
their identifiers, each with the advisory lock of (worker, day), the checks and
the change, flushes between them and commits at once; entries are deleted and
workers deactivated meanwhile. `ExpenseCapture` is the capture screen with its
list of failed captures, a client that posts fields, and `create_expense` with
both of its searches for duplicates. `JobBooks` interleaves all of them.

Simplifications: days do not meet; rates, fractions of hours and times are left
out; a contributor's entries are of a day not yet past; two texts never share
supplier and description; the duplicate search of fields, which ignores both and
includes rejected rows, is that of the amount and the job; a delete's wait for
a batch and its foreign key check are one step, so a deadlock of the two, which
PostgreSQL ends by aborting one, is the abort (`JobRollback`, `DayRollback`).

### `CjkAmounts` and `CaptureText` (the capture parser)

`CjkAmounts` is `cjk_amounts.py` over sequences of digits and place markers, and
the ways a number is written and spoken (`Ways`), which are the reference.
`CaptureText` writes a line item by item, with the `prices` that were meant on
the side, and evaluates the whole pass on every line: numerals are rewritten, each
where it stands (a `$` that the code puts before one is its token's `unit`),
the amount is chosen by confidence, its token is withheld from the search for
the job, and suppliers, categories and payment follow. `SavedReviewed` says that
the expense would be saved as reviewed. `CatalogueAssumption` says that the
catalogue is finite, that a job's name has one to eight words (`_MAX_SPAN`: the
code finds no longer one) and that amounts are up to `_MAX_CJK_VALUE`. A `$`
always stands before its price (the text "305$ 20" would read 20); two prices in
dollars of which one has cents are decided for the cents, which the parser
documents, and `QuietIsThePrice` allows; words concatenate without ambiguity;
the catalogue does not change.

## 4. Runs

| Run | Shows | Bounds |
|---|---|---|
| `upload_core` | no interleaving of two requests, an administrator's reset and a relink, with up to three faults, leaves manifest, Evidence, audit and store disagreeing; what a client was told stays true; a superseded attempt changes nothing; the detailed module implements `CaptureRegister` | two requests, an ordinary and the inline row, two payloads, two jobs, `MaxFaults = 3` |
| `upload_liveness` | a pending row is left, and the event becomes complete once faults stop and clients retry | one payload, no job, `MaxFaults = 2` |
| `session` | a request is sent with a token of its own sign-in only, tokens in the store are of one session, a session ends only on its own answers, a request settles | two requests, four sign-ins and sign-outs |
| `admins` | a removal that is written leaves another active administrator; those who counted exceed the cap at most by the number of concurrent writers less one | four users, two requests, cap 2; promotions, reactivations, deactivations and invitations, with which the last administrator can go already (demotions to contributor make the states too many for one run; the proofs have every patch) |
| `last_admin` | *violation*: PATCHes of the role and of the activity that overlap leave no active administrator | three users, two requests, cap 2; changes of role, activity and both, invitations |
| `put_concurrent` | a final object's bytes are those its key names, even those from before a database restore; what is left behind, or published without success, is explained; a cancellation propagates and gets no more time | two attempts, two payloads and the empty one, one tick of grace, attempt 1 used before |
| `submit` | no unconfirmed capture is lost, only its author writes it, "not sent" is true, a finished or discarded draft does not come back, an undisturbed run completes, each run advances | one capture with inline text and a photo, two accounts, `MaxFaults = 2` |
| `tasks` | the detailed module implements `TaskSet`: one wish makes one task, which never changes, and the user is told only of what was made; a key that may have one stays on the phone, another account's record is never lost | two keys, two values, two accounts, `MaxFaults = 2` |
| `expense_review` | committed money adds up and cash has no GST unless somebody wrote over money unseen; it becomes reviewed only when somebody says so or every reason it was held for is settled, and never past a suspected duplicate; it is pending exactly while its queue row is open; a settled reason stays settled | three requests, two at a time; one amount and one to set, every payment, two reasons to be held, three jobs of which one is archived |
| `expense_cash` | *violation*: two overlapping PATCHes commit a cash expense with GST | same |
| `job_books` | no day passes 24 hours, batches never wait in a circle, nothing is booked on a job that is gone, a repeated expense is stored in silence only if the two overlapped | three starts of anything; two batch requests, two captures, one job request; two workers, two jobs, two texts, a window of 0 of 1 tick |
| `capture_rules` | what is saved without review has the price that was meant; the price names no job; a further word never replaces a job, supplier or category | lines of up to four items over nine words and a few numbers; 230 numbers in all the ways they are said, with three items after them |

Seven more configurations show by hand (`tlc -config X.cfg M`) what section 7
tells or what the list of runs has no room for: `MCAuthSessionSignOut.cfg` (of
`MCAuthSession`), `MCActiveAdminsCap.cfg` and `MCActiveAdminsCircles.cfg` (of `MCActiveAdmins`), `MCSiteLogSubmitRefused.cfg` (of
`MCSiteLogSubmit`), `MCTaskCreateSlow.cfg` (of `MCTaskCreate`),
`MCJobBooksTwin.cfg` (of `MCJobBooks`) and `MCCaptureTextNumeral.cfg` (of
`MCCaptureText`). The type invariants,
`StoredIsPublished`, `ObjectsImmutable`, `SplitIsExact`, `CirclesNeedAWrite` of
`ActiveAdmins`, and `NoTwins`, `SentAsRecorded` and `OneConversation` of `TaskCreate` are
theorems and are not run as well; each holds in its module's run when it is added
to the configuration.

The races in this code are two-sided: a request against a later request for the
same row, against an administrator, or against its own session's successor. Two
of each actor therefore meet every one of them, and the fault bounds leave room
for the longest chain the code has a branch for (a lost acknowledgement, a death
and a reset in one upload; an overdue declare, a refusal and an app death in one
submission). Every action fires in the passing runs. For what section 6 proves
the bounds do not matter.

`CHECK_DEADLOCK FALSE` is set where the system really stops: a bound on sign-ins
is reached, every put has ended, nobody is left who may administer users, or the
capture's life is over.

Each property also has a mutant in `PROJECT.json`: a definition changed in the
way a plausible bug would change the code, under which the run finds the
property violated.

## 5. Fairness

* `upload_liveness`: weak fairness on the successful steps of a running request
  (the event loop schedules it), on the client's retry of a row that is not
  stored (Resume) and its finalize, and on the administrator's reset of a row
  that stays pending. Nothing is assumed of faults except that they are bounded.
* `session`: every call ends because axios times out after `REQUEST_TIMEOUT_MS`
  (15 s), and the secure store answers.
* `put_concurrent` uses none, for the bucket owes nothing. A cancelled put ends
  because `CleanupIsBounded` leaves it no more than the grace it had, and the
  event loop's timer, which needs no answer, uses that up.
* `expense_review`, `job_books` and `capture_rules` use none: a request that
  stops is rolled back, and nothing in them retries without a user.
* `tasks` uses none: nothing retries by itself (`taskPendingCreates.ts:16`).
* `submit` uses none. `RunAdvances` states the measure along which every step of
  a submission moves; each of its awaits is bounded by a timeout (15 s for a
  request, more for an upload), so every submission ends.

## 6. Proofs

`SiteLogUploadProof` proves, for any sets and any number of faults, the type
invariant, `ManifestMirrorsEvidence`, `StoredObjectExists`, `AttemptsAreFenced`,
`EvidenceFollowsJob`, that a complete event has every row stored, and that the
inline row is text. None of them is inductive alone: `IInv` adds that a running
request has a row, a payload the row accepts and bound Evidence
(`LiveRequests`), and that one waiting for Txn B has published its object
(`ReceiptsPublished`), since the object is written two steps before the row
names it. The action properties follow: rows move forward, a superseded
request changes nothing, and each step is a step or a stutter of
`CaptureRegister`. `RepliesHold` needs one invariant more (`Promises`), about the
request while it still runs: it answers with the row, attempt and content it will
be told of, or with the reason of a failure that has been recorded, and no
attempt is ahead of its row's. It then stays true because a stored row keeps its
value, which the refinement shows already.

`SiteLogSubmitProof` proves the type invariant and all the properties of
`submit`, for any manifest, accounts and number of faults. `Sound` says what the
submission knows where it stands (after the declare the event exists, once it
believes the capture complete it is) and that, while nothing has gone wrong, no
request is out but the one awaited and every row behind it is stored: that makes
`QuietRunCompletes` inductive and independent of what earlier runs left behind.
`Placed` says that what a draft names as kept is: the copy comes before the patch,
and a patch of a stale run is none. `Pinned` carries `NotSentIsTrue`: as soon as the server has or may yet get
something, both copies of the draft say so, because the mark is flushed before
the request goes out. `Kept` and `Unsaved` carry `NothingIsLost` across
the form's and the draft store's parts, `Going` says that nothing is submitted
while it is being removed, and `LateIsAuthors` that a request that outlives its
session is the author's.

`TaskCreateProof` proves the type invariant and all the properties of `tasks`,
with `NoTwins`, which is the part of `TaskSet` that a state shows.
The argument is in parts that need each other: a create that may have made a task
is on the disk, and only one at a time (`KeptInv`); it is on the disk because
every queued operation changes the copy that it found there (`QueueInv`) and the
list in memory is the disk's once it was read (`MemoryInv`); each send knows what
its answer can mean, and at most one request under a key is awaited (`SendInv`);
request, record and task under one key have one value unless the record was
given up (`ValueInv`); the form keeps a key only while nothing came of it or its
record is there (`FormInv`). `SentAsRecorded` and `OneConversation` come with it.
That each step is one of `TaskSet` or a stutter needs a second invariant over the
first (`SetInv`): the advisory lock leaves at most one request under a key that has
inserted its task and not committed it, and none where there is a task
(`InsertInv`), so no commit overwrites one; and what a send has been answered is a
task that is there (`ToldInv`).

`AuthSessionProof` proves the type invariant, `OwnToken`, `StoreIsOneSession`
and `EndsOnlyItsSession` for any number of requests and sign-ins. The
strengthening says that nothing is stamped with a session still to come, what is
stamped with the current session was issued by it, a request waits only for a
refresh begun no later than its own session, and a granted token is either the
current session's or nobody has signed in since.

`ActiveAdminsProof` proves `RemovalLeavesAnother` for any users, requests, cap and
patches. A transaction about to take an administrator away holds the lock of
another row that is an active administrator's (`CommitsSafely`), because it has
counted two and keeps what it has locked (`LocksCover`). That this does not protect
the last administrator is the finding `last_admin`: a request that saw an inactive
administrator counts nobody. For finitely many users and requests it proves
`OverrunIsBounded`. The bound itself says nothing of
requests on their way, so the invariant (`RoomInv`) is about every set B of
active administrators somebody counted for: B and the pending requests that would
be let through if B were all of them are never more than the cap and the requests
less one; what a request has counted stands, because it holds the locks
(`CountStands`). It also proves the type invariant and `CirclesNeedAWrite`: requests that
only count take their locks in order, so a circle of waits always contains one
that has counted and waits to write. That is as much as is true: see
`MCActiveAdminsCircles.cfg` in section 7.

`EvidencePutProof` proves `FinalIsItsHash`, `ObjectsImmutable`,
`StoredIsPublished`, `CancellationPropagates`, `CleanupIsBounded` and the type
invariant. A step of
a put changes that put and at most adds one request: one lemma shows that a
sound move preserves the invariant, one step per action that the move is sound.
The key fact is `CopyOnce`: a copy is asked for only by a put that saw its key
free, no other put has that key, and it asks once. `ResidueIsExplained` and
`OrphanIsExplained` trace whatever lies in the bucket back to its put
(`Traces`): a request still out is awaited, was given up, or its put is dead; an
upload, a staging object or a final object is one that its put has yet to deal
with, has not heard of, or whose removal was lost.

`ExpenseProof` has two parts. The first is about a line of text, for any
catalogue, any words and numbers and lines of any length; it begins with the
numerals. `SpokenIsRead` says that each of the amounts up to 99 999 999, in each of
the ways to say it, is read, and as itself unless it ends in ones after 10 000. The
parser scans a numeral with a fold. What a fold computes would need an induction
over data, so its state after k characters is taken as a function (`After`), which
a least counterexample shows to exist, to be the library's fold and to move one
`Scan` per character. From there on the proof is by cases of what is written: what
a place adds to the sum (`PlacedIsRead`), a number below 10 000 (`BelowIsRead`, by
its four digits, with ten to nineteen apart), the split at the 10 000
(`SplitIsRead`, and `LowOf` for the exception, which is what
`MCCaptureTextNumeral.cfg` shows), the last place left out (`ColloquialIsFine`: it is left out only
after a digit at ten times that place, which is then what the trailing digit is
worth), and Arabic digits (`MixedIsRead`). `FullIsRead` says more of the
exception than an instance can: written in full, ones after 10 000 are always
read as thousands, and nothing else is misread.

The properties of `capture_rules` need an invariant of the line (`LineInv`, theorem
`LineInvariant`): each price stands at a token that says it, in digits behind its
symbol or in one of the ways of its numeral; no two stand at one token; a symbol
always leads a price, and a token with a unit is one. Without it a `$` could stand
before a number that was no price. With it `QuietPrice` follows: only a number
behind a `$` scores eight tenths or more, so what is saved without a review is the
only best candidate, and that is a price in dollars. `PriceNoJob` shows that another
amount at that token changes no score and no word beside it. `WordsKeepAnswers`
shows what a word more can do: it moves no score, so the same token is withheld; it
only adds names, jobs and suppliers, so of two that are alone both are the same; and
it adds at most one to the hits of each category, so two categories cannot lead in
turn without a tie between them.

Its second part proves `SplitIsExact` for every number of cents, the type
invariant and all four properties of `expense_review` for any requests, patches
and amounts. The invariant relates each request to the row it has read: who has
written a column has the row's lock until it commits, so that what `flush`
found is what `commit` merges into, and the queue row read after it is the one
that is written. Where no lock is taken, nothing was changed, and the marks say
which of the properties that exempts. `ReviewedIsSettled` needs that the reasons a
request has seen and those there now differ only in settled ones (`ReasonsAlike`),
lock or no lock.

`JobBooksProof` proves the type invariant, `HistoryIsKept`, `NoCircularWait`,
`TwinsOverlap` and `DayWithin24h` for any workers, jobs, texts and concurrent requests. Its
invariant says what each request has got so far. A batch has the locks of the
workers it has put, and they come before those it has yet to do: of batches in a
circle, the one that waits for the last worker waits for a batch that is past
that worker, and so waits for none before it. An entry a batch has flushed
either replaces one that is still there, because its lock was held throughout,
or has the job's key share, so that a job that is deleted has none. A request
about an expense has a number of its own, what it found when it came is still
there, and what its search said is so of all expenses that were there then:
those it cannot have seen did not come before it. The lock order needs that a
nonempty set of workers has a first and a last one, which follows from
`IsFiniteSet(Workers)` by well-founded induction on strict subsets.
`DayWithin24h` is about a sum over the jobs, a fold of the community modules. Its
lemmas (changing one job's hours changes the sum by the difference, removing an
entry never adds) are proved without an induction over data: of the finite sets of
jobs for which one failed there would be a smallest. The invariant (`HoursInv`)
adds to the committed day the batches under way: the day would still fit if a
batch that holds a worker's lock committed what it has put, for the lock has kept
the other entries from growing since it summed them.

Assumptions: only the named `ASSUME` of each module (null values are not data,
bounds are naturals, the workers, the jobs and the catalogue are finitely many and
job names have at most eight words), which TLC evaluates in the runs, and each
module's account of what is external.

Besides those, one theorem has a hypothesis, which it states itself: `Finite`
(users and requests are finitely many) in `ActiveAdminsProof`.

Only model-checked: what needs fairness (`PendingIsLeft`, `EventuallyComplete`,
`RequestsSettle`), since the prover does not reason about `ENABLED`. `AlwaysAnAdmin`
and `CashCarriesNoGst` are what comments say and the code does not do: their runs
expect a violation, and `RemovalsLeaveAnother` and `MoneyStaysExplained` say what is
true, as `FullIsRead` does for `NumeralsAreRead`.

## 7. Findings

The first two are runs; `PROJECT.json` quotes the lines they contradict. The
others have a configuration that shows them (section 4).

* `expense_cash`: the GST split is reconciled on the copy a request has read and
  written column by column, so a PATCH to cash and one of the GST or the amount
  that overlap commit a cash expense with GST. `models/expense.py:341-342` says
  that a cash row can never carry GST.
* `last_admin`: whether a PATCH makes or removes an administrator, and so needs
  the locked count, is decided from an unlocked read (`users.py:164-182`), and only
  the changed column is written. A demotion that read its target inactive counts
  nobody; the target is reactivated and the other administrator deactivated, with a
  count of two, before it is written: nobody is left. `users.py:11-12` says that the
  last active administrator can be neither deactivated nor demoted, and `:65-70`
  that the lock prevents the race to zero. The admin console deactivates with a
  PATCH of the activity alone (`admin/src/pages/Users.tsx:56`).
* `MCCaptureTextNumeral.cfg`: after 10 000 a zero and a digit are read as thousands,
  confidently enough to skip the review, although `cjk_amounts.py:170-172` and
  `:323-325` say that only a bare digit is: 10 005 is saved as 15 000.
* `MCJobBooksTwin.cfg`: a capture whose answer was given up and that is sent
  again with another job picked, or whose text the parser resolves to another
  job than the one that was picked, is stored twice without a review:
  `detect_duplicate` looks for the job the parser has resolved, and the rows have
  the job that was picked. `expenses.py:562-566` says that the text path
  'already surfaces repeats'.
* `MCAuthSessionSignOut.cfg`: the sign-out screen (`settings.tsx:71`) clears
  whatever session is signed in when its own request settles, up to a timeout
  later; `client.ts:187` says that only the session that asked can be ended by
  the answer.
* `MCActiveAdminsCap.cfg`: `SELECT ... FOR UPDATE` does not see rows that join
  while it waits, so overlapping invitations or promotions each find one free
  place (`users.py:65-70` says they are serialised).
* `MCActiveAdminsCircles.cfg`: the rows are locked in a 'stable lock acquisition
  order that avoids deadlocks between two concurrent demotions'
  (`users.py:71-72`), but a demotion writes a row its count need not have found:
  if its target was demoted and promoted again between the unlocked read and the
  count, the write waits for the other demotion, out of order.
  PostgreSQL ends one of the two.
* `MCSiteLogSubmitRefused.cfg`: a 4xx to a second declare clears the doubt about
  a first one that is still being served (`submit.ts:376-377` says that nothing
  was created).
* `MCTaskCreateSlow.cfg`: the user is loaded once per request, so a create
  authenticated before its author lost a right may insert after the resend under
  its key was refused for the lack of it; the phone has forgotten the key by
  then (`taskPendingCreates.ts:12-14` says that a slow request cannot become a
  second task).
* Without a run, since no line of the repository denies them: a PATCH that races
  an approval changes approved money without a new review; an approval that
  races a delete brings the expense back; the second of two verdicts on one
  queue row replaces the first; a patch that changes no column takes no row
  lock; the audit row of a raced change names the status its request had read,
  and the audit rows are ordered by the start of their transactions
  (`models/review_queue.py:156-158`), so an approval that read 'reviewed' and
  commits after a delete leaves a trail that ends 'reviewed' over a rejected
  expense.
* Staged objects that survive a killed process are not a finding: the release
  plan names them (`docs/operations/production-release-plan.md:418`).

## 8. Not modelled

Legacy evidence, the keyset cursor of the expense list, loose dates and budget
bands are planned above; task updates hold the row's lock and are one step each.
Of the modelled components: tasks as a reference to a job, aliases and category
budgets (single-row writes under unique keys), rates and times of labour, the
LLM pass of the parser, and the previews and lists, which only read. Reports,
settings, suppliers and categories are single reads or writes; the HTTP layer,
schemas and migrations are declarative; screens and the admin console hold view
state; evaluations and scripts are offline tools. These take up most of the
repository: types, forms, views and their styles, for which there is no
behaviour to state.
