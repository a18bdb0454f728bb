# HRIS-FastAPI: specifications, model checking and proofs

This directory holds TLA+ specifications of the HRIS application: a FastAPI
backend (`src/backend/app`) over one PostgreSQL database, and a React client
(`src/frontendv3`). `PROJECT.json` lists every component, run, mutant, theorem
and hazard, and maps each definition to the lines it models.

## 1. The system

### How it runs

The API runs as several worker processes (`backend/Dockerfile` starts four)
over one PostgreSQL database at its default isolation level, READ COMMITTED.
Each HTTP request gets one SQLAlchemy session (`common/dependencies.py`,
`get_db`): its statements form one transaction until the handler commits, and
leaving the session without a commit rolls back. Handlers are synchronous, so
each worker process also runs several at once in its thread pool. Everything
that two handlers can disagree about is therefore decided by three mechanisms:
row locks (`with_for_update`, five uses), the unique indexes, and one advisory
lock. Most handlers use none of them: they read a row, decide, and write later.

### Inventory

| Component | State | Operations | What is hard |
|---|---|---|---|
| Leave requests (`leave/services.py` 35-306) | `leave_request`, its events, the ledger | submit, approve, reject, cancel | concurrent decisions; the check and the write are apart; the ledger must follow the status |
| Leave policies (`leave/services.py` 578-637) | `leave_policy` | create, patch, deactivate | deactivation checks requests that a submission is about to add |
| Leave enrolment and jobs (`leave/services.py` 309-538) | `leave_enrollment`, ledger entries | enrol, monthly accrual, year-end carry-over, manual adjustment | jobs retried or run twice; one row in a batch failing |
| Leave day counting (`leave/calc.py`) | none | dates to days, accrual, carry-over | year boundary, cutoffs, rounding |
| Roles and permissions (`rbac/services.py`, `user/routes/users.py`) | `role`, `role_permission`, `user.role_id` | assign, deactivate, create, patch, permission check | assignment racing deactivation; two permission updates at once |
| Attendance import (`attendance/services.py` 80-231, the CSV wizard) | `daily_time_record`, the wizard's rows | create a keyed punch, reconcile, retry, discard | lost answers, retries, late commits, deletions in between |
| Daily time records (`attendance/services.py`, `adjustment_services.py`) | `daily_time_record`, `dtr_adjustment` | patch, approve overtime, delete, request, approve or reject an adjustment | unlocked read-modify-write of derived minutes |
| Payroll runs (`payroll/services.py`, `routes.py`) | `payroll_run`, `payslip` | preview, generate, approve, void | concurrent generation; a run approved while voided |
| Payroll calculation (`payroll/calc`) | none | SSS, PhilHealth, Pag-IBIG and tax tables | bracket boundaries, effective dates |
| Payroll configuration, loans | rate tables, `loan` | CRUD, amortization schedule, payment | a payment posted twice |
| Sessions (`auth/services.py`) | `refresh_token` families | issue, rotate, revoke | rotation racing rotation; reuse detection |
| Rate limiting (`common/rate_limit.py`) | a window of timestamps for each key, per process | check | eviction, window boundary |
| Notifications (`notification`) | `notification`, preferences | create, mark read, pre-payday check | repeated checks |
| Audit trail (`common/audit`, `audit`) | `audit_log` | write after a response, prune | errors are swallowed |
| Employee records (`employee`) | `employee_records` and its satellites | CRUD, soft delete | the soft delete races whatever refers to the employee |
| Users, items | `user`, `item` | CRUD | uniqueness of the e-mail address |
| Dashboard, reports | none | aggregates, documents | read only |
| List pages (`frontendv3/src/features/*/index.tsx`, `lib/api/*.ts`) | the query cache of a list, a sheet with its form, a delete dialog, the requests pending | list, add, edit, delete, decide, for 29 resources | a save outlives its sheet; a list request overtakes it; a form keeps another record's values |
| Payroll page (`features/payroll/index.tsx`) | step, inputs, reviewed entries, the identity of the run | preview, recalculate, generate, approve, void | a lost answer to a generation, repeated safely only under the same identity and payload |
| Subdivision wizard (`features/subdivisions/components/subdivision-wizard.tsx`) | three steps of fields, a project already created | create a project, then its category | the second of two requests fails or is lost |
| Employee CSV wizard (`features/employees/components/csv-import`) | rows and their results | one create for each row | no key, no retry |
| Browser client: shell | the auth store, theme, routes | sign in, navigate | token refresh |
| Migrations, scripts | schema | applied once by an operator | - |

Interactions: every handler reaches every other one through the database only.
Submissions lock the employee row that employee administration deletes; policy
deactivation reads the requests that submissions write; approvals and
cancellations write the ledger that enrolment, the jobs and manual adjustments
also write; role assignment and role deactivation lock the same role row; the
import wizard talks to the attendance routes over HTTP, where an answer may be
lost after the commit. The list pages, the payroll page and the subdivision wizard
talk to their routes over HTTP too; one query cache lies between all lists and
the server, and pages reach each other through its invalidations.

For each component, what makes it correct:

- *Leave requests*: no two live requests of an employee share a day; the ledger
  is debited once for an approval and credited once for its cancellation; the
  balance covers what is approved; closed requests stay closed; only the legal
  transitions happen; a deleted policy has no live request.
- *Roles*: no user holds an inactive role; an edit of permissions leaves the
  role with the list of the edit.
- *Attendance import*: one active record for each import key, whatever is lost,
  repeated or late; "imported" is only ever shown for a record that was
  committed; a deleted record is not resurrected by a retry.
- *List pages*: a list that is at rest shows every change its user was told of;
  a save writes the record and the values its form showed, and leaves alone what
  the user left alone; a failure is told; leave once refused is not approved after all.
- *Payroll page*: a generation is what was reviewed; an uncertain one can be
  repeated; the run shown is the run stored.
- *Subdivision wizard*: one project for each use of the wizard, and its category
  hangs from it.
- *Daily time records*: the minutes stored are those of the times stored; a
  rejected adjustment changed nothing.
- *Payroll runs*: one live run for each period; approved runs do not change.
- *Leave jobs*: running a job again changes nothing.
- *Sessions*: at most one usable token in a family.
- *Rate limiting*: never more than the limit in any window.

## 2. Plan

1. `LeaveRequests`, its abstract specification `LeaveLifecycle`, its runs and
   `LeaveRequestsProofs`. (done)
2. `RoleAssignments` (assign, deactivate, create, patch of a role) with its
   abstract specification `RoleBook` and `RoleAssignmentsProofs`. (done)
   `RolePermissions`: two edits of one permission list.
3. `KeyedPunches`, the keyed create, with its abstract specification `KeyedStore`, and
   `AttendanceImport`, the wizard composed with it over a lossy network, each with its
   proofs. (done)
4. `ResourcePages`, one list page with one field of its form, its abstract
   specification `FreshList`, the catalogue of the pages (`PageShapes`,
   `OrganisationPages`, `PropertyPages`, `PeoplePages`, `PayrollConfigPages`,
   `PageCatalog`) and `ResourcePagesProofs`. (done)
5. `PayrollSession`, the payroll page composed with generation and decisions on
   the server, with `PayrollSessionProofs`; `PropertyWizard`, with
   `PropertyWizardProofs`; both under `MCClientFlows`, with `MCClientFlowsProofs`.
   (done)
6. `DtrRecords`: patches, overtime decisions and adjustments of one record.
7. `PayrollRuns`: overlapping periods, regeneration, loans.
8. `LeaveYear`: enrolment, accrual and carry-over over several enrolments, with
   overlapping and repeated jobs. `LeaveCalc`: day counting as operators.
9. `RefreshTokens`, `RateLimit`, `Notifications`.

Abstract specifications, runs and bounds of what is left:

| Module | Abstract specification and properties | Run |
|---|---|---|
| `RolePermissions` | an edit replaces the whole list at once | 2 workers, 1 role, lists over 2 permissions |
| `DtrRecords` | the stored minutes are those of the stored times; a closed adjustment changes nothing more | 2 workers, 1 record, 1 adjustment, times from a set of 3 |
| `PayrollRuns` | a book of periods with one live run each; a run that was approved stays as it was paid | 2 workers, 2 overlapping periods, 1 loan, 2 generations |
| `LeaveYear`, `LeaveCalc` | each month and each carry-over is deposited once; counted days against a reference definition | 2 jobs, 2 enrolments, 3 months; ranges over a week around the turn of a year |
| `RefreshTokens` | a chain of tokens, at most one of which is usable | 2 workers, 4 tokens, 2 families, expiry and revocation |
| `RateLimit` | never more than the limit in any window | 2 callers, window 2, limit 2, clock up to 5 |
| `Notifications` | a notification read is not unread again | 2 workers, 2 notifications |

Theorems, in the same order: the inductive invariants of `LeaveRequests` and, of
decisions that do not overlap, its refinement of `LeaveLifecycle` (done), "no user holds an inactive role"
(done), "one active record for each key", "a success shown is a record committed",
"no blind retry", "a key is one row" and the refinement of `KeyedStore` (done), the fresh list and the honest forms
of the list pages (done), the safe retry of payroll (done), the one-run-for-a-period
invariant of payroll, the token-family invariant, the window bound of the rate limiter. The
jobs of `LeaveYear` are folds over enrolments, for which the lemmas on sums of
`LeaveRequestsProofs` are a start.

## 3. Leave requests

### The model

`LeaveRequests.tla` models the handlers of `leave/services.py` as chains of
steps of *workers*, a worker being one HTTP request in flight with its own
transaction. A step is one statement whose result may be stale when it is used.

| State | Code |
|---|---|
| `status`, `trail` | `leave_request.status`; the kinds of its `leave_request_event` rows |
| `consumed`, `reversed` | its CONSUMED and REVERSAL rows in `leave_ledger_entry`, the latter by year |
| `granted` | the sum of the other ledger rows of an employee, policy and year |
| `policy`, `employed` | `is_active`/`is_deleted` of a policy; employees not soft-deleted |
| `today` | the year of `date.today()` |
| `requestLock`, `employeeLock` | the rows held by `SELECT ... FOR UPDATE` |
| `pc`, `on`, `seen` | where a handler is, its row, and the status a plain read gave it |

| Actions | Handler |
|---|---|
| `SubmitBegin`, `SubmitPolicy`, `SubmitOverlap`, `SubmitInsert` | `submit_request`: employee FOR UPDATE, policy and eligibility, overlap check, insert |
| `ApproveBegin`, `ApproveAgain`, `ApproveBalance`, `ApproveWrite` | `approve_request`: request FOR UPDATE, balance, ledger entry and status |
| `RejectBegin`, `RejectWrite`; `CancelBegin`, `CancelWrite` | `reject_request`, `cancel_request`: a plain read, then an UPDATE |
| `DeactivateBegin`, `DeactivateWrite`, `UpdatePolicy` | `deactivate_policy`, `update_policy` |
| `AdjustBalance`, `DeleteEmployee` | `apply_manual_adjustment`, the soft delete of an employee |
| `NewYear`, `Crash` | the calendar; a dying process or failing request, rolled back |

A handler that ends with an error is a rollback and leaves no trace. Inserting
a ledger row takes a share lock on the employee row through its foreign key, so
it waits for a submission that holds the row (`ApproveWrite`, `CancelWrite`,
`AdjustBalance`). `cancel_request` reads `date.today()` between its read and
its write; the model reads it with the write, which changes nothing as the year
commutes with the read. A request identifier stands for one submission, so its
payload is a constant. Amounts are hundredths of a day, `Numeric(5,2)` in the
database. Hours are whole and rounded half up.

`LeaveLifecycle.tla` is the abstract specification: a request is submitted,
decided and withdrawn in one step each, and what the ledger charges for it
follows its status.

### Runs

| Run | Instance | What it shows |
|---|---|---|
| `leave_safety` | 2 workers, any handler, 2 overlapping requests of one employee, 1 policy, 2 years | the type invariant, `NoOverlap`, `DebitedOnce`, `ReversalBacked`, `NoResurrection`, `SubmitForEmployed` |
| `leave_one_decider` | 3 workers, one of them decides; fairness | with one decision in flight at a time the handlers implement `LeaveLifecycle` (`ImplementsLifecycle`), an approval never overdraws (`ApprovalCovered`), and every handler ends (`HandlersEnd`) |
| `leave_cancel_credits` | violation of `CancelCreditsOnce` | a cancellation that read "pending" closes an approved request without a credit; in the same way two cancellations both credit |
| `leave_overdraw` | violation of `ApprovalCovered` | two approvals share one balance check |

A submission can also slip past the deactivation of its policy, whose check
takes no lock (`DeactivateBegin`, `DeactivateWrite`); that is listed as a hazard
and modelled, and the model does reach a pending request of a deleted policy. No run
checks a property of it; `DeletedPolicyUnusedHolds` below says when it cannot happen. `ImplementsLifecycle` holds only of decisions that do not overlap on
a request: a rejection that read "pending" may overwrite another's approval, while
`DebitedOnce` and `ReversalBacked` hold all the same.

*Bounds.* Every hazard above needs two handlers and one or two requests. Two
years are needed for the reversal that lands in another year than the debit.
`BalanceBound` bounds the adjustments; the entitlement is chosen so that one
request is covered and two are not. Workers are interchangeable in
`leave_safety`, so it uses symmetry; it checks no liveness.

*Fairness.* `FairSpec` assumes strong fairness of the next step of a handler
that has started. Weak fairness is justified by the process running; strong
fairness is needed where the step waits for a row, and PostgreSQL grants a row
lock to its waiters in turn. Nothing is assumed about arrivals, crashes or the
calendar.

### Proofs

`LeaveRequestsProofs.tla` proves, for any number of workers, requests,
employees, policies and years and any workload:

- `TypeCorrect`: `Spec => []TypeOK`;
- `NoOverlapHolds`, `DebitedOnceHolds`, `ReversalBackedHolds`: the three safety
  invariants;
- `NoResurrectionHolds`, `SubmitForEmployedHolds`: the two action properties.

The properties are not inductive. `IInv` adds what the code relies on without
saying so:

- `LockInv`: a worker inside `submit_request` holds its employee's row, and a
  worker inside `approve_request` holds its request's row and that request is
  still pending. Nobody else can change it: reject and cancel wait for the lock.
- `StaleInv`: what reject and cancel read earlier may be stale, but only in the
  harmless direction, since a request never goes back to an earlier status.
- `ClearInv`: between the overlap check and the insert no live request of the
  employee overlaps the one about to be inserted; the employee lock keeps other
  insertions out, and no decision brings a closed request back to life.
- `DebitInv`: the ledger rows of a request against its status and its trail.

Each action has a lemma that it preserves `IInv`; `InvStep` combines them, and
the theorems are temporal corollaries. The assumptions are those named in
`LeaveRequests.tla`: identifiers and payloads are typed, "no one" is not a worker,
and requests and years are finitely many (a table has finitely many rows, and
`datetime.date` ends at the year 9999).

What the handlers promise of decisions that do not get in each other's way is proved
under hypotheses on the behaviour, not on who runs what. Each names exactly the overlap
that the code does not exclude:

- `RowsApart`: no two decisions about one request stand before their writes at once.
  Under it `ApartInvHolds` proves `FreshInv` (the status that reject or cancel read is
  still the status), `DatedInv` (the dates of a submission about to insert are in order)
  and `CancelCreditsOnce`, the property that `leave_cancel_credits` shows two overlapping
  cancellations break (`CancelCreditsOnceHolds`).
- `ImplementsLifecycleHolds`, under `RowsApart`: the refinement of `LeaveLifecycle`,
  action by action. `SubmitInsert` is a submission, `ApproveWrite` an approval,
  `RejectWrite` a rejection, `CancelWrite` a withdrawal or a cancellation by what
  `FreshInv` says of the row, and every other step a stutter. Any number of workers may
  be deciding different requests.
- `ApprovalCoveredHolds`, under `LedgersApart` (nobody is about to take days from a
  ledger whose balance an approval has checked) and `GrantStands` (no adjustment takes
  days from it before that approval's write): `CoverInv` (the balance that an approval
  checked is still there) and the effect of one more debit or credit on the sums.
- `DeletedPolicyUnusedHolds`, under `PoliciesApart` (no submission that read its policy
  is under way while a deactivation of it stands before its write): no pending or
  approved request belongs to a deleted policy. `PolicyInv` says that both handlers
  still find what they read.

`OneDecider` and `OneDeciderCovers` discharge the hypotheses for a deployment where one
worker takes the decisions (`Alone(d, Decisions)`; for the balance the adjustments as
well), which is the instance that `leave_one_decider` checks. The others may submit,
administer and crash at will. The runs `leave_cancel_credits` and `leave_overdraw` show
that the code does not bring the hypotheses about by itself.

`NoCircularWaitHolds` is the safety behind `HandlersEnd`. `HeldInv` says that a locked row
belongs to a handler that is under way and took it for that row. So a cancellation or a
rejection waits for approvals and submissions only, an approval for submissions, and a
submission that has its lock for nobody (`Rank`): nobody waits in a circle, or for a
handler that has ended or crashed.

`Charged` and `Remaining` are sums over sets, recursive functions of the library. A
function `h` with `Tallies(h, f, S)` satisfies their recursion for the terms `f`.
`TallyExists` and `TallyChange` say that there is one and that changing one term
changes the sum by as much. Both take a smallest subset at which they fail, which
exists because strict inclusion is well-founded on finite sets, and look at it less
one element. So no induction principle over operators is needed.

Only model-checked: `HandlersEnd`, a liveness property under fairness. Of decisions that
overlap, `ApprovalCovered`, `CancelCreditsOnce` and `ImplementsLifecycle` are false.

## 4. Roles

### The model

`RoleAssignments.tla` models the handlers that change who holds which role, as
workers with steps like those of the leave requests.

| State | Code |
|---|---|
| `account`, `roleOf` | the rows of `user`, and their `role_id` |
| `roleState` | whether a `role` row exists, and its `is_active` |
| `roleLock` | the role rows held by `SELECT ... FOR UPDATE` |
| `pc`, `role`, `user` | where a handler is and the rows it works on |
| `loaded`, `believed` | the `role_id` and the `is_active` its session loaded: SQLAlchemy leaves out of an UPDATE what equals the loaded value |

| Actions | Handler |
|---|---|
| `AssignBegin`, `AssignRole`, `AssignWrite` | `assign_user_role`: load the user, role FOR UPDATE, write |
| `DeactivateBegin`, `DeactivateLock`, `DeactivateCheck`, `DeactivateWrite` | `delete_role_route` and `delete_role`: load, FOR UPDATE and refresh, count the users, write |
| `EditBegin`, `EditWrite` | `update_role`: load, then write what was edited |
| `BootstrapBegin`, `BootstrapWrite` | `init_db`: the first superuser gets the seeded role |
| `CreateRole`, `CreateUser`, `DeleteUser`, `Crash` | one statement each; a lost transaction |

The foreign key of `user.role_id` makes `BootstrapWrite` wait for a role row
that an assignment or a deactivation has locked. `RoleBook.tla` is the abstract
specification: assigning and deactivating are one step each, a role is assigned
only while it is active and deactivated only while nobody holds it.

### The run

`roles` has three workers, one of them acting for a superuser, a system role, a
custom role and two accounts. `HeldRolesActive` needs one assignment and one
deactivation under way; the third worker adds a rename, a deletion or the
start-up binding. It checks the type invariant, that no user ever holds an
inactive role, that the handlers implement `RoleBook`, and that every handler
ends. `user_has_permission` never looks at `is_active`, so `HeldRolesActive` is
all that stops a deactivated role from granting permissions.

*Fairness.* As for leave requests: strong fairness of the next step of a handler
that has begun, since PostgreSQL grants a row lock to its waiters in turn.

### Proofs

`RoleAssignmentsProofs.tla` proves, for any number of workers, users and roles,
`TypeCorrect`, `HeldRolesActiveHolds` and `ImplementsBookHolds`, and three results that
no run checks. The inductive invariant adds to the type invariant:

- `LockInv`: between check and write, an assignment and a deactivation hold the
  row of their role, and what they checked of it still holds;
- `UnheldInv`: nobody holds the role that a deactivation is about to write, as
  an assignment of it would need the row;
- `SystemInv`: the system roles stay active and are never being deactivated,
  which is what the start-up binding relies on, as it locks nothing;
- `HeldRolesActive` itself.

The refinement is proved step by step: `AssignWrite` is `Assign`,
`DeactivateWrite` is `Deactivate`, `DeleteUser` is `Release`, and every other
step leaves the book alone.

- `NoCircularWaitHolds`: a handler waits only for one that is under way, took the row for
  the role it is about and waits for nobody itself (`HeldInv`), which is why none is
  stuck and no lock outlives its transaction.
- `StaysInactiveHolds`: no step makes a deactivated role active again, whatever a rename
  or an assignment had loaded before. It follows from the refinement.
- `SystemRolesGuardedHolds`: a system role is handed out by a superuser's assignment or,
  to the first superuser, by the start-up binding; the check of the caller is made with
  the role locked and is still good at the write (`GrantInv`). The binding writes over a
  role that the first superuser was given after it looked.

Model-checked only: `HandlersEnd`, a liveness property under fairness.

## 5. Attendance import

### The model

`KeyedPunches.tla` models `create_dtr` for requests that carry an import key,
each a transaction of its own, beside users who delete and correct records.

| State | Code |
|---|---|
| `step` | where a request is in `create_dtr` |
| `key`, `payload` | its employee and `source_ref`; its times and shift |
| `record`, `content` | the row it inserted, whether it is deleted, and what it says now |
| `answer`, `told` | the status class of its answer and the record named in it |

| Actions | Code |
|---|---|
| `Send` | the client sends a request |
| `Refuse`, `LookupActive`, `LookupDeleted` | validation, and the two lookups of the key |
| `Insert`, `Reread` | the flush in a savepoint against the partial unique index; what follows an `IntegrityError` |
| `Commit`, `Fail` | the commit, whose answer may be lost in the refresh after it; a rollback |
| `Delete`, `Correct` | `delete_dtr`, `update_dtr` |

`KeyedStore.tla` is the abstract specification: under a key lies at most one punch, and
each request is dealt with in one step against what lies there. A record's author is
no part of it: its `held` is the content of the active records of a key.

`AttendanceImport.tla` is the wizard of one signed-in user, composed with
`KeyedPunches` (`API`). Its handlers are asynchronous closures: `handleImport`
and `handleReconcile` work on a copy of the rows and results of the render they
began in, and write that copy back at the end, while the user goes on with what
is not disabled and a `FileReader` delivers when it likes.

| State | Code |
|---|---|
| `open`, `rows`, `batch`, `results` | the mounted dialog, `parsedRows`, `batchId`, `results` |
| `file`, `reading` | the chosen file; the text about to be delivered |
| `importing`, `job` | `isImporting`; the closure of `handleImport` with the row it is at |
| `check` | the closure of `handleReconcile` |
| `slot` | `recoverableSlot`, the rows that survive the dialog |
| `minted` | batch identifiers drawn; an identifier is never drawn twice |

| Actions | Code |
|---|---|
| `Edit`, `EditAway`, `ChooseFile`, `FileLoaded`, `ClearFile` | the text box, the file input, `reader.onload`, the X beside a file |
| `ImportBegin`, `SkipRow`, `PostRow`, `BreakOff`, `Receive`, `LoseAnswer`, `ImportEnd` | `handleImport` |
| `ReconcileBegin`, `ReconcileChunk`, `ReconcileFails`, `ReconcileEnd` | `handleReconcile` and the route it asks |
| `Discard`, `Close`, `Reopen` | `handleDiscard`, `handleClose`, the initial state of a mounted dialog |

`LoseAnswer` leaves the request where it is: it may commit later, also after a
reconciliation answered "not found" and the row was sent again. `BreakOff` is a
retry over a CSV longer than the results an earlier import left: the handler
reads the key of a result that is not there, dies, and `isImporting` stays set.

### Runs

| Run | Instance | What it shows |
|---|---|---|
| `punches_safety` | 3 requests with one key and 2 payloads, deletions and corrections | the type invariant; `OneActive`; `AnswersTruthful`; the refinement of `KeyedStore` (`ImplementsStore`) |
| `import_files` | 2 requests, 2 batches, CSVs of one and two rows, slow files that may be removed | the type invariant; `SuccessCommitted`; `NoBlindRetry` |
| `import_user` | 2 requests, 2 batches, a CSV with a row that lacks a field, deletions; fairness; files load before an import and are not removed | `OneRowPerKey`, `UnknownsKept`, `ImportEnds`, `ReconcileEnds` |
| `import_slow_key` | violation of `OneRowPerKey` | a file that loads during an import: a retry sends a new row under an old key |

*Bounds.* The races of the keyed create need two attempts, and a third to
observe them; requests with different keys do not interact, so one key is
enough. In the wizard, two requests are a first attempt and its retry, or two
rows; two batches are an edit after an import. `MaxBatches` bounds the CSVs
parsed, `Posts` the requests sent. A chunk of one row (`Chunk`) makes every
reconciliation of two rows a sequence, so that a failure between chunks is
reached. One file is read at a time.

`SlowReads` and `Clears` tell the runs apart. What the wizard promises
unconditionally (`SuccessCommitted`, `NoBlindRetry`) is checked with both; the
two promises that they break are checked without. `import_slow_key` shows slow
reads break `OneRowPerKey`. Removing a file breaks `UnknownsKept`: it empties the
rows, and closing then forgets the unknown ones. The model also reaches a punch
recorded again after it was committed and deleted between the lookups and the
insert of another attempt; `create_dtr` promises nothing else, so no property
says so. Both are listed as hazards.

*Fairness.* `LiveSpec` assumes weak fairness of the API's handling of each
request and of the loops of the two handlers, which nothing but a closed page
stops. It assumes nothing about the user. A lost answer is an answer too: the
HTTP client gives up in the end.

### Proofs

`KeyedPunchesProofs.tla` proves for any set of requests and keys `TypeCorrect`,
`OneActiveHolds`, `AnswersTruthfulHolds` and `ImplementsStoreHolds`, and as a corollary
of the first two that two attempts with one key are told of one record unless one was
deleted (`AnswersAgreeHolds`). The inductive invariant is made of

- `IndexInv`: an uncommitted insert or an active record excludes every other one
  of its key, which is what the index enforces;
- `HistoryInv`: a request has an answer exactly when it has returned, a record only
  then, and says nothing before it is sent;
- `AnswersTruthful`.

In the refinement the step that counts is the commit for a new record, since `IndexInv`
makes the key empty until then, and the lookup or the re-read for a replay, since
`HeldOne` makes the record it found the punch of its key. A lookup that finds nothing,
an insert and a conflict show nothing; a correction of a record deleted meanwhile is a
stutter.

`AttendanceImportProofs.tla` proves, for any CSVs, chunk size, and number of
requests and batches, whether or not files are slow or removed:

- `TypeCorrect`;
- `SessionIsApi`, `Spec => P!Spec` where `P` is `KeyedPunches` with its proofs:
  the wizard sends whole requests under keys of its own, so all that was proved
  about the API holds in a session;
- `SessionKeepsPromise`: in particular the refinement of `KeyedStore`, `OneActive` and
  `AnswersTruthful`;
- `SuccessCommittedHolds`. Its invariant adds to the API's `IInv` that every copy
  of the results (`results`, `job`, `check`, `slot`) shows a success only for a
  key with a record (`SuccessInv`), and that the request an import waits for was
  sent under the key of the row it is at (`AwaitInv`). A record once committed
  keeps its key (`ApiKeeps`), so copies that have gone stale stay honest.

- `NoBlindRetryHolds`: a retry is never blind. Its invariant `RetryInv` says that every
  batch in use was drawn (`BatchesDrawn`), that handlers run in an open dialog
  (`HandlersMounted`), that a reconciliation works on the results shown, which keep
  the import out, or on a batch that a new CSV has replaced (`CheckedBatch`), and
  that no row of the batch being imported is shown as unknown (`ImportedSettled`).

Two promises hold in one mode only, and are proved under it:

- `UnknownsKeptHolds`, when files load before an import and none is removed
  (`~SlowReads`, `~Clears`): a text being read, an import and a reconciliation exclude
  each other (`OneAtATime`), and results are never without their rows (`RowsKept`).
- `OneRowPerKeyHolds`, when files load before an import (`~SlowReads`). The CSV of each
  batch is no variable of the wizard; `KeyInv` says that there is a function from
  batches to CSVs of which everything is drawn: the rows shown, the rows of the import,
  the slot's, and the payload of each request by its key. A new CSV extends it at a
  batch that nothing uses yet.
- `SuccessIsTheRowHolds` puts `KeyInv` together with the invariant of the keyed
  create: a success shown is a record whose content is that of the very row it
  is shown for, or a later correction of it.

Assumed: the blank cell and the corrected content are no payloads, "no request"
is not a request, "nothing" is no saved batch, and a CSV is a sequence. Model-checked
only: the two liveness properties.

## 6. List pages

### The model

Twenty-nine pages of the client are the same program written twenty-nine times
with small differences: a table over one query, an Add button, Edit and Delete on
each row, a sheet with a form, a dialog, and hooks that invalidate the query.
`ResourcePages.tla` is that program. It follows one page and one field of its
rows, the *probe*; what the page's files make of the probe is the record `how`.

| State | Code |
|---|---|
| `how` | the page and the field, as a behaviour of the catalogue |
| `rows`, `version` | the probe in the server's rows; the number of changes committed |
| `list`, `fetch`, `due` | the cached answer of the list query; the request behind it; the newest change whose answer the page received |
| `here` | the page is on screen |
| `sheet`, `form` | `open` and `editing` of the page; the mounted instance of the form: its record, default, content and pending mutation |
| `dialog` | the row of the delete dialog |
| `saves` | the requests of this browser, from `mutate` to its last callback |
| `turns` | events still to come: changes by others, refusals, losses, leaving |

| Actions | Code |
|---|---|
| `FetchRead`, `FetchAnswer`, `FetchFails`, `Refetch` | the list query: the server reads, the answer arrives or does not, "Try again" or window focus |
| `OpenSheet`, `Type`, `CancelSheet`, `Submit`, `NothingToSave` | the sheet and the form |
| `OpenDialog`, `CloseDialog`, `ConfirmDialog`, `Decide` | the buttons of a row |
| `ReadStatus`, `Commit`, `Refuse`, `Others` | the routes, a verdict on leave or an adjustment in two steps; other users |
| `AnswerOk`, `AnswerRefused`, `LoseAnswer` | `onSuccess` (invalidate, perhaps wait for the list, then close), `onError` |
| `Leave`, `Return` | the page is unmounted and mounted; cache and requests stay |

The query cache (TanStack Query) is a library and is modelled from how the hooks
use it: an invalidation marks the list stale and, if the page is on screen,
replaces a request in flight unless it is the first one; a returned promise keeps
the mutation pending until the list has been read; a list nobody shows is read
when it is shown again. `main.tsx` sets `staleTime` and the default error toast.

`PageShapes.tla` says what a resource is: a record of *page* (buttons, key of the
list, how the form is mounted), *form* (the kind of each field, when it resets,
what an update sends, how it tells errors), *api* (which roots a save
invalidates, whether it waits) and *remove* (the same for the dialog). Each part
is read off a file of its own. The kind of a field says what becomes of an empty
input, in the form's schema and in the route's: `required`, `refused`, `stored`,
`nulled`, `dropped`, `filled`, `seeded`, `rate`, or that the update does not know the
field: `fixed`, `kept`, `once`. `OrganisationPages`,
`PropertyPages`, `PeoplePages` and `PayrollConfigPages` hold the records, and
`PageCatalog` collects their behaviours: 38 different ones.

The probe is enough for the forms, as a form treats its fields independently, and
the properties speak of one field at a time. `FieldStory` leaves out the row's
buttons and `ButtonStory` the form: their requests meet in the store and the
list, which each story has with `Others` beside it.

`FreshList.tla` is the abstract specification: the list shows the store as it was
at some moment, moments only go forward, and at rest the list is at least as new
as every change its user was told of.

### The run

`pages` checks every behaviour of the catalogue over two rows, one present and one
free, and two contents.

- `ListSettlesFresh`, `ImplementsFreshList`: the list, as above. A hook that
  invalidates the key of another page, or a request in flight that is joined
  instead of replaced, breaks it.
- `SavesOwnRow`, `UntouchedAsListed`: nothing of the record or the draft that the
  sheet held before reaches the record it is open for. Pages achieve this in six
  ways (a key, a condition, both, a reset on opening, a reset when the row changes, and
  a form that only adds), and each must fit the rest of its page.
- `UntouchedKept`, `StoredAsShown`: a changed-only form leaves another user's
  change to an untouched field alone; a field is stored as it was shown, with the
  exceptions the property names. The widest of them is that a route answers success
  and ignores a field its update schema does not know: the division and department of
  an employee (`EmployeeRecordsUpdate`), the employee and project of an assignment,
  the assignment of a task. Their forms let all of them be edited.
- `FailureTold`: a save that fails is told by a toast or on its form, unless its
  sheet was closed over it or the page was left.
- `RefusalStands`: a leave request that was rejected or cancelled is never approved
  after all, though Approve was pressed on a list that showed it pending, because
  `approve_request` reads the row for update. It is the one order of verdicts that the
  routes exclude. `reject_request`, `cancel_request` and both verdicts on an
  adjustment read the status in one step and write theirs in another
  (`ReadStatus`, `Commit`), so approved leave can end rejected, and an
  adjustment that ends rejected may have been applied; the verdict on overtime is a
  flag that each click overwrites. Cancel is offered, and allowed, on approved
  leave too (`Offered`, `Allowed`).
- `SavedThenShown`, `SavesEnd`: a saved change is shown in the end; no "Saving..."
  stays.

*Bounds.* `MaxSaves` is 2 for buttons: two verdicts, or a delete pressed twice.
`FormSaves` is 1, and `FormTurns` 1 beside `MaxTurns` 2. One save meets every
other event of its story: its sheet closed and opened for another row, a change
by others, a list request before or after it, a lost answer, a page left. Two saves of
forms overlap only when a sheet is closed over the first; all safety and action
properties and the refinement also hold with `FormSaves` 2 (more than twenty
million states, too long to repeat with the rest), and most are proved for any
number.

*Fairness.* Weak fairness of the server's reading and of its handling of each
request, and of the delivery of each answer that is not lost, as nothing disables
them but what ends them. Strong fairness of `FetchAnswer`, as an invalidation or
the closing of a sheet cancels a list request and starts it over, which nobody
does forever faster than a request takes. Nobody has to press a button.

### Proofs

`ResourcePagesProofs.tla` proves, for any catalogue of behaviours that meets
`CatalogAssumption`, any rows and contents and any number of saves and turns:

- `TypeCorrect`, from `TypeInv`: a page on screen has the form its sheet shows, and
  the changes still to come are within the bound;
- `ListSettlesFreshHolds`, `ImplementsFreshListHolds`, for a catalogue whose saves
  and removals invalidate the list they are on (`RefreshesAll`). `FreshInv`: an
  answer on its way is at least as new as `due`, and so is a loaded list that is not
  stale, because being told of a change starts the request over. The refinement maps `FetchAnswer` to `Show`, `AnswerOk` to
  `Tell`, `Commit` and `Others` to `Change`, and what starts or ends a request to
  `Rest`;
- `SavesOwnRowHolds`, `UntouchedAsListedHolds`, from `FormInv`: what a mounted
  form holds and for which record, by the way it is mounted;
- `UntouchedKeptHolds`, `StoredAsShownHolds`, from `SaveInv`: a request carries
  what its form showed when it was sent, and a changed-only form carries nothing
  of an untouched field;
- `RefusalStandsHolds`, from `VerdictInv`: an approval between its read and its write
  holds its row, which is not refused meanwhile;
- `FailureToldHolds`, for a catalogue in which every save is told of by a toast or
  on its form (`TellsAll`), from `ToldInv`: a pending save whose sheet nobody
  closed is the one its form waits for.

`RefreshesAll` and `TellsAll` are hypotheses about the catalogue and say what
every page owes the properties; the run shows the catalogue of this client meets
them. `CatalogAssumption` is a named assumption that the run evaluates: a
page with a form that is never reset has no Edit, and a page whose verdicts look at
the status of a row changes its rows in no other way. Model-checked only: `SavedThenShown` and `SavesEnd`, which
are liveness properties.

### Seen on the way, not modelled

The sidebar asks for the permission of one module and the page it leads to for
another: `division` in the sidebar and `divisions` on the page, and so for
departments, positions, project types, categories, model types, owners, employee
projects and tasks. A role with the one code sees the link and a page without
permission. Which modules a role holds is data, so the model leaves it out.

## 7. The payroll page and the subdivision wizard

### The payroll page

`PayrollSession.tla` composes the page with the routes it calls. A Generate
carries the identity of its run (`generationId`), drawn when the page opens and
whenever a preview arrives.

| State | Code |
|---|---|
| `hasty` | whether this user goes on clicking while a request is pending |
| `step`, `inputs`, `review`, `dirty`, `uncertain`, `id` | the step, the form, the entries, `reviewDirty`, `generationUncertain`, `generationId` |
| `preview`, `posts`, `awaited` | the preview in flight; the Generates sent; the one the page waits for |
| `run`, `decisions` | the run of the result step; Approve and Void, each with the run its click was made on |
| `runs`, `others` | `payroll_run`; what other users still do |
| `disputed` | no state of the code: the runs that others decided, or that two decisions from here met at |

| Actions | Code |
|---|---|
| `ChangeInputs`, `Preview`, `Recalculate`, `PreviewAnswer`, `PreviewFails`, `Back`, `EditOvertime` | the first two steps |
| `Generate`, `GenerateOk`, `GenerateRefused`, `GenerateLost` | `generateMutation` and its callbacks |
| `Serve`, `Refuse` | `generate_payroll`: under the advisory lock of its identity an existing run is answered if its payload is the same |
| `Decide`, `ReadRun`, `WriteRun`, `DecideOk`, `DecideFails`, `OthersDecide` | approval and voiding, which read the run without a lock and write it later |

A Generate whose answer is lost may be served at any later moment. Preview, Back
and the overtime fields are not disabled while a Generate is pending, so what the
page promises depends on the user: the *patient* one waits for answers, the *hasty*
one does not. `PatientRetrySafe` says that for a patient user an uncertain
generation can be repeated, with the identity and payload of the one that is
uncertain. For a hasty one it cannot: the run `payroll_retry` presses Back while
a Generate is pending, its answer is lost, and the page stands on its first step,
telling to retry what it can no longer retry.

`GeneratedAsReviewed` says that what is generated is what was reviewed, again for a
patient user only: a hasty one can change the inputs while a preview is on its way,
and then Generate sends the new inputs with the entries of the old, which the model
reaches and no property forbids.

`ResultTruthful` is about every user. The page puts the answer to Approve or Void
together from the run of the click (`setRun({ ...run, status })`), so a late answer can
bring an earlier run back. The property says that whatever run is shown is
stored, with the payload shown; that it is shown as decided only if the server has
decided it; and that it is shown with the server's own decision unless the run is
disputed, by another user's decision or by Approve and Void of one run both under
way. A decision whose answer is lost may be served at any later moment, as a
Generate may.

The page also tells (line 152) that "Preview and recalculation currently save draft
runs". In the code they save nothing (`preview_payroll`), and the model stores a run
in `Serve` only; the sentence is out of date.

### The subdivision wizard

`PropertyWizard.tla` has the three steps of the wizard, the submission with its
two requests (a project, then its category), and the two tables with their unique
codes. `created` is the project that stays when the category fails, so that Retry
repeats only the category. `WizardSound` says that in one use of the wizard there
is one project, plus at most one for each lost answer to a project; that every
category hangs from a project of the same use, its lot in its block in its phase;
and that a use that ended in success left both.

It says nothing of the phase belonging to the subdivision. The phase, block and
lot stay chosen when the user goes back and picks another subdivision, and the
server compares none of them; the model reaches that state, and the hazard is
listed without a property because nothing in the code promises otherwise.

### The run and the proofs

`flows` checks both in one run: a behaviour is a session of either page
(`MCClientFlows`), as they share no state. *Bounds*: three identities and two
Generates are a Generate, its repetition, and a preview after each; two inputs and
one typed overtime tell a changed review from an unchanged one; one decision by
others meets one of the page's own. In the wizard, two uses and four requests are a
project, its category and a repetition of each, or two uses in a row; two
subdivisions, two codes and one phase each. Inputs, subdivisions and codes are
interchangeable, so the run uses symmetry; it checks no liveness. A session may
stop (a request is never answered, or the bounds are reached), so deadlock is not
checked, and no fairness is assumed.

`PayrollSessionProofs.tla` proves `TypeCorrect`, `PatientRetrySafeHolds`,
`GeneratedAsReviewedHolds` and `ResultTruthfulHolds` for any inputs, overtimes,
numbers of identities and requests, and decisions by others. The first needs
`Shape` (each step has what it shows); the second `PatientInv`, that requests are
sent in order and that a patient user has one thing pending at a time, the Generate
awaited being the last one sent; the last `TruthInv`. A run is `Unshown` while the
page has not come to its result, and no step makes one unshown again. What a decision
is about has been shown, so the Generate awaited asks for a run that nothing here
decides (`UnshownDraft`, `AwaitedTrue`); an undisputed run has one decision
under way, and if it is the one shown, it is shown as a draft (`FlyingTrue`); and no
stored run becomes a draft again (`DecidedInv`, `NeverDraftAgain`).

Two more theorems say what requests and decisions leave on the server, for patient
and hasty users alike. `RunsKeptHolds`: in every step a stored run stays stored with
the payload it was generated from. `ForwardHolds`, and its corollary `VoidStays`:
only a draft is approved, only a draft or an approved run is voided, and a void run
stays void, if no decision of a run is written while another stands between its
read and its write (`DecidedApart`). The routes do not see to that, as they read
the run without a lock: a run read as a draft, voided by another user and then written
is an approved one. The theorem says that a lock from the read on is all that is
missing. Its invariant is `ReadStands`: what a decision has read still allows it.

The assumptions are that "nothing" is none of the values it
stands in for and that the computed overtime is not a typed one.

`PropertyWizardProofs.tla` proves `TypeCorrect` and `WizardSoundHolds` for any
subdivisions, codes, phases, uses and number of requests, under `WizardConstants`
("nothing" is none of the values it stands in for), which the runs
evaluate. Its invariant `WInv` is made of

- `Steps`: the last step has a category typed, and the request a submission waits
  for is of this use, for a project until one is made;
- `Asking`, `Tables`: a request served has left its row, a category request names a
  project of its use, and codes are unique;
- `OneEach`: in each use at most one project is not owed to a lost answer; it is
  the one the page remembers or is about to.

`ProjectsCounted` turns that into the bound: the other projects of a use are
mapped one to one to its lost requests, as no two projects share a code.

`MCClientFlowsProofs.tla` carries both over to the run. `FlowsArePages`, `FlowSpec =>
Spec /\ Wizard!Spec`, says that a session of either page is a behaviour of both
specifications, the other page standing still. `FlowsTypeCorrect`,
`FlowsWizardSound` and `FlowsPayrollSound` follow from it and from the theorems of the
two pages, under the assumptions of both.

Abstracted: leaving either page; a second click before the first has disabled its
button; a phase has one block and a block one lot.

## 8. What is not modelled

The inventory's other components, for the reasons `PROJECT.json` gives: they are
planned above, or they are CRUD of single rows, read-only, generated, or
presentation. Within leave requests: the permission checks in front of the
handlers, pagination and the read-only lists, the wording of errors. Within
roles: the permission lists of a role, and the routes by which users change their
own profile. Within the import: a refreshed token and the repeated request that
follows it, the dropping of the slot on a change of account, leaving the page
while an import runs, CSV syntax errors, and posts without an import key, which
are plain inserts. Within the list pages: filters, search, paging, exports, the
Archive button inside the salary form, permission gates, and links between pages.
Within payroll: the list of runs and the page of a run beyond its two buttons,
regeneration, edits of entries on the server, payslips, supplemental runs and loans.
Of the client as a whole: the employee CSV wizard, sign-in and the refresh of
tokens, the presentational components (`components/ui`, tables, layout), and the
dashboard, settings, users, tasks, chats and apps features, which are templates
over fixed data.
