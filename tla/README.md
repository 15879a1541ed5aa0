# Invoice generator: TLA+ models, checks and proofs

The repository is a small web application: time entries and rates in, invoices
out. `invoice-service/` is a Go server (net/http, one SQLite file per user
through database/sql, HTMX pages); `ocr-service/` is a Python service that reads
photographed time sheets. This directory models the parts in which order,
concurrency or failure matter, checks them with TLC on small instances and
proves the most important results with TLAPS.

All Go paths below are relative to `src/invoice-service/`, `db`, `handler`, ...
being directories of `internal/`.

## 1. The system

| component | state | operations | interacts with |
|---|---|---|---|
| entries (`db/entries.go`, `handler/entries.go`) | table `entries` | create, update (after a category check), delete | read by invoices, dashboard; written by the OCR import |
| rates (`db/rates.go`, `handler/rates.go`) | table `rates` | create, update (after an overlap check), delete | joined with entries |
| settings (`db/settings.go`) | table `settings` | load, save | copied into every invoice, read again for every PDF |
| invoices (`db/invoices.go`, `handler/invoices.go`) | `invoices`, `invoice_lines` | generate (one transaction), delete, list, get | reads entries, rates, settings |
| dashboard (`handler/dashboard.go`) | none | monthly summary, count of unrated entries | same join as invoices |
| store and migrations (`db/db.go`, `migrations/`) | SQLite file, connection pool, `schema_migrations` | open, pragmas, migrate, close | under all of the above |
| OCR import (`ocrimport/importer.go`, `db/ocr.go`, `handler/ocr.go`, `handler/ocr_jobs.go`) | sessions, images, drafts, upload directory, background jobs | upload, process, review, edit, confirm, delete draft, delete session | calls the OCR service, inserts entries |
| OCR client (`ocr/client.go`, `ocr/contract.go`) | none | one request per image, 120 s each | between job and agent |
| OCR agent (`src/ocr-service/`) | none across requests | rounds of extraction, validation, correction | one thread serves the jobs of all users |
| user store cache (`db/multistore.go`, `handler/store_provider.go`) | map of open stores, two mutexes | look up or open, evict, sweep, close all | every request and job takes its store here |
| server lifecycle (`cmd/server/main.go`) | phase | start, shutdown in three steps | requests, jobs, cache |
| invoice delivery (`invoicedelivery`, `email`, `pdf`, `templates/invoice-maker.typ`) | none of its own | preview, render a PDF, send it | reads invoices and settings |
| authentication (`auth`, `db/authdb.go`, `handler/auth_handlers.go`, `static/auth.js`) | users, credentials, sessions, pending ceremonies | register, log in, log out, clean up | guards every request |
| auth rate limiter (`handler/auth_rate_limit.go`) | counters per route and client | allow | in front of authentication |
| `migrate-to-user` (`cmd/migrate-to-user`) | none of its own | copies a legacy database into a user's | opens and migrates the same database as the server |
| CSRF and security headers, routing, tracing, configuration, `migrate-csv` | none | | around every handler |

What is hard about it, and what makes each component correct:

- **Ledger** (entries, rates, settings, invoices). Handlers run concurrently and
  their SQL statements interleave. An invoice must bill every hour in its scope
  once, at the rate of its date, under a number of its own, and must not change
  afterwards. Checks are sometimes in the same transaction as the write
  (invoices) and sometimes not (rates, entries).
- **OCR import.** A background job, several tabs, a remote service and the file
  system work on one session. A draft must become one entry; the state of the
  session must agree with its drafts; every import must come to a result; files
  must live exactly as long as their session.
- **OCR agent and client.** A job gives a request up after 120 s and the service
  goes on with it. No line of a time sheet may be lost or doubled on its way; a
  late answer must reach nobody; what is shown without a reason for review must have
  a rate, although service and program read its fields with parsers of their own; the
  loop must end whatever the model answers.
- **User store cache.** A pointer handed out once is used much later. A user must
  have one store; nothing may be leaked or closed twice; no store should be closed
  under a request or a job; the shutdown must not leave work behind.
- **Authentication and rate limiter.** Ceremonies live in memory, users in a
  database; a registration is two requests and four statements, and each can
  fail, be repeated or be cut off. A name must have one account; an answer must
  be acted on once; nobody may be signed in to an account without a passkey; the
  limits of the two halves of a ceremony must fit together.
- **Migrations.** A file and its record are two transactions, and two processes
  may run them. A database in use must have every migration, whoever crashed
  where, and no migration may lose what users stored.
- **migrate-to-user.** Four copies, each of which may fail, repeated at will while
  the user works. Nothing may be doubled unasked or mixed up with the user's own
  rows. (What it loses, it often loses without a word; section 6.)
- **Delivery.** Invoice, lines and settings are read one after another, while they
  change. What is sent must be the whole invoice, for one customer, at the amounts
  of the invoice.

`PROJECT.json` lists the hazards line by line, with the properties that answer
for each.

## 2. Modules

| module | what it is |
|---|---|
| `Billing` | the SQL of the bill as operators: which rate prices which entry, overlap, lines, totals, numbers |
| `InvoiceBook` | abstract specification: an invoice appears in one step, with what the tables say at that moment, and never changes |
| `Ledger` | one user's tables and the requests that read and write them, statement by statement; implements `InvoiceBook` |
| `DraftReview` | abstract specification: the drafts of a session come once; the form a tab sends is imported whole, in one operation, or lost; drafts are edited and discarded one at a time |
| `OcrImport` | sessions, jobs, tabs, drafts and files of one user; implements `DraftReview` |
| `OcrAgent` | the jobs of all users, the queue in front of the OCR service, and its loop |
| `MultiStore` | the cache of stores, the workers that use them, sweeper and shutdown |
| `RateLimiter` | the windows of the rate limiter |
| `Auth` | pages, ceremonies, handlers and the auth database; extends `RateLimiter` |
| `Migrations` | processes that bring a database up to date file by file |
| `UserMove` | `migrate-to-user` next to a running server; extends `Migrations` |
| `Delivery` | preview, PDF and e-mail of invoices that are deleted and settings that are saved meanwhile |
| `Sums` | lemmas about sums over finite sets and about functions with finite ranges |
| `LedgerProofs`, `OcrImportProofs`, `OcrAgentProofs`, `MultiStoreProofs`, `AuthProofs`, `UserMoveProofs`, `DeliveryProofs` | theorems about the module of that name |
| `MCLedger`, `MCOcrImport`, `MCOcrAgent`, `MCMultiStore`, `MCAuth`, `MCUserMove`, `MCDelivery` | instances for TLC |

Definitions whose comment starts with "Mutant:" are altered forms of the
definition that follows them. No specification uses them; each is a plausible
bug of the code that a property must, and does, detect.

### Ledger

`req[p]` is the handler that request slot `p` runs and what it remembers. The
actions of an operation are its database steps:

- `createEntry`, `updateEntry` = `CheckEntry` (`entryCategoryExists`), then
  `WriteEntry`; `createRate`, `updateRate` = `CheckRate` (`checkRateOverlap`),
  then `WriteRate`. The two steps are apart because the code runs two statements.
- `generateInvoice` = `LoadSettings`, then the transaction of `GenerateInvoice`:
  `ReadInvoice` (count of unrated entries, lines, number, all from one snapshot)
  or `RejectInvoice`, then `InsertInvoice` (the first INSERT takes the write lock)
  or `InsertRefused`, then `CommitInvoice`.
- `DeleteEntry`, `DeleteRate`, `DeleteInvoice`, `SaveSettings` are single
  transactions.

SQLite in WAL mode is modelled by what the code depends on. `tx.Begin()` is a
deferred transaction: it reads the snapshot of its first SELECT, and its first
write fails with SQLITE_BUSY if another transaction holds the lock or a commit
has made the snapshot old. `missed[p]` collects the kinds of commits that
happened since `p` read, so the model needs no copy of the tables. The pragmas of
`Open` run on the first connection of the pool only; `pooled` says that another
one may be in use, on which ON DELETE CASCADE does nothing and a lock is refused
at once. Dates are numbers in the order of the ISO strings; hours and amounts are
integers fine enough that ROUND(x, 2) does round.

### OcrImport

One handler per tab (`req`), one job per session (`job`), and what the page of a
tab offers (`page`), which may be old. Every statement, file operation and call of
the service is a step; the two transactions (`ConfirmDraftEntries`,
`DeleteDraftEntry`) are one step each, because their first write holds the lock
and an old snapshot is refused (module `Ledger`). A draft's fields are one value;
`Blank` stands for everything the validators reject. `DropSession` may cascade or
not, as in `Ledger`; without a row there is nothing to cascade from. `faulty`, chosen at the start of a behaviour, says whether
statements may be refused and the process may crash in it; after a crash handlers
and jobs are gone and tables, files and open pages remain.

### OcrAgent

A job goes through its images: `Call` puts a connection into the backlog of the
service, `TimeOut` gives it up (`HangUp`: the request stays where it is, and is not
`live` any more), `Answer` merges the rows and, after the last image, makes drafts of
them (`NormalizeOCREntry`, `buildDraftEntries`). The service takes one connection
after another (`Accept`) and runs `extract_page`, `validate_page` and
`correct_entries` as `ExtractPage`, `ValidatePage`, `CorrectEntries`, until a page is
clean, `MaxRounds` are used up, or a second reading is of no use. What the model
answers is any member of `Readings`.

The date and the hours of an entry are texts that two programs read: `validate_page`
with `strptime` and `float`, the Go server with `time.Parse` and `strconv.ParseFloat`.
An entry therefore has two readings of each (`DateTexts`, `HourTexts`), either of which
may be a refusal; they are equal where both parsers accept the text. `Fails` looks at
the service's, `Draft` and the property at the program's: a draft keeps the text of the
date, and hours `ParseFloat` refuses become 0. Categories are compared by `lower()`
(`Fold`) and `casefold()` (`Casefold`) in Python, trimmed (`Trim`) in Go, and equal or
not in SQL. Every error that is not an `OCRParseError` is
`Breaks`: an answer of 500, on which the job fails.

### MultiStore

A worker (request or job) waits for `ForUser`, finds the store in the cache or
opens one under `MultiStore.mu`, uses it and ends. Time passes in ticks, which
age cached stores and running workers; `Longest` bounds how long a worker may take.
`Sweep` and `CloseAll` do not take `mu`, like the code. `Shutdown`, `Drained`,
`CloseAll` are the steps of `main` after the signal. `server.Shutdown` waits 15
seconds: `Drained` finds the requests done ("joining") or not ("overdue"), and the
phases end "closed" or "cut" accordingly.

### RateLimiter and Auth

A slot is one run of `beginRegister` or `beginLogin` in a page: `BeginRegistration`
or `BeginLogin` (the begin request, which stores a ceremony in
`WebAuthnManager.sessions`), the prompt, and the finish request. `Take` is the
lookup and deletion of the ceremony under `m.mu`; then come the statements of
`FinishRegistration` (`CheckAgain`, `CreateUser`, `SaveCredential`) or `FinishLogin`
(`Verify`) and `SignIn`, each of which may fail (`Fails`). `TakeNothing` and
`FinishRefused` are the answers without a ceremony and with status 429, `Redeliver`
is a finish request that arrives twice. `Logout`, `Visit`, `Cleanup` and `Sweep`
end sessions and ceremonies, `Tick` ages them, `Crash` empties the memory. What the
WebAuthn library verifies is a choice.

A bucket of the limiter keeps how long its window still lasts (`left`) where the
code keeps when it ends, and a bucket whose window is over equals an absent one;
`allow` treats them alike.

### Migrations and UserMove

`Migrations` opens one of two kinds of databases. A process goes through the files:
`Check` (`isMigrationApplied`), `Run` (the transaction of the file) or
`RunRefused`, and `Record` (`recordMigration`), which ends the loop if another
process has recorded the file in between. `CheckFails` is the query that fails:
`Store` runs the file then, `AuthDB` skips it. Of a file the model keeps what
decides whether it can run a second time: CREATE IF NOT EXISTS, ADD COLUMN (a
duplicate is skipped), or the rebuild of the drafts table by `INSERT ... SELECT *`,
which fails once a later file has added a column, and would otherwise leave a table
without it. `StoreDraft` is the data that a
late or repeated migration could lose.

In `UserMove` the server and the tool are two such processes. The tool goes through
`CountEntries`, `Answer` ("Continue? (y/N)"), `CopyEntries`, `CopyRates`,
`CopyInvoices` and `CopySettings`; a copy leaves out the rows that fail, which the code
logs, or ends early as if it were complete, because no loop looks at `rows.Err()`; or it
fails as a whole (`CopyFails`) and the next one begins. Either way any subset of the
rows may arrive, of the settings, too, and an invoice may arrive without its lines
(`bare`). Of the columns a copied invoice has those of `001_initial.sql`; the snapshot of
the customer, UTR, payment due and service dates stay at their defaults (`Copied`). `UserActs` is what the user does in the
server meanwhile.

### Delivery

A request reads the row of the invoice (`Arrive`), its lines (`ReadLines`), both
once more (`ReadAgain`, as `RenderPDF` and `Send` do), the settings (`LoadSettings`),
and then renders and mails. `Issue`, `Delete` and `SaveSettings` run in between. The
amounts of an invoice are computed as the database does it, from unrounded hours and
rates (`Hours` and `Amount` round the two sums separately), those of the PDF as
`BuildPDFData`, `FormatInvoiceTyp` and the typst template do it, from whole minutes of the
rounded hours and a rate written with two digits. `Fine` is how many parts of a hundredth
of an hour, and of a penny, the model tells apart.

## 3. Runs

| run | shows | distinct states |
|---|---|---|
| `ledger_race` | two requests, edits and generation interleaved, restarts: `TypeOK`, `SnapshotCurrent`, `UniqueNumbers`, the refinement of `InvoiceBook`, `EveryRequestAnswered` | 130 000 |
| `ledger_serial` | one request, two categories with one slug, two months, ranges that touch, nest or stay open: `NoOverlappingRates`, `BilledOnce`, `DashboardAgrees` | 1 080 000 |
| `ocr_import` | two tabs and the job, with and without faults: `TypeOK`, `ConfirmedHaveEntries`, `StateMatchesDrafts`, `ImagesOnDisk`, the refinement of `DraftReview`, `SessionSettles`, `AbandonedByFaultOnly` | 175 000 |
| `agent` | two jobs at one service: `NothingLost`, `UnquestionedIsRated`, `OneRequestPerJob`, `ServiceFrees` | 137 000 |
| `stores` | three users on two places, slow jobs, a shutdown in time or not: `TypeOK`, `OpenIsCached`, `CleanShutdown`, `HeldStoresOpen`, `EveryWaiterAnswered` | 92 000 |
| `auth` | two pages, an old user in upper case, a crash or a second delivery: `TypeOK`, `OneAccountPerName`, `CeremonySpentOnce`, `SessionHasPasskey`, `AnswerAdmitted`, `CeremoniesLeave` | 436 000 |
| `user_data` | server and tool at one database, or a server at the auth database, new or old: `OpenIsMigrated`, `DraftsKept`, `OpensInTheEnd`, `LinesBelong`, `DoubledOnlyConfirmed` | 117 000 |
| `delivery` | two requests, deletion, three states of the settings: `DeliveredWhole`, `OneCustomer`, `TotalWithinRounding` | 635 000 |
| `ledger_overlap`, `ocr_twice`, `store_swept`, `pdf_customer` | each checks a sentence of the repository's documents or messages, and finds it violated (section 6) | |

**Bounds and why they are enough.**

- `Ledger`: `MaxEntries`, `MaxRates`, `MaxInvoices` only stop new rows. Races in this
  code are between two parties (two handlers; a handler and a job; a worker and the
  sweeper), so two of each are explored in full. Three invoices let a number be
  used, freed and used again with the suffix at its limit (`MaxSuffix` = 2 instead
  of 9999). Three rates and three dates give every relation of two ranges next to a
  third. `Cent` = 2 in `ledger_serial` makes hours and amounts that round.
- `OcrImport`: one session, because sessions share nothing but the counter of drafts;
  two images, one of them stored twice or broken; drafts complete, incomplete or
  none.
- `OcrAgent`: jobs of two and of one image, so that an answer can be merged with an
  earlier one; readings with entries at the limit of every rule (the last day of a
  rate and the one after, confidence 50 and 49, hours 0, a category in other case or
  with a space at its end) and one whose date and hours only Python's parsers accept;
  `MaxRounds` = 2 and a backlog of one as in the code's shape: more rounds repeat
  the same step.
- `MultiStore`: three users on two places force evictions; `IdleMin` = 2 ticks
  separates quick from slow workers.
- `Auth`: one browser with two pages is the worst case for limiter and ceremonies,
  which are per client; `TTL` = 0 and `PromptLimit` = 1 let a prompt outlast its
  ceremony; the policies keep the order of the code's (begin smaller than or equal
  to finish, login windows shorter than registration windows).
- `UserMove`: one fault, in any step; two copies, the second one onto the result of
  the first; two legacy invoices, of which one number may be the user's own by
  then; two settings, so that a part of them can be lost. The three files of the user's database stand for the three kinds.
- `Delivery`: one invoice (requests share nothing else), 0.334 h and
  0.344 h, which are both 20 minutes on paper, a rate of 45.505, and lines in even
  steps, all in tenths of a hundredth (`Fine` = 10); customers with a full, a partial and no address of their own.

**Deadlock** is checked except in `ocr_import`, `ocr_twice` (when the sessions are
used up and no job runs, nothing is left to do), `stores` and `store_swept` (after
the shutdown the process is gone). No symmetry is used.

## 4. Fairness

- `Ledger`: weak fairness of the steps of a running handler. A goroutine is
  scheduled, and SQLite answers every statement, if only with SQLITE_BUSY. No
  request is ever obliged to arrive.
- `OcrImport`: weak fairness of handlers and of jobs; the client of the OCR service
  gives up after 120 s, so its call returns. `SessionSettles` holds while somebody
  works on a session; `AbandonedByFaultOnly` says when nobody does any more.
- `OcrAgent`: weak fairness of the service at work. Its calls of the model end by a
  reply or a timeout of their client. Jobs are under none.
- `MultiStore`: strong fairness for getting the mutex (`sync.Mutex` hands itself to
  a goroutine that has waited for a millisecond), weak fairness for opening a
  database.
- `Auth`: time passes, the ticker of the sweeper fires, and a page answers its prompt
  or gives it up (browsers end a prompt). No handler is obliged to go on.
- `UserMove`: weak fairness of a process that migrates; statements end by the busy
  timeout, and a failed start is repeated.
- `Delivery`: none. Nothing in the code bounds the time of typst.

## 5. Proofs

All theorems are checked by `tlapm`. The assumptions are the named ASSUMEs of the
modules, which say what the code's validation and limits guarantee about the
constants; TLC evaluates them in the runs.

| module | theorem | statement |
|---|---|---|
| `LedgerProofs` | `TypeCorrect` | `Spec => []TypeOK` |
| | `OneWriterHolds` | `Spec => []OneWriter`: the write lock has one holder |
| | `SnapshotHolds` | `Spec => []SnapshotCurrent` |
| | `NumbersUnique` | `Spec => []UniqueNumbers` |
| | `LedgerImplementsBook` | `Spec => ImplementsBook` |
| | `DashboardHolds` | `Spec => []DashboardAgrees` |
| | `SerialRatesDisjoint` | with one request slot, `Spec => []NoOverlappingRates` |
| | `SerialBilledOnce` | with one request slot, `Spec => []BilledOnce` |
| `OcrImportProofs` | `TypeCorrect` | `Spec => []TypeOK` |
| | `MarksAreTrue` | `Spec => []ConfirmedHaveEntries` |
| | `StatesAgree` | `Spec => []StateMatchesDrafts` |
| | `ConfirmedStay` | `Spec => ConfirmedDraftsStay`: a confirmed draft stays as long as its session |
| | `ImportImplementsReview` | `Spec => ImplementsReview` |
| | `ImagesStay` | `Spec => []ImagesOnDisk` |
| | `OnlyFaultsAbandon` | `ServiceConfigured => (Spec => AbandonedByFaultOnly)` |
| `OcrAgentProofs` | `OneRequestHolds` | `Spec => []OneRequestPerJob` |
| | `NothingLostHolds` | `Spec => []NothingLost` |
| | `UnquestionedHolds` | `Spec => []UnquestionedIsRated` |
| `MultiStoreProofs` | `TypeCorrect` | `Spec => []TypeOK` |
| | `NoStoreLost` | `Spec => []OpenIsCached` |
| | `NoStoreTwice` | `Spec => []OneStorePerUser` |
| | `ShutdownIsClean` | `Spec => []CleanShutdown` |
| | `StoresStayOpen` | `Spec => HeldStoresOpen` |
| `AuthProofs` | `TypeCorrect` | `Spec => []TypeOK` |
| | `OneAccountHolds` | `Spec => []OneAccountPerName` |
| | `SessionsHavePasskeys` | `Spec => []SessionHasPasskey` |
| | `CeremonySpentOnceHolds` | `Spec => []CeremonySpentOnce` |
| | `AnswerAdmittedHolds` | `Spec => []AnswerAdmitted` |
| `UserMoveProofs` | `RecordedHolds` | `Spec => []RecordedIsApplied` |
| | `OpenHolds` | `Spec => []OpenIsMigrated` |
| | `ReasonsKept` | `Spec => DraftsKept` |
| | `LinesBelongHolds` | `Spec => []LinesBelong` |
| | `DoubledOnlyConfirmedHolds` | `Spec => []DoubledOnlyConfirmed` |
| `DeliveryProofs` | `DeliversWhole` | `Spec => []DeliveredWhole` |
| | `DeliversToOne` | `Spec => []OneCustomer` |
| | `TotalsHold` | `Spec => []TotalWithinRounding` |
| | `LineWithinRounding` | one line of `TotalWithinRounding`, for hours and rates of any precision |

**Ledger.** The argument goes in four layers. `TypeOK` is inductive because it
also says that every stored id is below its counter. `OneWriter` is inductive on
top of it: the lock is granted to a transaction nothing has overtaken, and every
other commit needs the lock to be free. `SnapshotCurrent` follows: a commit that
changes entries, rates or invoices puts its kind into `missed` of every reader, so
a reader with an empty set has read the current tables, also where only a part of
the entries is rated. Uniqueness of numbers and the refinement are then properties
of the one step `CommitInvoice`, which inserts what the current tables give; the
mapping collects the lines of each invoice from `lines`, and lines without an
invoice (section 6) are invisible to it, because ids are never reused. For rates,
one request slot makes check and write adjacent: the pending row of the only
request is compatible with every stored rate, and that strengthening makes
`NoOverlappingRates` inductive. With two slots the statement is false.

**Amounts.** `BilledOnce`, `DashboardAgrees` and `TotalWithinRounding` compare sums of
rounded numbers. `Sums` proves what they need of a sum over a finite set: that it
may be taken in any order, split by a predicate or by groups, and is bounded term by
term. The library's induction theorems take a predicate as a parameter, which the
provers here cannot instantiate; `Sums` argues by a least counterexample instead,
strict inclusion being well-founded on finite sets and < on the naturals. An
invoice's hours are then the entries grouped by category and rate, each group rounded
once. If no two rates of a category cover a date, every entry is in one group, which
is `BilledOnce`: it is proved where `NoOverlappingRates` is, with one request slot.
The dashboard groups the same rows more coarsely, so `DashboardAgrees` holds in every
state, overlapping rates or not. A line of a PDF goes through four roundings (hours, minutes,
rate, total) and the stored amount through one. Each moves a number by at most half a
unit, which is all the proof uses of `Rounded`, so that it does not matter to which side
floating point takes a tie; `Slack` adds the four up. A line in even steps loses nothing
in the first three, and the last rounds the same number as the database, which must not
be a tie (`Even`).

**OcrImport.** `Types` adds to `TypeOK` that the tables are finite and that what jobs,
handlers and pages name has been given out before. On it rest three independent
arguments. What one step does to one draft (`DraftFate`) shows that marks and
entries move together. What the loop of `ConfirmDrafts` has let pass stays valid
(`AllPassed`), so that the skipping in `ConfirmDraftEntries` is never reached, because every later edit passes through the same loop. And nobody
reviews a session that an upload or its job still writes (`Apart`): a job exists only
after its upload is over, a review form only after its job is, and what the job
found is saved into a session without drafts. With `Apart` the state of a session
follows its drafts in every step, and a confirmed draft is never cleared by a job.

The refinement maps the state of a session to its review status ("waiting" before
and after a failed extraction) and hides images, files, jobs, handlers, pages and
faults. `RInv` adds what its steps need: a job that still extracts meets no draft,
not even one left behind by a deleted session (`Vacant`); what a tab reviews has a
result (`Offered`); the ids a tab sends belong to the session it names (`Named`);
and the entries of a draft are numbered, so that every import makes a new one
(`Numbered`). `sent` is the form in the hands of the handler that edits or
checks its drafts (`FormOf`). Then `JobSave` is Extract, `JobFinish` Offer, `SubmitConfirm`
Submit, `EditDraft` Edit, `ConfirmDraftEntries` Import of every draft of the form and of no
other, or Lose if one of them is gone; a refused form, a failing check or statement and
a crash are Lose, too; `DeleteDraftEntry` is Discard, the two deletions of a session
Close, and everything else a stutter. `DraftReview` lets an
imported draft be imported again, because the code does (section 6).
`ConfirmedStay` says the part of it about single drafts by itself.

**MultiStore.** `OpenIsCached` needs that `mu` has one holder and that a user whose
store is being opened is not in the cache. That also gives a fresh id for every new
store (by counting: every other id of that user is held by a worker), so a cached
store has lain idle for no longer than each of its workers has had it, and
`HeldStoresOpen` follows step by step.

**Auth.** The invariant says what each handler relies on between two statements. The
UNIQUE constraint compares names as they are written, so the uniqueness of names
regardless of case needs that the handler about to create a user has seen no row
in another case, and that new rows are in lower case: the only row that can have
appeared meanwhile is one the constraint detects. `CeremonySpentOnce` needs that
the ceremony of a working slot is not pending and has no other working slot.

`AnswerAdmitted` is about the proportion of the policies and holds whenever
`PoliciesAssumption` does: for some k, a window of finishing and a prompt are no
longer than k windows of beginning and an instant, and k + 1 windows of beginning
admit no more than one of finishing. The code has windows of an hour and prompts of
minutes (k = 2), and 3 * 3 is less than 10. The invariant `Paced` counts, for each client,
the finish requests still to come by the age of their prompts: as many as are younger
than the last k + 1 windows of beginning were let in by them, and those
still to come with those counted in the running window of finishing were let in by
the windows that one reaches back to.

**UserMove.** `Behindhand` says what a process has seen of the files it has passed: each
of them is in the schema, or in `skipped`. It is what `OpenIsMigrated` needs when
processes start, crash and overtake each other. The copies are followed by what the
tool may assume in each of its phases: numbers and lines that match (`Lines`), and no
entry in the table twice before the operator has agreed (`Undoubled`).

`DraftsKept` needs that a draft has a reason only where the column for it is
(`Reasoned`): the server that stored it had found every migration. A rebuild that
comes late is refused there, because it copies all columns.

**Delivery.** What a request carries is described at each of its points.

**OcrAgent.** The request of a job is live in exactly one place, the queue or the
thread. `Carried` follows the entries of a page on their way: through the loop of
`validate_page` (`Sorted`), which puts each of them on one side, through a correction,
which is taken only if it has as many as were asked for, into the answer and the
rows of the job, which grow by the images one after the other. An entry on the
clean side fails no rule (`Passed`): it has a date in the service's reading, a known
category up to `lower()`, and a rate up to `casefold()`. What `buildDraftEntries` makes of
it keeps the rate (`Rated`), if the program can read the date at all, the category is
exactly a known one, and no two names differ only in case (`Distinct`): these are
the conditions under which the exact join of the invoice finds what the service found.
It is assumed of `Fold` and `Trim` that `lower()` makes no text empty and adds or removes
no white space at its ends, and of the hints that the server stores names trimmed.

Only model-checked are the liveness properties (`EveryRequestAnswered`,
`SessionSettles`, `EveryWaiterAnswered`, `CeremoniesLeave`, `OpensInTheEnd`,
`ServiceFrees`): the prover does not handle ENABLED, which their fairness is about.
Every other property of a run that passes is a theorem; `NoOverlappingRates` and
`BilledOnce` are theorems for one request slot, the case of their run.

## 6. Where code and documents disagree

| run | what the trace shows |
|---|---|
| `ledger_overlap` | two requests add overlapping rates (check and insert are two statements); entries are then billed twice |
| `ocr_twice` | a draft confirmed from two tabs, or twice by a double click, becomes two entries |
| `store_swept` | the sweeper closes the store of a job that takes longer than ten minutes |
| `pdf_customer` | the PDF of an issued invoice is addressed to the customer of today's settings, not to the one the invoice stores and its page shows |

More is visible in the actions and has no run of its own:

- `Ledger`: PRAGMA foreign_keys holds on one connection of the pool, so an invoice
  deleted on another keeps its lines, against `001_initial.sql:45`. Of two concurrent
  generations one is refused with SQLITE_BUSY; `invoice-atomicity/spec.md:17` promises
  it the next number. The category of an entry is checked before the INSERT and may
  be gone by then; the settings of an invoice are read before its transaction.
- `RefuseForm`: one incomplete draft refuses the whole form (`importer.go:333-359`);
  `openspec/changes/fix-critical-bugs-and-hardening/specs/ocr-resilience/spec.md:35-37`
  demands that the others are confirmed and it is skipped: "3 entries are created and the
  notice shows "Confirmed 3 entries, 2 skipped (missing data)"". The skipping in
  `ConfirmDraftEntries` is never reached and the notice never counts a skipped draft.
  `ImplementsReview` states what the code does instead, a form whole or not at all: no
  action of the abstract `DraftReview` imports a part of a form, and one that
  did would be the behaviour the document describes.
- `RejectImage`: the image that fails validation stays on disk, because the
  cleanup of `StartSession` learns of a file only after it has been accepted.
  `RemoveImages` removes the file of the image row, so that the original of a
  preprocessed photo outlives its session, against the confirmation text in
  `ocr_upload.html:35`.
- `FinishUpload`: without `OCR_SERVICE_URL` no job is started, although
  `docs/ocr-setup.md:30` promises a stub; with `ServiceConfigured = FALSE`
  `SessionSettles` fails. `CleanupStaleOCRSessions` has no caller.
- `Normalized`: a category the agent left open and marked for review loses the mark
  when `NormalizeOCREntry` finds one (`importer.go:307-309`; the agentic loop design,
  line 123, keeps it). A category in other case satisfies the agent and is offered
  in the select of the review form as it is (`mergeDraftCategories`,
  `handler/ocr.go:241-263`), so that it can be confirmed; no rate of the right name
  is joined to the entry then (`invoices.go:376`), and it counts as unrated.
- `Draft`: the server reads hours and dates again. Hours that only Python's `float`
  accepts ("1_0", " 7.5") become 0.0 without a reason (`importer.go:311-314`), and a date
  that only `strptime` accepts ("2026-5-1") is kept; both are refused when the form
  is confirmed, and only then.
- `ExtractPage`: a model that cannot be reached gives a
  placeholder row and not a failed session (design, lines 173-175).
- `StartJob` of `MultiStore` is possible in every phase: a handler that outlasts
  `server.Shutdown` starts a job that nobody waits for (phase "cut").
- `CreateUser`, then `Fails`: a registration whose passkey could not be saved has
  taken its name for good, against the comment at `webauthn.go:42`.
- `CopyRates` copies rates again in every run, whether or not the operator was
  asked: the question is about entries only.
- `migrate-to-user` loses rows without a word: a query or scan of invoice lines that
  fails goes to `continue` (`main.go:282-284`, `288-290`), and no loop looks at `rows.Err()`
  (150, 199, 258, 285, 338), so that a read that breaks off counts as complete. An invoice
  copied without lines stays so, because a later run skips its number. The INSERTs
  leave out the columns of later migrations (220, 238): customer, UTR, payment due,
  service dates. Settings the user has saved are overwritten, and those that fail are
  skipped (340-346). Nothing in the repository promises more, so there is no property
  about it; what a copy may never do is `LinesBelong` and `DoubledOnlyConfirmed`.
- `PDFTotal`: the total of a PDF may differ from the total of the invoice and of its page
  within the roundings of `Slack`: 0.344 h are stored as 0.34 h and priced as 0.344 h, but
  printed as 20 minutes.
- `Mail`: the mail server may have taken a message whose sending the page reports as
  failed; the user then sends it twice.
- `RateLimiter`: no bucket is ever deleted from the map of the code.
- `app.go:243`: when `ForRequest` fails, the log line dereferences the user it did
  not get; such a request ends as `OpenFails`.

## 7. Not modelled

- CSRF comparison and security headers (stateless), configuration, tracing and
  logging (`traced_store.go` wraps every call and changes nothing), layout of pages
  and PDFs, infrastructure scripts: pure I/O, or nothing that interacts.
- `migrate-csv`: a loop over a file, run once.
- The mode without authentication: one store and no cache.
- The stub OCR client, which no configured server uses, and the fallback
  `OCR_AGENT_ENABLED=false` of the service, one reading without validation.
- Public paths, redirects and the pages that only read.

What would come next: a theorem about `RateLimiter` for any interval and not only for
its windows; and the composition of `MultiStore` with `OcrImport`, in which a closed
store makes the statements of a job fail (`JobRefused` stands for that now).
