# TLA+ models of harvest-service

harvest-service keeps the harvest records of beehives: one HTTP service over
one PostgreSQL table, with ownership of hives asked from hive-service on every
call and reminders kept by notification-service. The Go code is small and each
function is simple; what is hard is that every request is a chain of calls to
three other processes, without a lock, a transaction or a retry, while the
same happens in every other request, in a one-shot backfill job on the same
table, and in the services at the other end. These modules say what survives
that, check it with TLC on small instances, and prove all of it but the
liveness with TLAPS for every instance.

Paths below are relative to the repository.

## The system

| part | state | operations |
|---|---|---|
| `cmd/server`, `config`, `platform/postgres` | stage of start-up or drain, listener, connection pool | load configuration, connect, listen, drain, close, exit |
| `transport/http/router.go` | none that outlives a request | routes, authentication, 30 s per request, exists check, erase route |
| `transport/http/harvest` (handlers, bodies, filters) | none | decode, validate, call the service, translate errors, cancel the reminder after a Delete |
| `application/harvest` (`Service`) | none | Create, Get, List, ListAll, Update, Delete, DeleteByHive, DeleteAllByUser, GetInternalReportData |
| `repository/postgres` | table `harvests`, table `harvest_backfill_failures` | one statement per method; List runs two |
| `domain/harvest` | none | products, units, allowed pairs |
| `platform/hiveclient` | external: hives, their owner, writable or not | Verify, ListOwned |
| `platform/notificationclient` | external: reminders | Cleanup |
| `cmd/backfill-owners` | cursor and batch in memory | ListLegacy, owner lookup, SetUserID, RecordBackfillFailure |
| `migrations`, run by golang-migrate | schema, version, dirty mark | six files up and down, force |
| `cmd/dbclear` | list of tables in memory | list tables, one TRUNCATE |

How they interact. A client request runs in its own goroutine: handler →
`Service` → `hiveclient.Verify` (or `ListOwned`) → one or two SQL statements →
perhaps `notificationclient.Cleanup`. hive-service calls back with a cascade
(`DELETE /hives/{id}/harvests`), the account service with an erasure
(`DELETE /internal/.../users/{id}`), notification-service with an exists
check, a report consumer with `report-data`. Between any two calls any other
request, service or the backfill job may act; every call may fail with or
without its effect; the process may die. Nothing is shared in memory between
requests: all sharing is through the table and the other services.

What makes each part correct, in a sentence:

- single-record requests: each behaves as if it had its whole effect at one
  instant, on a record of a hive its caller owns, under validation that the
  table does not repeat;
- cascade: reminders are cancelled before their rows go, so that a failed
  cascade can be repeated;
- erasure: what is gone stays gone;
- lists and reports: exact when nothing changes, the caller's own records only
  whatever changes, and always an end;
- validation: what it accepts the table takes, and a query it accepts selects
  the records the documents say it asks for;
- process: a request that has got to its handler has the whole shutdown timeout
  (a connection whose header is still being read may not), the process ends in
  bounded time with an exit code that is true of the handlers, and comes up
  whatever the order its dependencies come up in;
- migrations: the version tells the schema, no day is shifted, and a clear is
  all or nothing;
- backfill: rows only gain the owner of their own hive, none is passed over,
  and the run ends.

`PROJECT.json` lists the hazards line by line with the properties aimed at
each, and the source lines of every definition.

## The modules

```
HarvestDomain ── ListFilters ──┬── RequestValidation ── MCRequestValidation
                               │         └── RequestValidationProofs ──┐
                               ├── ListFiltersProofs ──────────────────┤
                               └──────────┐                            │
HarvestTable ──┬── HarvestListing ────────┘  ── MCHarvestListing ── ListingClaims
               │         └── HarvestListingProofs ─────────────────────┘
               ├── HarvestRequests ──┬── HarvestRecords        (abstract)
               │                     └── HarvestService ── MCHarvestService ── HarvestClaims
               │                            └── HarvestServiceProofs ── HarvestRefinementProofs
               └── OwnerBackfill ── MCOwnerBackfill
                         └── OwnerBackfillProofs
ServerProcess ── MCServerProcess
      └── ServerProcessProofs
SchemaMigrations ── MCSchemaMigrations
      └── SchemaMigrationsProofs
```

**HarvestTable**: the `harvests` table as a function from ids to rows or
`Null`, and one operator per SQL statement. PostgreSQL makes a statement
atomic; under READ COMMITTED each sees the rows committed when it starts, and
an UPDATE or DELETE re-evaluates its WHERE on a row somebody else has just
changed, so one statement is one step. A row is `[hive, user, body]`; `user` is
`Null` on rows from before migration 5.

**HarvestRequests**: the calls a client may make and the answers it may get,
shared by the abstract and the detailed specification.

**HarvestRecords** (abstract): a record store whose requests take effect at
one instant between arrival and answer. A request that reports a failure did
all of its work or none; `phase` is the only control state. HarvestService maps
to it by `phaseBar`: a request that has its answer and only a reminder left to
cancel is done, any other one at a call is open; table, calls and answers are
the same variables.

**HarvestService**: the same operations as the code has them. `pc[r]` is the
next remote call of request `r`, and one action is that call with the code up
to the next one:

| action | code |
|---|---|
| `Begin` | authentication, path ids, `decodeAndValidate` in the handlers |
| `Verify` | `hives.Verify` and what Create, Update and the others make of its answer |
| `Insert`, `Get`, `Load`/`Update`, `Delete` | the rest of each service method, statement by statement |
| `Cleanup` | the best-effort cancellation after Delete (`handler.go:391`) |
| `ListIDs`, `CancelNext`, `Purge` | `Service.DeleteByHive`: list, loop, delete |
| `Erase` | the erase route |
| `CallFails` | an error of hive-service or PostgreSQL with nothing done; with the statement done it is a disjunct of the action itself |
| `Crash` | the process dies: local state is lost, the table stays |
| `HiveMoves`, `ExistsCheck`, `ReminderIsStored`, `CloseAccount` | the other services; `ExistsCheck` is this repository's `existsHandler` |

History variables (`home`, `cancelled`, `present`, `removed`, `seen`) remember what the
code does not, for the properties only; no guard that stands for code reads
them, except that a new uuid is one that `home` has never seen.

**ListFilters**: the query parameters of lists and reports
(`handler.go:199-329`, `report.go:70-99`): their errors, the calendar of
`time.Parse` and `AddDate`, the bounds they turn into, the WHERE those make,
and, beside it, what `api/openapi.yaml` says the query asks for.

**HarvestListing**: List, ListAll and the report, from the judgement of their
parameters by ListFilters to their answer, with the count and the page as two
snapshots, `ListOwned`'s and the report's paging loops, SQL ORDER BY as the set
of orders it allows, and writers changing the table in between.

**OwnerBackfill**: `cmd/backfill-owners` with several overlapping runs, beside
what the service does to the table.

**HarvestDomain**, **RequestValidation**: field validation of bodies, and
everything a client may send, bodies and queries, judged beside the table's
CHECKs (migration 1) and NOT NULL day (migration 2), the documented
product/unit pairs and the documented meaning of filters. A string in
`harvestedAt` is a day, a date-time or neither; the code takes days only.

**ServerProcess**: one process from `config.Load` to its exit code, and again.

| action | code |
|---|---|
| `LoadConfig`, `Connected`, `Refused`, `TimesOut`, `Aborted` | `run()` line by line up to the verifier, each call under the context that a signal cancels |
| `Listen`, `AcceptFails`, `RunReturns` | the goroutine of `srv.Run` and the `errCh` branch of the select |
| `Shutdown`, `Sweep`, `Drained`, `DrainGivesUp` | the signal's branch, under a context of its own, with what net/http's `Shutdown` does to connections |
| `PoolClosed` | the deferred `db.Close`, which waits for connections given out |
| `Accept`, `NextRequest`, `HangUp`, `ReadEnds`, `ReadExpires` | a connection: new, idle between two requests, and with the header of the next one half read |
| `Acquire` ... `Expire` | a request in its handler: working, waiting for a pool connection, holding one, out of time for a call (`CallExpires`) or for its connection (`Expire`) |
| `Signal`, `Kill`, `Restart`, `ServicesChange` | the container runtime and the services the start-up needs |
| `Tick` | time, which waits for whatever is due |

Where a connection is decides what `Shutdown` does to it, which is net/http's
and external: it waits for those with a handler (StateActive) and for new ones
(StateNew) up to 5 s old, `NewGrace`; it closes idle ones and, taking them for
idle, kept ones with a half-read header (StateIdle) and new ones that have been
silent for longer. The latter two are `unread` clients. It polls (`Sweep`), and
returns nil once nobody is left that it waits for. A handler is bounded by its
request's 30 s in its calls, and by the connection's read and write timeouts in
reading a body and writing an answer (`HandlerTime`).

It is a module of its own, not composed with HarvestService: the two share no
state but the requests, and what a request loses when its process dies is
HarvestService's `Crash`, which may happen at any point. ServerProcess says
when it may.

**SchemaMigrations**: the six migrations as what each file adds, drops and
does to a row; golang-migrate as mark dirty, run, mark clean, stopped between
any two; `cmd/dbclear` as list, then TRUNCATE; and a service writing rows.
`ForceVersion` is golang-migrate's `force`.

`...Proofs` hold theorems; `MC...` hold values of constants; `HarvestClaims`
and `ListingClaims` hold what documents say and the code does not keep.
Operators commented "Mutant" are not part of a model: each is a plausible slip
that breaks one property, kept to show that the property can fail.

## What is checked

Ids, users, hives and request slots are model values; a slot is reused as soon
as its request is answered, so sequences of requests are unbounded. Uuids are
bounded: a create starts only while a fresh one is left (`IdLeft`).

| run | bounds | shows |
|---|---|---|
| `crud` | Create, Get, Update and Delete on 2 slots, 2 users with a hive each, 2 ids, 1 legacy row, one valid and one invalid body, a reminder asked for and stored in between | `TypeOK`; `OwnerStamped`: a row's user is its hive's owner, although only `Verify` relates the two; `RowsWellFormed`: no way around validation; `DisclosureOnlyToOwner` and `CancelsOnlyOwn`: pairing one's hive with another's record id shows and cancels nothing, and a Delete cancels only for what it removed itself; `LeftOnlyIfAsked`: with calls that succeed, a Delete leaves a reminder behind only if the exists check was answered before it |
| `records` | 2 slots, 1 hive, 2 ids, 2 bodies, all operations, all failures, crash, account closed; fair | `RecordsSpec`: HarvestService implements HarvestRecords; `NoResurrection`; `CascadeCancelsFirst`; `ErasureIsFinal`; `EveryRequestAnswered`, the cascade's loop included |
| `entitlement` | 2 slots, 2 users, a hive that is locked, unlocked and deleted | `LiveEntitlement`: every change of a row is backed by ownership and, for writes, by an instant since the request arrived at which the hive was writable |
| `validation` | every known and some unknown products, units, operators and amounts; days at the ends of months, Februaries, years and of the calendar; strings for dates that are date-times or no dates; honey of three amounts on a few of those days, and wax on every one of them | `AcceptedIsStorable`, `ErrorsNameTheirFields`; `QueryIsReadAsAsked`: an accepted query selects exactly what it is documented to ask for; `ReportSpansAYear` |
| `backfill` | 1 job, 3 rows, batch of 2, all failures, kills; fair | `TypeOK`, `StampedWithOwner`, `OnlyAddsOwners`, `NoneSkipped`, `RunEnds` |
| `listing` | 1 reader, 3 ids, 3 hives of 2 users, pages of 2, hives one to a page, two days, two products and amounts, filters and orders, refused queries | `TypeOK`, `ListsOnlyOwn`, `ReportExactWhenQuiet`, `PageExactWhenQuiet` |
| `listing_ends` | fair, 1 reader, 3 ids, pages of 1, updates that take a record out of the range, a filter of the year 0 that PostgreSQL refuses | `ListingEnds` |
| `server` | 2 connections of clients, pool of 1, a tick of 5 s, the default timeouts and five other environments (one with 15 s to read, longer than net/http's 5 s for new connections, and 25 s to shut down), SIGKILL after 30 s; fair | `TypeOK`; `ExitCodeIsTrue`; `ExitsInTime`; `CutOnlyAfterGrace`; `NobodyIsCutShort`: at the defaults whoever is cut in a handler could no longer be answered, and no client loses its first request unread; `SignalEnds`; `ComesUp` |
| `migrations` | 2 ids, 2 kinds of record, mornings and evenings of 2 days, a session half a day ahead of UTC | `TypeOK`; `VersionTellsSchema`; `DaysKept`; `OnlyDuplicatesStopAFile`; `ClearIsAllOrNothing` |

Why this is enough. Requests interfere only through rows, so two of them at
once, one slot restarting while the other stands still, already give every
pair of interleaved operations; three ids make a last page that is not full;
two hives and two users are what ownership confuses. A second reader adds
nothing to HarvestListing: readers do not change the table. Where a run drops
a dimension (one hive in `records`, no failures in `entitlement`), the
theorems below hold with all of them together.

The failures of hive-service and PostgreSQL, and cascades, are in `records`,
not in `crud`, and `backfill` has one job: its theorems hold for any number of
overlapping ones, and so do the service's for all operations and failures.

In `server` a tick is 5 s: the default timeouts are 5, 10, 15 and 30 s, so that
all of them are whole ticks. A tick takes time from every timer at once and
waits until what is due has been done; within a tick anything may happen in
any order. The theorems hold for every timeout and every tick. In `migrations`
two rows are what a UNIQUE constraint compares, and half days are what a time
zone may move over midnight; a file is one step, since its statements are sent
in one message and run as one transaction.

Symmetry is used over request slots, only in runs without liveness. Deadlock
checking is off in `validation`, where one request is judged and the run is
over, and in `server`, where a process that was told to stop stays down.

Fairness is weak, per request or per job, over the disjunction of its own
steps: the Go scheduler runs every goroutine, and every call ends, since the
clients have timeouts (5 s hive-service, 3 s notification-service, 10 s in the
job) and a statement is cut off with the request at 30 s. The job's own SQL
has no timeout: `RunEnds` takes PostgreSQL to answer. In ServerProcess the
steps of `run()` are fair as two groups (up to serving, and from there to the
end) besides the start of the server's goroutine, a request that is out of
time, the runtime's restart (`restart: unless-stopped`) and time; services
that come up, signals, clients and the work of a request are not. Nothing is
assumed of clients, failures, writers or other services, so that progress
never depends on a call succeeding; `ComesUp` says itself what it takes.

### Where the documents say otherwise

Three runs check a sentence of the repository and find it broken:

- `cascade_reminders`. `domain/harvest/repository.go:36` has the ids returned
  by the DELETE for cancelling reminders; `Service.DeleteByHive` cancels those
  of an earlier SELECT. A create that inserts between the two loses its row to
  the cascade with its reminder left (Begin create, Verify, Begin cascade,
  Verify, ListIDs, Insert, Purge).
- `account_deletion`. `domain/harvest/harvest.go:26` calls account deletion
  durable. A create past `Verify` when the account is closed and erased
  inserts its row afterwards. `ErasureIsFinal` says what does hold: with no
  such create in flight, nothing of the account appears again.
- `report_all`. `application/harvest/service.go:162` says the report returns
  all records in range. A record inserted between count and page takes the
  place of one that was there all along. `ReportExactWhenQuiet` says what does
  hold.

Others need no run, since one reads them off a line or two:

- `README.md:151` and `openapi.yaml:23` say there is no `user_id`; since
  migration 5 `service.go:77` writes one. `handler.go:420` says the user's id
  is never used, and line 102 uses it.
- `README.md:182` says records of a deleted hive stay accessible; every
  request on them stops at `Verify` with `hive_not_found`.
- `README.md:169` says a change of a hive's access takes effect immediately;
  it does for the next `Verify`, and a write in flight past it still lands.
- `openapi.yaml:479` gives a body's `harvestedAt` the format `date-time`, and
  :481 calls it RFC 3339; `requests.go:113` parses it with the layout
  `2006-01-02`, so that a client that follows the document is refused with
  `harvested_at_invalid`, as `requests_test.go:108` expects. `ErrorsNameTheirFields`
  takes the test's side: a date-time is a wrong date.
- `README.md:56` sends `harvested_at` in its example; `requests.go:66` reads
  `harvestedAt`, and answers the example with a missing date.
- `README.md:143` names the parameter `amount_operator`; `handler.go:223`
  reads `amountOperator`.
- `README.md:86` calls the shutdown timeout the longest wait for a graceful
  shutdown. A drain that gives up is followed by `db.Close`, which waits for
  statements under way: up to read plus request timeout, 35 s at the defaults
  (`ExitsInTime`). The drain itself (15 s) outlasts the 10 s a container
  runtime waits by default before it kills. And the drain is graceful only to
  requests in a handler: net/http closes a kept connection whose next header is
  half read at once, and a new one after 5 s without a header, and the process
  still ends with code 0 (`main.go:116`).
- The request's deadline of 30 s is answered with a 504 nobody can hear: the
  connection is past its write timeout of 10 s by then.
- `README.md:78` ff. leaves out `NOTIFICATION_SERVICE_URL`, without which
  `config.go:90` refuses to start.
- A date filter of the year 0 passes validation and is refused by PostgreSQL:
  an `internal_error` for what a client sent (`harvest_repository.go:140`).
- A backfill that has asked for an owner before an erasure and writes it after
  stamps a row with an account that is gone (`main.go:69`).

## What is proved

TLAPS checks every proof here from nothing, for all constants that satisfy the
named assumptions: any number of requests, users, hives, ids, bodies, any
starting table of legacy rows, any set of failures. The assumptions are named
in the module that declares the constants, and say what their values are:
`Null` is none of the others, valid bodies are bodies, every hive has one owner
and keeps it, failures are among those named, amounts are integers, records
have days of the calendar, a report is asked for by its two days alone and a
list has one sort order at most, ids of the backfill and of lists are positive
integers, finitely many where they are listed. That uuids are numbers is
how their order is modelled, positive because the zero uuid is the cursor
before all of them.

*HarvestServiceProofs.* No property alone is inductive: that an INSERT stamps
the hive's owner depends on a request at `insert` having passed `Verify` for
that hive, which depends on `insert` being reached by creates only. So the
invariant is built in layers:

1. `TypeOK /\ Control`: where a request is says which operation it is, that its
   body was accepted, and that the record an Update holds is of its hive;
2. `Admitted`: past `Verify` the caller owns the hive, and the states it has
   been in since the request arrived contain one that admitted it;
3. `RowChange`, the one case split over what a step can do to a row, from
   which follow `OwnerStamped`, `RowsWellFormed`, `NoResurrection`,
   `LiveEntitlement`, `ErasureIsFinal`, and, with what is in an answer,
   `DisclosureOnlyToOwner`;
4. `HomesKept`, `OwnTodo`: what a request is about to cancel was under its own
   hive, and a Delete has removed it (`RemovedStep`: that is
   forgotten only when its next request arrives), giving `CancelsOnlyOwn`.
   `LeftOnlyIfAsked` follows from `RowChange` and where each request is: a row
   that goes by a Delete goes with the request at `cleanup`;
5. `PresentIsOwn`, `CascadeCovers`: a row a cascade found is listed or already
   cancelled until the DELETE, giving `CascadeCancelsFirst`.

*OwnerBackfillProofs.* `TypeOK /\ RowKnown`; `RowStep`, what a step can do to a
row, gives `OnlyAddsOwners`; `ListedTruly` (what a job holds of a row is still
true of it) gives `StampedWithOwner`; `CursorCovers` (a row without an owner
since the start is asked for, or in the batch, or after the cursor and the
whole batch) gives `NoneSkipped`. The last needs that the n lowest members of
a set of numbers lie below all others, which is proved from well-foundedness
and cardinalities (`FirstOf`, `LowestFirst`).

*HarvestRefinementProofs.* `RecordsSpec`: HarvestService implements
HarvestRecords. Initial states map to initial states; every action of a request
maps to a step of the store, or, where it touches neither table nor answer
(`Stutters`), to none. The cases rest on the service's invariant: `Control`
says which operation a request at a call is, so that its failure, its refusal
(`Refused`) and its answer are among those the store allows, and `Admitted`
that its caller owns the hive, so that what a statement finds by id and hive is
what the store finds (`FoundNothing`, `ConfirmsAlike`, `AnswersAlike`).

*ListFiltersProofs.* For all dates: day numbers order dates as the calendar
does (`DaysInOrder`, from the lengths of years and months), so that the
half-open range of the SQL is the closed range of days that was asked for
(`BoundsAreInclusive`), and the WHERE of an accepted query selects what it asks
for (`SelectedAsAsked`).

*RequestValidationProofs.* `AcceptedIsStorable`, for amounts that are any
integers and strings of any kind; `ErrorsNameTheirFields`, from what each
field's errors are (`FieldErrors`) and the documented table being the map of
units in both directions. `QueryIsReadAsAsked` and `ReportSpansAYear` from the
lemmas on filters; twelve months later is the day `AYearLater` names.

*HarvestListingProofs.* Types, from `Asking /\ Stored`: a page of a sequence is
a sequence of its items. `ListsOnlyOwn` from `Scoped`: past `Verify`, and
through every page of hive-service's list, a list is over hives of its caller,
and nothing has been answered yet. `PageExactWhenQuiet` and
`ReportExactWhenQuiet` from `Undisturbed`: while nothing changes, the hives or
records gathered are those of the pages so far of the one list there is, and
the count is its length. That takes three facts about sorted lists, none of
them by induction. A member stands behind exactly as many as the order puts
before it, since the places before it are in bijection with them
(`SortedRank`), so that a rank is a place and a set has one sorted list
(`SortedOnce`); ORDER BY never ties, since it ends in the id (`OrderIsStrict`);
and a page is a part of the list, next to the one before it (`PartsJoin`,
`PartIsExact`). The order is stated twice, as the ORDER BY has it and as the
documents do (`ComesBefore`); that they agree is `OrderAsDocumented`.

*ServerProcessProofs.* Every step is classed first by what it does to process
and requests (`Steps`). `TypeOK /\ Placed` (which stage goes with which
listener and which places of requests) gives `ExitCodeIsTrue`; with `Clocks`
(time since the signal plus time a request has left is bounded by what it was
given; time since the signal plus the drain's timer is the shutdown timeout;
requests in a closing pool had all of it, unless the listener failed, which
leaves kept connections open to bring more, `Orderly`) it gives `ExitsInTime`,
`CutOnlyAfterGrace` and `NobodyIsCutShort`. What a sweep leaves of each place
is `SweptPlaces`; who can be dropped by a step, and when, is `DroppedLate`.

*SchemaMigrationsProofs.* `TypeOK`, `JobInOrder`, `VersionTellsSchema` and
`RowsInTable` are inductive together: a job between its marks is dirty, at the
version it has marked, with the schema of before or after its file; and there
are no rows without a table. TLC held the two unnamed in the runs to the model
of `migrations` before they were proved. What the schema of a version is,
`SchemaAt` defines as a recursive function; it is unfolded by giving its values
for the six files and showing that they meet the definition (`SchemaTable`),
after which each file is a table of parts (`FilesMatch`, `RunOnRow`).
`DaysKept`, `OnlyDuplicatesStopAFile` and `ClearIsAllOrNothing` follow, for any
ids, kinds of record, instants and time zones.

## What is only model-checked

Liveness: `EveryRequestAnswered`, `RunEnds`, `ListingEnds`, `SignalEnds`,
`ComesUp`. TLAPS does not prove what rests on fairness and on ENABLED. Every
invariant and action property a passing run checks, and the refinement, is a
theorem as well.

## What is not modelled, and why

- The totals a report sums over its records: arithmetic on what it lists.
- Decoding of JSON and of pagination parameters: the standard library's and
  another repository's; bodies and queries start decoded.
- `created_at` and `updated_at`, except as an order of lists and for what
  migrations make of them; amounts are integers, where only sign and order
  matter.
- Transfer of a hive to another owner: hive-service does not offer it.
- Read, write and idle timeouts of zero or less, which net/http takes for none:
  the clock then bounds nothing. The idle timeout: an idle connection may end
  at any time (`HangUp`), and nothing depends on when.
- What pgx does to a connection whose statement was cancelled takes no time; a
  statement that is out of time gives its connection back.
- Redis after start-up, JWKS verification and shared middleware come from
  another repository: a request arrives authenticated as one of `Users`, with
  a token of an account still open.
- Health and readiness: two answers without state, and the second is one ping.
- What `user_id` holds through migration 5, which starts it as NULL and drops
  it: the rows it leaves are the starting state of HarvestService and
  OwnerBackfill.
- Logging, request ids, the recovery of panics, strings of the configuration
  that are only passed on.

## Plan

In the order of what matters most:

1. (done) the table, the requests, the service with its failures, the abstract
   store, validation, the backfill, the listings; proofs of the safety of the
   service and of the backfill.
2. (done) filters of lists and reports down to the records they select; the
   life of the process on a clock; migrations and the clearing tool; proofs
   about filters, listings and the process.
3. (done) proofs of the refinement, of migrations, of exact pages and reports
   and of the errors of bodies.
4. The bounds behind the liveness that is only model-checked, as safety: a
   report takes no more pages than there are ids, a cascade no more
   cancellations than it has listed, a job asks for each row once.
5. A release of the service at one version beside a schema at the other.
