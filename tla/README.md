# Shadowfiend in TLA+

Shadowfiend bills the projects of an OpenStack cloud. Cloudkitty prices what
each project consumes, hour by hour, and stores the prices in gnocchi; the
shadowfiend *processor* takes those prices up one hour at a time and sends them
as bills to the *conductor*, the only service that writes the billing database;
the *API* and a *middleware inside keystone* let people charge accounts and
decide who pays for which project; a *Python client* calls the API with tokens
of keystone.

This directory holds TLA+ modules of the parts whose correctness depends on the
order of things: transactions that overlap, instances that compete, calls that
fail half-way, answers that come too late. TLC checks the modules on small
instances; TLAPS proves every safety property of them for instances of any
size.

All paths below are relative to `src/shadowfiend/`.

Contents: 1 inventory, 2 modules, 3 correspondence with the code, 4 runs,
5 bounds and fairness, 6 assumptions, 7 proofs, 8 findings, 9 what is not
modelled, 10 plan, 11 how to run.

## 1. Inventory

| Component | State | Operations | Meets | Model |
|---|---|---|---|---|
| Billing database (`db/sqlalchemy/api.py`, `models.py`) | rows of `account`, `project`, `usr_prj_relation`, `charge` | create, bill, charge, change level, change owner, delete; listings | the conductor's sessions, each a transaction of its own | BillingStore, Ledger; Listings |
| Conductor (`conductor/`) | none | dispatches RPC calls to the database | API and processor call it | BillingStore (calls), Processor (serving, refusing, too late), ApiCalls (what it answers) |
| Processor (`processor/service/service.py`) | lists of projects, the worker, file locks | `primary_period`, `_check_state`, `Worker.run`, `owed_action` | gnocchi, keystone, conductor, lock directory | Processor, Metering |
| Fetchers (`processor/service/fetcher.py`) | cursor of each project (a measure in gnocchi) | projects to rate, payer, get/set state, prices; bills, summaries | gnocchi, keystone | Processor (all that billing uses), Bills (what is read back) |
| Keystone middleware (`middleware/mid_keystone.py`) | none of its own; role assignments in keystone | follows POST users/projects, PUT/DELETE role | keystone, the API without authentication | BillingOwner |
| API without authentication (`api/controllers/noauth/`) | none | create account, charge, create project, change owner | middleware, conductor | BillingOwner (its calls) |
| REST API v1 (`api/controllers/v1/`) | none | accounts, charges, projects, orders, reports | conductor, gnocchi | ApiCalls (accounts, projects, their exceptions), Bills (orders, report), Listings (charges, accounts) |
| API framework (`api/*.py`, `common/context.py`, `common/policy.py`) | request context | tokens, policy, contexts, routing, versions | keystone | ApiCalls (tokens, policy), Access (contexts) |
| Python client (`client/`) | token, its expiry, endpoint; shared by greenlets | authenticate, request | keystone, API | ApiCalls, AtMostOnce |
| Exceptions (`common/exception.py`) | none | failure to status, status to exception | API, RPC, client | HttpErrors |
| RPC plumbing (`common/rpc*.py`, `common/service.py`) | none | call, serve | all services | Processor, BillingOwner, ApiCalls: a call is served once, refused, lost, or answered too late |
| Schema and migration (`db/sqlalchemy/alembic/`) | tables, unique keys | create tables | database | the keys are those of BillingStore |
| Resource services (`services/`) | none | drop servers, volumes, images, addresses | nova, cinder, ... | no: `owed_action` never gets there (section 8) |
| Commands, options, dates (`cmd/`, `common/`) | none | start-up | - | no |

What makes each of the modelled parts correct, and what makes that hard:

- **Database.** Every accepted bill and charge arrives, once, in every table it
  belongs to; a balance below zero and the `owed` flag say the same; a project
  can always be billed to somebody. Hard because a call reads a snapshot, works
  out new values in Python and writes them row by row, beside other calls that
  do the same; only some of the writes are conditioned on what was read, and
  those that miss are rerun a bounded number of times.
- **Processor.** Every rated hour of a project is billed, at its final price,
  in order, and not twice. Hard because cursor and bill live in two services
  that are written one after the other, any number of instances run at once,
  locks leak when an exception is raised, and the conductor may serve a bill
  long after the instance has given it up.
- **Owner of a project.** The user in shadowfiend's database and the holder of
  keystone's `billing_owner` role, from whom the processor takes the money,
  are the same. Hard because one request makes several calls to two services
  without a transaction, and threads of keystone do so at the same time.

- **Listings.** Who walks through all pages has seen everything once, and the
  total fits what he saw. Hard because pages are places in a table that changes,
  each page and each total is a query of its own, and rows are committed in
  another order than they are sorted in.
- **Calls of the API.** What the client tells its caller is true: a call that
  returned was carried out, one that was refused was not and will not be, none
  is carried out twice. Hard because each of three parties gives up on the next
  one without telling it, translates the exceptions of the next one into others,
  and shares its token with calls that run at the same time.
- **Bills read back.** A page of bills follows on the page before it, parts and
  total of a summary fit, a report that is delivered is whole. Hard because each
  of them is put together from many queries, any of which may fail, while
  resources come, go, and move to the end of every search when they are updated.

## 2. Modules

| Module | What it is |
|---|---|
| `Ledger` | abstract: what the database promises the conductor. Every accepted call takes effect at once and in full |
| `BillingStore` | the database: sessions that run the entry points statement by statement on an InnoDB store at REPEATABLE READ |
| `BillingStoreProofs` | types and books of BillingStore, proved |
| `LedgerProofs` | that its commits have the effects Ledger gives them, and what follows for flags, payers, relations and sums |
| `DataInduction` | induction over numbers and finite sets in first-order form, and sums over sets |
| `MCBillingStore` | its small instances |
| `Metering` | abstract: what the processor promises about cursors and bills. At least once, in order, never in advance |
| `Processor` | the processor service: instances, locks, cloudkitty, gnocchi and the conductor's answers |
| `ProcessorProofs` | types of Processor, that no period is skipped, that it is a Metering, that a period is billed once, and in full |
| `MCProcessor` | the small instances of Processor |
| `BillingOwner` | the keystone middleware beside keystone and the API; its database is an instance of Ledger |
| `BillingOwnerProofs` | types of BillingOwner, and that the two owners agree |
| `MCBillingOwner` | its small instances |
| `Listings` | the listings of charges and accounts, walked page by page |
| `ListingsProofs` | types of Listings, that walks miss and repeat nothing, that totals cover pages |
| `MCListings` | its small instance |
| `AtMostOnce` | abstract: what a caller of the API may conclude from how his call ended |
| `HttpErrors` | operators: the status of each exception, what an RPC call keeps of it, the client's exception for each status |
| `Access` | operators: the context of a request and the rows that its queries reach |
| `ApiCalls` | client, token, API and conductor, from a call to its end |
| `ApiCallsProofs` | its types, that answers are true, that fresh tokens are let in, that it is an AtMostOnce |
| `MCApiCalls` | its small instance |
| `Bills` | pages of bills, summaries and reports, read from gnocchi |
| `BillsProofs` | its types, that pages are slices and walks complete, that summaries add up and reports are whole |
| `MCBills` | its small instance |

Three refinements tie them together: BillingStore implements Ledger (checked by
`store_ledger`, and proved), Processor implements Metering (checked by `billing_hours` and
`billing_history`, and proved), ApiCalls implements AtMostOnce (checked by
`calls`, and proved). BillingOwner is built on Ledger: the four calls
it makes take effect at once, which is what the first refinement shows of three
of them (section 6 has the fourth).
Processor likewise takes `update_account` as one step.

## 3. Correspondence with the code

### BillingStore

One action is one SQL statement; a call is the sequence of its statements, and
`pc` names the next. `seen[s]` is the snapshot of a session's transaction, taken
at its first SELECT; `work[s]` holds the rows it has written, and thereby
locked; `db` are the committed rows. `books`, `stale`, `loose` and `crossed` are
history: `books` adds up the calls that were committed, row by row; `stale`
collects the accounts on which a charge was computed from a balance that had
changed; `crossed` the sessions beside which, since they read what they go by,
the other one of a change of owner and a deletion was committed for the same
user, and `loose` the projects whose payer need not have an account therefore.

| Code (`db/sqlalchemy/api.py`) | Actions |
|---|---|
| `update_account` | `Begin`, `BillAccount`, `BillProject`, `BillRelation`, `Commit` |
| `charge_account` | `Begin`, `Charge`, `Commit` |
| `change_account_level` | `Begin`, `ChangeLevel`, `Commit` |
| `change_billing_owner` | `CheckOwner` (a session of its own), `Begin`, `ChangeOwner`, `RelateOwner`, `Commit` |
| `delete_account` | `Begin`, `DeleteAccount`, `DeleteProjects`, `DeleteRelations`, `Commit` |
| `create_account`, `create_project` | `Begin`, `CreateAccount`; `CreateProject`, `CreateRelation`; `Commit` |
| `_update_params` | `UpdateParams`: compare and swap on the columns that are set; a miss is `Rerun` |
| `wrap_db_retry` | `Rerun`: at most `MaxRetries` times the method from its beginning (`RunAgain`, `Restart`), look-up included, then `Raise`; the create functions are not decorated |
| `model_query` | `Sees`: a caller with a user context reaches only that user's rows |

Money is counted in units, rows carry the columns the code compares or computes
with (`id`, `balance`, `consumption`, `level`, `owed`, `owed_at`, `updated_at`,
`user_id`). A row of `charge` is only ever added, in the transaction that moves
the balance, so the table is represented by the sum `books` takes of it.
`updated_at` has a resolution of seconds, so two calls within one second write
the same stamp: the clock `now` moves independently of the calls, and the model
covers both.

### Processor

One action is one call to another service together with the code up to the next
one. Periods are numbers; 0 is the missing timestamp.

| Code (`processor/service/`) | Actions |
|---|---|
| `primary_period` | `Fetch`, `StartPass`, `Visit` (a lock that is taken is skipped until the next pass), `EndPass`, `Release` |
| `_check_state` | `PeriodToBill` and the actions `UpToDate`, `BeginPeriod`, `FailToCheck` |
| `Worker.run` | `Consume`, `GetPayer`, `OwedAction`, `Send`, (`UpdateAccount` at the conductor,) `SetState` |
| an exception anywhere in it | `Fail` and `Raise`: the run ends and the lock stays, `Reclaim` collects it later |
| process dies | `Crash`: as above, the file locks go with the process |
| RPC time-out | `Fail` while waiting: the request stays `inflight` and may still be served |
| conductor refuses or loses a request | `Refuse` |
| coordination driver with expiring locks | `Expire` |

`state` is the cursor in gnocchi, `bottom` and `top` the first and last period
cloudkitty has rated. `Stored` says what the prices found for a period may add
up to: the final cost before `top`, anything between nothing and all of it
at `top`, nothing after it. `billed` and `charged` count and add up
the bills per period; `start`, `opened`, `coarse` and `aborted` are history.

### BillingOwner

Each thread of keystone serves one request; `pc` names the next call it makes.
Keystone's own work on a request is one step.

| Code (`middleware/mid_keystone.py`) | Actions |
|---|---|
| POST users: `create_user`, `charge_account` | `PostUser`, `CreateAccount`, `ChargeBonus` |
| POST projects: `create_project` | `PostProject`, `CreateProject` |
| PUT role: `add_role`, `change_billing_owner` | `PutRole`, `ChangeOwner`, `ListAssignments`, `RemoveRole` |
| DELETE role: `get_project`, then keystone | `DeleteRole`, `CheckOwner`, `Unassign` |
| DELETE users, projects (let through) | `DeleteUser`, `DeleteProject` |
| PUT `/v1/projects/{id}/billing_owner` (`api/controllers/v1/project.py`) | `PutOwner` |

A call of shadowfiend (`Invoke`) is served, refused, or given up; one given up
goes to `late` and is served later (`ServeLate`) or never (`LoseLate`).
`holders` are the assignments in keystone; `accounts`, `projects` and
`relations` are the variables of Ledger. `alone`, `agreed` and `settled` are
history: they say which projects were worked on by one request at a time.

### Listings

A walk is a client's sequence of requests; `offset` grows by `limit` each time.
The query and the answer of a request are two steps, since the total of the
charges is a second call.

| Code | Actions |
|---|---|
| `ChargesController.get`, `charges` of an account: `get_charges`, then `get_charges_price_and_count` | `GetCharges`, `AnswerCharges` |
| `AccountController.get_all`: `get_accounts` | `GetAccounts`, `AnswerAccounts` |
| `paginate_query`, `_paginate_query` | `List`, `Page`, by the order `Before` |
| the conductor cannot be reached, the request ends with an error | `Fail`: the client repeats it |
| `charge_account`, `create_account`, and their commit | `Insert`, `Appear` |
| an account in debt, deleted, or not updated within `duration` | `Vanish`, `Appear`, `Drop` |

`listable` are the committed rows the query asks for, `hidden` the others that
have a key. `Before` sorts downwards always: `_paginate_query` falls back to
`desc` (its comment says ascending), and the conductor's API drops `sort_dir`
on the way, so no caller can ask otherwise. `old`, `grown` and `shrunk` are
history.

### ApiCalls

A step is the code from one call over the network to the next. `plugin` is what
the client object knows of its token: all calls share it, and a call that finds
it about to expire asks keystone for another one. `ttl` counts the ticks a token
has left, so that it also stands for the time in the headers on their way.

| Code | Actions |
|---|---|
| `Client.request`: `get_endpoint`, then `get_auth_headers`, which reads `auth_token` twice (`client/client.py`, `client/auth/token.py`) | `Begin`, `AuthToken`, `Send` |
| `authenticate`, at either reading: `get_raw_token_from_identity_service`, then expiry, token and endpoint are stored | `Issue`, `Authenticate`, `FailToAuthenticate` |
| `_send_request`, `from_response` | `Arrive`, `Break` |
| `AuthTokenMiddleware`, `check_policy`, the checks of values in a controller | `Receive`, `Refusals` |
| `make_context`, `RequestContextSerializer`, `model_query` | Access, `Ctx`, `Reaches` |
| `API._call`: it may time out although the request is served later; a listing of no projects needs no call | `Receive` (sends it, or answers), `TimeOut`, `LoseRpc` |
| `Handler` and the entry points of the database it dispatches to | `Conduct`, `Errors`, `Write` |
| the `except` clauses of the controllers | `Answer`, `Translate`; `Code` of HttpErrors gives the status |
| `ProjectController.get_all` on rows that are dictionaries | `JoinErrors` |

Each call has three sides: `pc` is the client's, `job` the API's, `rpc` the
conductor's. When one gives up, the next one is not told; it goes on, and its
answer finds nobody. `effects` and `waited` are history: how often the conductor
(or the API, for `get_projects_all` when keystone lists no projects) has carried
a call out, and how long a token has been on its way. Of the data
there are the accounts that exist and the payer of a project, enough for every
exception the entry points raise.

### Bills

A reader makes one request at a time, each a sequence of queries to gnocchi.
A search lists resources by the time of their last revision.

| Code | Actions |
|---|---|
| `OrderController.bills`, `get_bills`: search, then one query per resource and metric | `Bills`, `NextPage`, `Weigh` |
| `_pagination` | `Look`, once for each index of the list in `Loop`; `Paginate` takes its result apart |
| `get_summary`, one query per service, then one for all | `Summary`, `Add`, `AddGeneric`, `FailToAdd` |
| `OrdersController.get_all` of the reports: `get_resources` per type, `get_resource_price` per resource | `Report`, `Collect`, `FailToCollect`, `Price`, `Export` |
| gnocchi, ceilometer and cloudkitty meanwhile | `Create`, `Touch`, `Delete`, `Measure`, `Charge` |

`low`, `gone`, `seen`, `passed`, `touched`, `moved` and `lost` are history: they
say what there was when a request or a walk began and what has become of it.

## 4. Runs

| Run | Instance | Shows | Distinct states |
|---|---|---|---|
| `store_all` | every entry point, 2 sessions, 3 calls | `TypeOK`, `ConsumptionAccounted`, `BalanceAccounted`, `OwedTellsDebt`, `PayersHaveAccounts`, `UndisturbedTakesEffect`, `EveryCallReturns` | 244 620 |
| `store_ledger` | everything but `delete_account`, and charges only of nothing | `ProjectIsSumOfRelations`, `OwnerIsRelated`, `ImplementsLedger` | 170 519 |
| `billing_hours` | 2 instances, 1 project, from the current hour on, 2 faults, a payer who may be missing or in debt | `TypeOK`, `NoPeriodSkipped`, `BilledOnce`, `BilledInFull`, `ImplementsMetering` | 3 452 666 |
| `billing_history` | 2 instances, a backlog of 5 hours, locks that expire, a payer in debt | `NoPeriodSkipped`, `BilledInFull`, `ImplementsMetering`, `RatedPeriodsAreBilled` | 244 395 |
| `owners` | 2 threads, 3 users, 2 projects, 4 requests, 2 faults | `TypeOK`, `SettledIsBilled`, `OwnerHoldsRole` | 344 673 |
| `listings` | 1 client, pages of 2, 3 rows a table, 2 columns, 1 fault | `TypeOK`, `NothingMissed`, `NothingRepeated`, `TotalsCover` | 2 699 464 |
| `calls` | 2 places for calls, one for any call, one for deletions; tokens of 2 ticks, 1 fault | `TypeOK`, `AnswerTellsEffect`, `FreshTokensPass`, `ImplementsAtMostOnce` | 2 071 262 |
| `bills` | 4 volumes (of a type shared by two services), 1 instance; pages of 1, 2 or no limit, 2 changes, 1 fault | `TypeOK`, `PageIsSlice`, `NothingPassedOver`, `NothingShownTwice`, `SummaryAddsUp`, `ReportIsWhole` | 718 019 |
| four runs named in section 8 | as small as the finding allows | one property each, violated | - |

What the properties say:

- `ConsumptionAccounted`: the consumption of every project and relation is the
  sum of the bills committed on it. `BalanceAccounted`: a balance is its charges
  less its bills, except on accounts that some charge wrote from an outdated
  snapshot. `OwedTellsDebt`: on the other accounts `owed` is a balance below 0,
  if no charge is negative (section 8).
- `UndisturbedTakesEffect`: a call whose snapshot is still current when it
  commits has exactly the effect Ledger gives it, whatever it went through
  before that (misses, reruns, deadlocks).
- `EveryCallReturns`: no two transactions wait for each other for ever, and no
  call is rerun for ever.
- `ImplementsLedger`: the committed rows behave as a Ledger. The run leaves out
  `delete_account` and non-zero charges, because with them it is false: that is
  what the runs `charge_is_lost` and `delete_takes_other` show.
- `PayersHaveAccounts`: the payer of a project has an account, deletions of
  accounts notwithstanding. `change_billing_owner` looks the new payer up in
  another session than the one that writes him into the project, and a rerun
  looks him up again; `delete_account` takes the projects of its user with it.
  Excepted are the projects of which the code takes no such care: those whose
  payer came with `create_project`, which looks nobody up, and those that a
  change of owner and a deletion of the account of the same user have touched
  while one was under way beside the other (`loose`).
- `ProjectIsSumOfRelations`, `OwnerIsRelated`: what a project has consumed is
  shared out among those who have paid for it, and its payer has the relation
  that `update_account` insists on.
- `NoPeriodSkipped`: no period between the one a cursor started at and where it
  is now is without a bill. `BilledOnce`: a period has one bill, and one more
  for every run over it that was interrupted after its request had left.
  `BilledInFull`: a bill is for the final cost, but for the period a project
  starts with (billed before it is over, at what is stored by then) and periods
  priced by the day (section 9).
- `RatedPeriodsAreBilled`: every period cloudkitty has gone past is billed in the
  end, leaked locks, competing instances and lost answers notwithstanding, for a
  project before which nothing in the listing raises an exception.
- `SettledIsBilled`: a PUT of the role that succeeded with the project to itself
  leaves exactly one owner, the same in keystone and in the database, with an
  account and a relation; `OwnerHoldsRole`: while the requests on a project come
  one at a time the owner in the database holds the role, whichever of their
  calls fail.

- `NothingMissed`: a walk that has ended has come upon all rows that were there
  when it began, if none has gone since. Charges never go, so for them this
  holds whatever happens; an account that gets into debt between two pages moves
  up those behind it, and one of them is missed.
- `NothingRepeated`: no page holds a row of an earlier one, if none has come
  since. `TotalsCover`: the total that comes with a page of charges is not less
  than what the pages have shown.
- `AnswerTellsEffect`: a call of the client that returned has been carried out;
  one that ended with a status of 4xx, or with the client's own exception that
  there is no endpoint, has not been and will not be. A 5xx or a broken
  connection says nothing, and `get_project` is left out: its controller answers
  404 whatever has happened. `ImplementsAtMostOnce` says the same of what a
  caller sees in the course of time, and that nothing is carried out twice:
  no party ever sends again what it has given up.
- `FreshTokensPass`: the API rejects a token only if keystone has revoked it or
  the time between asking for it and the API's look at it is the stale duration
  or longer. The renewal is worth that much and no more.
- `PageIsSlice`: a page that has a next one is what follows the marker, full,
  and ends with the new marker. `NothingPassedOver`: what comes before the
  marker in gnocchi by now has been on a page, or was dropped, unless the
  marker itself was updated. `NothingShownTwice`: only what was updated since
  the walk began is shown again.
- `SummaryAddsUp`: no part of a summary exceeds its total, and both lie between
  what was there at the beginning and at the end. `ReportIsWhole`: a report that
  is delivered has a row for everything that had a cost when it was asked for
  and was not deleted, once, at a price of the time between.

Each property of a passing run comes with a mutant, an operator in the module
that changes one definition as a plausible slip in the code would (marked
`Mutant:` there); TLC refutes the property under the same configuration.

`CHECK_DEADLOCK FALSE` is set where the model bounds the calls or requests: after
the last one nothing remains to be done. The runs of Processor keep deadlock
checking on: the service never stops.

## 5. Bounds and fairness

**BillingStore.** Two users, one project, two sessions, three calls, one rerun
(`MaxRetries = 1`; five in the code), a clock of two readings. Every conflict
the code knows is between two transactions on one row; the third call comes in
before or after either of them, so it can bring about the state that a conflict
needs (an account deleted and opened again under the same key, a project handed
over and back). One rerun reaches both branches of `Rerun`. That the safety
properties do not depend on the size is what section 7 proves.

**Processor.** Four hours (six for the backlog), two instances, two faults. Two
faults are the smallest number for which an interrupted run is followed by
another one while its late request is still about. The prices are powers of two:
no sum of bills hides a wrong one. `billing_hours` lets the listing change from
run to run; `billing_history` keeps it, as liveness asks.

**BillingOwner.** Four requests and two faults: two requests to interfere, one
to spoil what they find and one to clear up.

**Listings.** Three rows a table and pages of two make a full page, one that is
not, and one row that may come or go between them; clients do not affect
each other, so one suffices.

**ApiCalls.** Two places for calls, used again and again: what calls have in
common are the token and the database, and both interfere in pairs. The second
place is for `delete_account`, which changes what any other call meets. A token
lives for two ticks and is stale below two, so it can run out at each of the
three places where it is on its way. The one fault is any of a revoked token, a
changed catalog, a broken connection, a failed authentication, a lost or late
RPC call; tokens run out, accounts vanish and values are out of range without
a fault. Statuses are those that occur.

**Bills.** Four volumes and pages of one or two make a first page, one that has
a marker, and one after that; the fifth resource is of another type. Two
changes can move, delete or create one of them between any two queries, and one
query may fail. Volumes are interchangeable (`Symmetry`), since neither
liveness nor an order between them is asked for.

**Fairness.** Each part owes only what its scheduler gives.
`BillingStore!Fairness`: a session whose statement is enabled (its row is free)
goes on; deadlock victims and lost connections are never owed.
`Processor!Fairness`: an instance goes on to its next call (the periodic task of
oslo.service starts `primary_period` again, which loops until every project is
done); the conductor serves what reached it; an abandoned lock is collected,
since the default driver locks a file through an object that is dropped with
the exception. Neither the clock nor cloudkitty owes anything: a period counts
once it is rated. Faults are bounded, which stands for the assumption that they
end. The other modules state safety alone: a thread of keystone, a client or a
reader owes nobody its next step.

## 6. Assumptions

- MySQL with InnoDB at REPEATABLE READ: plain SELECTs read the snapshot of the
  first, writes see the newest commit and hold the row. A statement that deletes
  several rows takes them in one step. Whether a commit whose connection broke
  took place is not in doubt in the model.
- A sum of gnocchi is what `Stored` says; `limit=1` of `get_measures`, which
  gnocchi does not know, is ignored; the newest measure is the cursor. Creating
  the resource and the metric of a cursor is part of the step that first sets it.
- `get_rate_projects` lists projects in an order that `Rank` describes; with
  equal ranks any order may come.
- A crash frees the locks of the process at once. A late request is served
  after any delay, once.
- In keystone, assigning a role that is assigned changes nothing, removing one
  that is not assigned raises, deleting a user or a project drops its
  assignments, and an id is not given out twice. Roles assigned to groups are
  not considered. `enable_billing` is on.
- `update_account` is one step of Processor, and the four calls the middleware
  makes are single steps of BillingOwner: `store_ledger` shows it of them, but
  for the charge of the initial bonus, which is the one call it excludes, and
  which no property of BillingOwner depends on.

- Keys of rows are counted up and never used again. A client of a listing goes
  on until `offset + limit` reaches the total (charges) or a page is not
  full (accounts); a `limit` of 0, which the controllers let through and
  which lists nothing, is not walked with.

- Greenlets share one client object; they take turns where the client waits for
  the network and nowhere else. Connections to keystone and to the API carry one
  request and one answer. A redirection is followed by the same request to
  another place and is no step. The endpoint is found in the catalog or not.
- Keystone rejects a token that has run out or was revoked and no other; the
  token counts when the API's middleware looks at it. The two RPC calls of
  `get_charges` are one. A database call is one step of ApiCalls, in which an
  entry point either raises one of its exceptions or takes effect: what goes on
  inside it is BillingStore's part.
- In gnocchi a search lists resources in the order of their last revision, and an
  update of a resource makes a new one. A sum that cannot be had because there
  are no measures is 0. Services that share a type of gnocchi are told apart by
  the metric of the service, which exists from the first measure on. The
  resources of a query are finitely many. `"none"` and `"generic"` stand for no
  service and for all of them and are not names of `resource_mappings`.
- No row of the database is what stands for its absence (`LedgerAssumption`).

## 7. Proofs

TLAPS checks 11936 obligations in eight modules, from the assumptions on the
constants that the modules name (`BillingStoreAssumption`, `LedgerAssumption`,
`ProcessorAssumption`, `BillingOwnerAssumption`, `ListingsAssumption`,
`ApiCallsAssumption`, `BillsAssumption`) and, where a theorem has an ASSUME, what
it says there. Every invariant, action property and refinement of a passing run
is the subject of a theorem.

**BillingStoreProofs**: `TypeCorrect`, `ConsumptionIsAccounted`,
`BalanceIsAccounted`. The books cannot be inductive by themselves: a commit
copies drafted rows, so the invariant `IInv` must say what drafts hold.
`DraftAccounted` says a drafted row is the *committed* row plus what the call is
due, though it was computed from the *snapshot*: the compare-and-swap
provides it when the row is written, and `LockExclusion` keeps it until the
commit, because nobody else can commit that row meanwhile. `BillDrafted` ties
the place in the call to the rows it has written, so that a commit never leaves
one out. A charge is written without comparing; `Outdated` is the exception that
`stale` then records.

**LedgerProofs**: `UndisturbedCallTakesEffect`, `OwedFlagTellsDebt`,
`PayersKeepAccounts`, `OwnerStaysRelated`, `ConsumptionIsSharedOut`,
`StoreImplementsLedger`. The books tell amounts; these need whole rows. The
invariant `EffectInv` says that every row a transaction has drafted is the effect
of its call on the row that is *committed* under that key by now (`DraftsFit`,
one `Effect` per kind of call and row; a charge alone goes by the row it read),
that the place in a call tells which rows are drafted (`Written`), and that
primary keys are handed out upwards (`KeysInOrder`), so that a row that was
deleted and created again is not taken for the old one. From it,
`CommitTakesEffect` shows that what a commit makes of the three tables is what
Ledger says of the call, and the theorems add what each of them is about:
`FlagInv`, that a flag fits its balance in every snapshot that is still current;
`PayerInv`, that a change of owner which nothing has crossed still finds the
account it looked up (`PayerFound`), and a deletion which nothing has crossed has
read every project its user pays for (`ProjectsFound`), so that the one takes no
payer without an account and the other leaves none behind; `OwnersLookedUp` and
`RowsStay`, that where nothing is deleted, what a call has looked up is there at
its commit; `NoOrphans`, that no relation outlives its project, so that the new
project starts from nothing. The hypotheses are:

- `NothingIsDeleted`, no request is `delete_account`, for the last three. With
  it they are false: it takes projects and relations from under other calls
  (finding 2).
- `NothingIsCharged`, charges are of nothing, for `StoreImplementsLedger`. With
  others it is false (finding 1); of any call that nothing overtakes, charges
  and deletions too, `UndisturbedCallTakesEffect` says the same without a
  hypothesis (a new owner's account, looked up before, must still be there).
- `OwedTellsDebt`, `PayersHaveAccounts`, `OwnerIsRelated`,
  `ProjectIsSumOfRelations` and `NoOrphans` of the rows there are at first
  (`InitDb`), where the theorem is that the calls keep them. `store_all` and `store_ledger` start from such rows, and so does
  an empty database.
- `IsFiniteSet(Users)`, where there is a sum over them.

**DataInduction**: the provers cannot instantiate the induction theorems of the
library, which take a predicate; they can instantiate a set. So what is claimed
of all subsets of a finite set, or of all numbers, is stated of the set of
counterexamples: if there is one there is a least one (`SetLeast`, from the
well-foundedness of the strict subset order; `NatLeast`, from intervals), and a
least one is refuted. That sums over sets are well defined
(`AddsExists`, `AddsInAnyOrder`), are moved by what one summand is
moved by (`SumOfChange`) and grow with their summands (`SumIsMonotone`) is
proved that way, and used by LedgerProofs and BillsProofs.

**ProcessorProofs**: `TypeCorrect`, `NothingIsSkipped`, `MeteringImplemented`.
The cursor is moved by a worker that read it some steps before; the invariant
says that the period a worker has is the one after the cursor, or one the cursor
has passed meanwhile, and that a worker at `set_state` has its bill
in the books. The second and the third assume `~LocksExpire` or `Historical`:
with expiring locks *and* billing from the current hour on, two instances may
open one project with different hours, and the earlier of the two becomes a gap.
`MeteringImplemented` shows that each step is a step of Metering or a stutter.

The other two are `NothingIsBilledTwice` and `PeriodsAreBilledInFull`.
`NothingIsBilledTwice` (for `~LocksExpire`) counts: bills of a period plus requests still in flight never exceed the interrupted runs plus one,
the one being whoever waits for it, or the cursor. It needs the lock's
exclusion (`Apart`) and that a worker's period lies ahead of the cursor.
`PeriodsAreBilledInFull` needs neither: whatever amount a worker or a request
carries is the final cost of its period, because the period was below `top`
when the worker chose it and cost does not change below `top`.

**BillingOwnerProofs**: `TypeCorrect`, `SettledOwnersAreBilled`,
`OwnersHoldTheRole`. The invariant follows a request: `Following` and `Orderly`
say what the assignments and the database look like at each of its calls while
it has the project to itself, `Exclusive` that only one request can, `Calm` that
no late call is about, `Billed` and `Held` are the two properties.

**ListingsProofs**: `TypeCorrect`, `NoneIsMissed`, `NoneIsRepeated`,
`CountCoversPages`. The lemmas say what a place is: it is bounded by the number
of rows, grows with them, differs from row to row, so that a page with
something behind it is full (`PageIsFull`, by a bijection from rows to places)
and one that is not empty ends within the table (`PageIsWithin`). The invariant
keeps what a walk has still to see behind its offset (`Behind`, upset by rows
that go) and what it has seen before it (`Ahead`, upset by rows that come). The
end of a walk follows from the first: with nothing listable at a place from
`offset + limit` on, nothing is left behind.

**ApiCallsProofs**: `TypeCorrect`, `AnswersAreTrue`, `FreshTokensAreLetIn`,
`CallsTakeEffectOnce`. The invariant says of each call by itself how its three
sides fit (`Early`, `Coming`, `Waits`), what a reply and an answer on their way
say about the conductor (`Told`, `True`), and what the caller has been told
(`Ended`); no step of one call touches another one's (`Same`), the shared token
being read and written by copy. `True` is where the exceptions come in: for
every operation but `get_project`, a call given up is answered with 500
(`TimeOutFails`), no exception of a controller is a 401 or a 200 (`CodeType`),
and no exception that crosses the RPC call looks like a success
(`NoErrorIsSuccess`). `Fresh` says that what a token on its way lacks of the
stale duration is the time it has been on its way. The refinement then needs no
more than `Ended` and the place of the call.

**BillsProofs**: `TypeCorrect`, `PagesAreSlices`, `WalksPassOverNothing`,
`WalksShowNothingTwice`, `SummariesAddUp`, `ReportsAreWhole`.

- *The loop.* `LoopIsRight` is proved by a least index at which it would be
  wrong: until the marker is hit nothing is collected, afterwards what is
  collected is the slice from there on, and the loop returns when that is full.
  `ChosenIs` says what a search keeps of a sequence, and in which order.
- *Walks.* A page shows one moment, a walk lasts for many. `WalkListed` relates
  the list a request works on to gnocchi as it is by then: of what has not been
  updated or deleted since the search nothing is left out of the list
  (`NoneLeftOut`) and what is there stands in the same order (`ListedInOrder`);
  before the marker there is only what was shown or dropped (`PassedByMarker`),
  and behind it nothing shown (`ShownIsNotListed`) that stayed where it was.
  `PageHolds` says it between two pages, where there is no list but only a marker.
  Whatever gnocchi does, either removes a resource, or puts one at the end
  (`MovesBack`); that is all the proof needs of it.
- *Summaries.* `SumsSoFar` puts each sum taken between what there was at the
  beginning and what there is now; as nothing is deleted, costs only grow, and
  `SumIsMonotone` carries it on.
- *Reports.* `NoneIsMissing`: what had a cost and is not of a type still to be
  asked for is on the list or in the report already; `CollectedInTurn` keeps a
  type from being listed twice.

Model-checked only: `EveryCallReturns` and `RatedPeriodsAreBilled`, which are
liveness under fairness and so need ENABLED, out of the reach of the provers; and
the findings, which are counterexamples. What the instances cannot show is
that the calls do what the modules say: that is the reading of the source in
section 3.

## 8. Findings

Each is a run that ends in a counterexample; the texts the code contradicts are
quoted in PROJECT.json.

1. `charge_is_lost`: `charge_account` flushes a balance computed from its
   snapshot; a bill committed in between is undone on the account, though its
   project keeps it. The run has one session that charges and one that bills,
   a call of each, and no faults.
2. `delete_takes_other`: `delete_account` deletes a project that was handed to
   somebody else after its snapshot.
3. `owed_action_fails`: `owed_action` swaps the arguments of `get_resources`; the
   search fails, the exception ends the pass, and neither the debtor's project
   nor those listed after it are billed.
4. `project_loses_owner`: two PUTs of the role at a time remove each other's
   assignment; nobody pays for the project.

Other things met on the way, which the modules have as the code has them and
which no run is about:

- A charge may be negative: the API refuses only values that are too large
  (`api/controllers/v1/account.py:78`), and `charge_account` clears `owed` at 0
  or more but never sets it below (`db/sqlalchemy/api.py:459`). So a negative
  charge can put an account into debt without the flag, until the next bill.
  No text says whether charges may be negative; `OwedTellsDebt` is about those
  that are not.
- The owner changed through the API (`api/controllers/v1/project.py:44`) is the
  owner in the database only; keystone's old one goes on being billed, since
  `get_rate_user` asks keystone (`processor/service/fetcher.py:93`).
- A walk through the bills begins after the first resource, which is on no page,
  and its last page fails (500), because the loop of `_pagination` ends without
  returning; without a limit any list but an empty one fails.
- `from_response` takes any response (`common/exception.py:604`), but a
  `Retry-After` with another status than 413 is a TypeError.
- A POST of a project that policy refuses is answered with 500: the text of the
  exception wants an action and is given none.
- DELETE of an account that does not exist is answered with 500: there is no
  `LOG.Warning`. `GET /projects` fails with a KeyError for a payer, and with an
  AttributeError for the simple listing. `get_project` answers 404 whatever has
  gone wrong.
- A client whose catalog lacked the endpoint when it authenticated never asks
  for another token, and refuses every call until it is made anew
  (`client/auth/token.py`, `client/client.py:65`).

## 9. Not modelled

- The export of charges, estimates and the types of the API's models. Of the
  checks of values in the controllers ApiCalls knows whether one refuses.
- Negotiation of versions: no controller calls it.
- Roles of a context: Access has no administrator or owner of a domain, because
  the hook that makes contexts never says so; `admin` of ApiCalls is what policy
  finds in the roles of the token.
- The pages of the report of charges (they are those of the charges).
- `change_account_level` reads the account unfiltered but narrows the UPDATE to
  the caller's own rows: for another user's account it hits no row, is retried
  and raises. BillingStore has the case (`Sees`); no run is about it.
- Logging by the client, TLS, and passwords against trusts: ApiCalls knows
  only that keystone answers or does not.
- The days of grace: `GetPayer` lets a debtor be beyond his grace or not.
  `owed_at` is set anew by each bill, so the days start again every hour, and
  `str2ts` reads UTC as local time; no text says what is meant.
- The period a project is opened with and the price of a whole day that stands
  in for an hour are in the model, and `BilledInFull` excepts them by name: the
  code promises nothing about either.
- Dropping resources: `owed_action` never gets there.
- Serialisation, routing, start-up, migrations, options, texts.
- `delete_project` of the conductor calls a database function that does not
  exist; nothing calls it.

## 10. Plan

Done: the database (BillingStore, Ledger), the processor (Processor, Metering),
the owners (BillingOwner), the listings (Listings), calls from end to end
(ApiCalls, AtMostOnce, HttpErrors, Access) and what is read back from gnocchi
(Bills), with proofs of every safety property of their runs. Left, in this order:

1. **Billing**: Processor, BillingOwner and Ledger composed: a bill goes to
   whoever holds the role when the period is billed.
2. **Owing**: levels, days of grace, `owed_at` and the processor's decision, on
   top of Ledger; `estimate` reads the same.

## 11. Running

`tlc -workers 2 -config <run>.cfg <module>` checks a run (modules MCBillingStore,
MCProcessor, MCBillingOwner, MCListings, MCApiCalls, MCBills), `tlapm <module>` checks the proofs of a module.
Every run ends within five minutes on two cores.
