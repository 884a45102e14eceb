# A formal model of pg_gateway

pg_gateway is an HTTP gateway to PostgreSQL. It derives routes, request models and SQL from a
YAML configuration, identifies callers by the DN of their client certificate, binds each DN to
one tenant and a set of grants, and reloads the configuration while it runs. This directory
holds TLA+ modules that model it, the TLC configurations that check them, and proofs checked by
TLAPS. `PROJECT.json` lists, for every definition, the source lines it stands for.

## 1. Inventory

| Component | Source | State | Operations | Modules |
|---|---|---|---|---|
| Request context middleware | `middleware.py`, `context.py` | a ContextVar per request; `account_tenants`, shared with the reloader | `__call__` | `Gateway` (`Admit`), `ConfigLoader` (`Identify`) |
| Access control | `authz.py`, `acl.py` | `authz.config` | `allow`, `require_operation`, field sets | `AccessRules` |
| Resource service | `service.py` | `app_config` | ten operations, `_run`, `_present`, `_attach_includes` | `Handlers` (up to the first query), `Gateway` (after it), `Includes` |
| Query builder | `sql/builder.py` | `args` of one statement | ten builders, filters, sorting, pages | `QueryBuilder` (what is built), `Handlers` (which clauses), `RowStore` (what they do) |
| Database access | `db.py` | the pool, its sessions | `connect`, `acquire`, `fetch*`, timers | `ConnPool`, `Gateway` (`Acquire`, `Execute`, `Fault`) |
| Schema and policies | `db/init.sql` | tables | statements under row-level security | `RowStore`, `Includes` |
| Configuration reloader | `config/reloader.py` | `_mtimes` | `__init__`, `poll`, `run` | `Reload`; its effect: `Gateway` (`Apply`) |
| Loader and models | `config/loader.py`, `config/models.py` | none | `load_config`, the overlay, validators | `ConfigLoader`, `Reload` (when it happens) |
| Application assembly | `main.py` | `app.state` | `create_app`, lifespan, `apply_config` | `Reload`, `Gateway` |
| Routes and request models | `routers.py`, `schemas.py` | fixed at start-up | one route per enabled operation | `Gateway` (`Admit`, `Body`), `Handlers` |
| Errors | `errors.py` | none | handlers | `Gateway`, `TenantStore` |
| Health and readiness | `main.py` | none | `/ready` | `ConnPool` |
| OpenAPI export | `export_openapi.py` | none | writes a file | not modelled |

**How they interact.** A request passes the middleware, which reads `account_tenants` and sets
the context; FastAPI reads and validates its body (an await) with a model built from the
*start-up* configuration; the service authorises it with the *live* one, checks and stamps the
payload and builds SQL without yielding; each statement takes a pooled connection, opens a
transaction, binds `app.tenant_id` to it, runs and commits (awaits); the service then filters the
rows with whatever grant is live *then*, and, for includes, starts again with the next relation.
The reloader swaps the configuration between any two of these steps. The database applies its
policies to whatever tenant the transaction is bound to.

**What is hard here.** Requests interleave at every await and share the live configuration, the
pool and the rows. One request may see three configurations, and one with includes more. A
timeout may strike during COMMIT. The tenant is a setting of a session that others use next.
Related rows are read at another moment than the rows they are attached to. Placeholders and
arguments are kept together by numbers only. Two files are watched by time stamps and read one
after the other while an operator writes them. Failures of a load are swallowed. The hazards,
each at its line, are in `PROJECT.json`.

**What makes it correct.** No tenant reads or changes another's rows; every request acts at most
once, and its answer tells what happened to the data; deleted rows stay deleted and hidden;
no row shows what the grant withholds (with two exceptions, section 3); what is attached belongs; a statement is what was asked for;
who waits is answered; only validated configurations are served, and in the end the current one.

## 2. Modules

```
AccessRules    RowStore              pure operators: grants; statements and their outcomes
   |    \        /
   |    Handlers                     what a handler decides before its first await
   |     |     \ IsConfig
   |  Gateway   ConfigLoader         requests at work      from two files to a configuration
   |     |
   |  TenantStore                    what clients are promised, implemented by Gateway
   |  Leases                         what the pool promises, implemented by ConnPool and Gateway
   |
Includes                             the queries of one request with ?include=
QueryBuilder   ConnPool   Reload     placeholders     sessions and probes    the two files
```

`MCGateway`, `MCIncludes`, `MCQueryBuilder`, `MCConfigLoader` and `MCReload` give the constants
their small values; `*_proofs` hold the theorems.

**AccessRules.** A configuration is a record of resources (operations, declared, readable,
writable, required, filterable and key fields, what aggregates may group by and sum, row filter,
soft delete) and accounts (tenant, grants).
`Denial` is `_authorize` followed by `require_operation`; `ReadableFields` and `WritableFields`
are those of `ACLChecker`. `GRANT_DENIED` is not among its codes: `allow` has refused that
caller already.

**RowStore.** The database as the gateway uses it. A statement is a record of the clauses
`builder.py` renders; `Outcomes(q, guc, t)` is the set of results it may have on table `t` under
the tenant `guc`: the new table, the rows returned, a count, an error. Policies (`USING` and
`WITH CHECK` of `init.sql`), the unique key, generated ids, defaults, pages, and both forms of
`ON CONFLICT` are there. The order of rows is left open. `Rls` switches the policies off, so that
each layer can be checked without the other.

**Handlers.** One operator per service method, from the authorisation to the list of statements
("plan") or the refusal. `create` and `batch_create` share `Create`. A filter is the set of
values that satisfies it; a field with no operator has no clause. Of an aggregate, the columns it
groups by and sums are kept: they reach the client. `ParsedItems`, `Required` and
`BodyValid` are the request models.

**Gateway.** The process. Per request: its stage, call, context, plan, connection, outcome and
response; shared: the live version, the table, and the tenant bound to each connection.

| Action | Code |
|---|---|
| `Admit` | the middleware, the route, and the handler when there is no body |
| `Body` | the body is validated (400) and the handler runs |
| `Acquire` | `Database.acquire`: a connection, BEGIN, `set_config(..., true)` |
| `Execute` | the statement and its COMMIT, or its error and the rollback |
| `Fault` | a timeout or lost connection: rolled back, or lost after a COMMIT that took effect |
| `Resume` | the connection returns; next statement, or the answer through `_present` |
| `Apply` | `apply_config` |

`Admit` and `Body` run the handler up to its first query in one action because there is no
suspension point in it: `authz.allow` is a coroutine that never suspends. `Resume` reads the live
configuration again, as `_present` does; `Shown` is what reaches the client: presented rows cut
down to the live grant, the key alone of a row deleted for good or in bulk, and the columns of an
aggregate as they are. `authorised`, `shownBy`, `late` and `effect` are history
variables for the properties.

**TenantStore.** What a client is promised, in six actions: a request is let in for one tenant,
or refused; it acts in one atomic step on rows of that tenant only, and sees them as that step
found or left them; it is answered with a success that accounts for every row it changed, with a
refusal if it changed nothing, or left in doubt. `Gateway!Promise` maps `Gateway` to it: a
request that counts before it lists, or waits, is still "open"; the last statement is the act.
`ImplementsTenantStore` is its specification under that mapping.

**Includes.** One list or get with relations, among reloads and the writes of others. `Start`,
`Fetch`, `Present` and `Join` are the code between two awaits. `source` is the configuration
`_attach_includes` holds on to; `via` the one whose grant and resource each relation was looked
up in. Keys that the grant hides are `Null`, as a presented row's `.get()` gives `None`.

**QueryBuilder.** Each `build_*` method, `build_related_select` included, is the sequence of pieces
it adds, in its order; `Add` is one piece with `_next_arg` for each of its values, `Refuse` the
first that is not allowed. Two methods begin with an attempt they give up: `build_upsert` calls
`build_insert` and writes the statement anew (`builder.py:300-309`), and `build_related_select` has
its row filters before it sees that there is no key and answers `WHERE FALSE`
(`builder.py:385-391`). Their pieces are the `Draft`, and `StartOver` is where the second argument
list begins. `Allowed` is the whitelist as the code has it, the table's own name included. The
properties evaluate what was built on sample rows, against what the request meant (`Wanted`,
`Acceptable`). Handlers takes it from here that a filter is the set of values satisfying it.

**ConnPool.** asyncpg's pool as `db.py` sets it up: sessions are opened, bound, reset (which drops
the `statement_timeout` that `init` set), found broken, expired; statements get stuck; the
database goes away and comes back. Requests and `/ready` compete for it. Gateway takes it from
here that a statement runs under its caller's tenant and that a connection comes back.

**Leases.** The pool as its callers see it, in nine actions: a caller waits with its tenant;
its statement starts on a connection nobody has, bound to that tenant; it is served only if it is
still bound so when it ends; otherwise it fails, before or after it started; either way nothing
stays bound; the connection goes back. `ConnPool!Lease` hides sessions, transactions and timers: a
connection that is taken shows from `Bind` on. `Gateway!Lease` hides everything but the stage of
each request and the tenant of its context. Both modules implement it (`ImplementsLeases`): what
Gateway does to connections is something callers of the pool can see. The other direction, that
Gateway leaves out nothing the pool may do to it, is by inspection: a failure to get a connection,
or before the statement starts, is one during it (`Fault`, the same answer), and sessions lost all
at once are lost one by one.

**ConfigLoader.** The merge of base and overlay, the validators, the registry and the lookup in
the middleware. A file is a function from sections to settings, and anything may be malformed.
`LoadedIsConfig` is the assumption Gateway makes of its configurations (`IsConfig`: a grant is for
a known resource, operations it has enabled and fields it declares); `Valid` after
`Merge` is what Reload calls `ValidPairs`.

**Reload.** `poll()` does not yield to the event loop, but the operator's writes do not wait for
it: each `stat` and each `open` is an action, and each may fail for a moment. `missed` (history)
says that the last load failed on a file that could be read. The first snapshot is taken in the
lifespan, after `create_app` has read the files and the pool has connected.

## 3. Runs

Every run of `Gateway` uses one table (`users` of `config.yaml`, with `full_name` and
`created_at` left out, which behave like `email` and `id`), two tenants, two accounts, four ids.
Two ids hold rows at first, two are fresh. Requests serve one call each, chosen from a list made
for the run's question.

| Run | Bounds | Shows |
|---|---|---|
| `Filters` | 2 requests, 2 connections, 1 reload that swaps tenants, faults, no policies | row filters alone keep tenants apart; `ImplementsTenantStore`, `ImplementsLeases` |
| `Policies` | 2 requests, 2 reloads among 4 registries, faults, no row filters, `tenant_id` writable | the policies alone do; `ShownGranted` |
| `Deletes` | 3 requests, soft delete, a row already deleted | `DeletedOnce`, `AckedDeleteHides`, `DeletedStaysDeleted` |
| `Batches` | 2 requests, 1 connection, hard delete, faults, the resource may be dropped | `ResponseTellsEffect`, `EveryRequestAnswered` |
| `Includes` | 7 queries, 2 reloads among 5 configurations, 2 writes | `IncludedVisible`, `IncludedRelated`, `IncludesComplete` |
| `Builder` | some 1700 requests: every kind, operator and page boundary; lists that name the table, an undeclared column, no identifier | `SelectsWanted`, `ValuesPlaced`, `EveryArgumentUsed`, `RefusedForCause` |
| `ConnPool` | 2 callers, 2 connections, outages without bound | `StatementsBound`, `ImplementsLeases`, `ReadyMeansUp`, `EveryUseEnds`, `ProbesRecover` |
| `Config` | some 3000 pairs of files, right and wrong in every section | `LoadedIsConfig`, `CallerIsRegistered`, `OverlayKeepsRest` |
| `Reload` | 3 writes, 4 contents per file and absence, read errors | `QuietMeansCurrent`, `ServesValidated`, `EventuallyCurrent` |

Why these bounds. A request without includes reads the configuration at three moments, so two
reloads give it three different ones; one with two relations reads it at four, of which the two
reloads of `Includes` may separate any three. Every clash between requests that the properties
speak of involves two of them; the third in `Deletes` is a reader that comes after. One
connection is the hardest pool for waiters; with two, one may be lost or expire while the other is
in use, and either may pass from caller to caller. A stale or torn pair needs one
write between a stat and an open, and one more on the other file. `Builder` and `Config` are
enumerations: requests and files have at most two of each thing whose order or number could
matter.

**Properties that fail.** Three runs expect a violation; each checks a sentence of the
repository's documentation, a test or a message in the code, and shows how the code disagrees.

- `StaleTenant`: a reload that arrives with the body on its way pairs the new grants with the old
  tenant (`design.md:73` promises an atomic swap). Isolation holds all the same.
- `UnfilteredDelete`: `{"filters": {"status": {}}}` passes the guard and deletes the whole tenant.
- `ReloadBootGap`: a write between `load_config` and the first snapshot is never noticed.

Other disagreements are in the models, but need no run to be seen:

- a database error that `_run` does not map ends as a plain 500 without the error envelope
  (`errors/spec.md:11`); `ErrorAnswer` has it;
- a load that fails for a moment is not tried again until the next write (`README.md:155`);
  `QuietMeansCurrent` says that no more than this is lost;
- a grant without a readable field makes the column list empty, which selects every readable
  column (`builder.py:163`); a reload that widens the grant before the answer lets them through,
  against `access-control/spec.md:39-40`; `ShownGranted` excepts this case by name;
- an aggregate groups by and sums columns outside the grant (`service.py:339-341`, against the same
  lines); `ShownGranted` bounds them by what the resource lists only;
- a resource that a reload removes between COMMIT and the answer turns a successful write into a
  404; `ResponseTellsEffect` excepts it, `VerdictOf` calls it "unknown";
- a column nobody declared passes if it has the table's own name and a list names it
  (`builder.py:51`): PostgreSQL then reads it as the row or refuses it;
- `upsert` drops fields outside the grant instead of refusing them
  (`access-control/spec.md:30`);
- a reload applies a registry without accounts, which start-up refuses (`main.py:30`);
- a `query_timeout_ms` below a second is enforced on a connection's first use only
  (`query-engine/spec.md:65`): later `command_timeout`, at least a second, is what is left;
- the delete of `UnfilteredDelete`, on a resource with neither soft delete nor row filters, has an
  empty WHERE and is a syntax error.

**Assumptions.** Every assumption on constants is a named ASSUME and is evaluated by a run. Two
constants of `Reload` stand for assumptions about the environment: `QuietStartup` (no writes while
the process starts; lifted by `ReloadBootGap`) and `DistinctMtimes` (every write gets a time of
its own). The theorems on isolation by row filters and on deletions have hypotheses of their own
(section 4). The shipped `config.yaml` satisfies the one on row filters: clients may not write
`tenant_id`. It does not satisfy `SoftDeleting` as a whole: `users` and `orders` are deleted by
marking and clients may not write `deleted_at`, but `order_items` is deleted for good
(`config.yaml:189-190`), so that for the shipped file the theorems on deletions speak of a gateway
with the first two resources only. Keys of relations are never NULL, as in `init.sql`. In `ConnPool` the database obeys a cancellation, and BEGIN, `set_config` and
COMMIT do not get stuck.

**Fairness.** `Gateway`: each request past its body is weakly fair. That a statement ends and a
connection comes back is `EveryUseEnds` of `ConnPool`, where it follows from the timers; that a
waiter gets one in the end is asyncpg's, and weak fairness is enough for it because the bounded
workload releases the connections for good. Clients owe nothing: a body may never come, and nobody
has to reload. `ConnPool`: only callers that hold a connection are fair; waiters owe each other no
order, and nobody has to call, crash or recover (`ProbesRecover` is about behaviours in which the
database stays up). `Reload`: the process with its supervisor is weakly fair, and the stat of each
file strongly so, for a stat that is repeated does not fail for ever; the operator and a shutdown
owe nothing.

## 4. Proofs

| Theorem | Says |
|---|---|
| `ReadsIsolated`, `WritesIsolated` | `Guarded` implies `Spec => []ResponseIsolation`, `Spec => WritesStayInTenant` |
| `GatewayKeepsPromise` | `Guarded` implies `Spec => ImplementsTenantStore` |
| `PoolKeepsLeases`, `GatewayKeepsLeases` | `Spec => ImplementsLeases`, of `ConnPool` and of `Gateway` |
| `ResponsesTellEffects` | `Guarded` implies `Spec => []ResponseTellsEffect` |
| `ResponsesShowGranted` | `Spec => []ShownGranted`: rows within the live grant; a read within the one that authorised it, if that left it a field; an aggregate within what its resource lists |
| `RowsDeletedOnce`, `DeletionsHide`, `DeletionsLast` | `SoftDeleting` implies `Spec => []DeletedOnce`, `Spec => []AckedDeleteHides`, `Spec => DeletedStaysDeleted` |
| `IncludesVisible`, `IncludesRelated` | `Guarded` implies the two safety properties of inclusions that need no history |
| `IncludesMissNothing` | `Guarded` and `DeletesMarked` imply `Spec => []IncludesComplete` |
| `PoolBindsStatements`, `ProbesTellTruth` | `Spec => []StatementsBound`, `Spec => []ReadyMeansUp` |
| `LoadsConfig`, `CallersRegistered`, `OverlaysKeepRest` | the three properties of `ConfigLoader` |
| `ReloadServesValidated`, `ReloadQuietMeansCurrent` | only validated pairs are served; with quiet start-ups and distinct times a quiet reloader is up to date |
| `GatewayTypeOK`, `ReloadTypeOK` | type correctness |
| `SelectsTheRowsAskedFor`, `WritesPlaced` | what a request asked for is what its statement selects and writes: the bound arguments, put at their placeholders, mean the request |
| `ArgumentsUsed` | every argument has one placeholder, in what is sent and in what is given up |
| `RefusesForCause` | a statement is built only of a request its resource lets through, and every such request has one, if the resource's names are identifiers |
| `OutcomesOfTenant`, `PreparePlanned` | the two facts about pure operators on which isolation rests |
| `OutcomesBury`, `PrepareTidy` | and the two on which deletions rest |

They hold for any number of requests, connections, tenants, rows, configurations, files, reloads,
writes and contents; those about the builder for requests with any number of filters, operators,
fields, items, groups and conditions.

*Isolation* (`Gateway_proofs`). `Guarded` is the hypothesis: the policies are installed, or every
configuration ever loaded has row filters on every resource and a `tenant_id` clients cannot
write. Either is enough. `ResponseIsolation` is not inductive. `IsolationInv` adds `Wired` (a
connection serves one request, and while its statement is to run the transaction is bound to that
request's tenant; this carries the policies' half), `PlansScoped` (each statement still to run has
the tenant clause, no `tenant_id` among its new values, and items stamped with the tenant *of its
context*, whichever configuration built it; this carries the row filters' half), and `Blank` (a
request that has no tenant yet has no rows). `PreparePlanned` gives `PlansScoped` when the handler
runs; `OutcomesOfTenant` says that a statement confined by either half returns and changes rows of
its tenant only. Writes follow from the same invariant, step by step.

*Granted fields* (`Gateway_proofs`). `ShownInv` adds that a request's statements are about its
resource, and `AsksFor`: a read still asks for the columns its own authorisation selected, an
aggregate for what its resource listed then, a bulk or hard delete for the key. The answer cuts
presented rows down by the live grant; what it does not present is what was asked for. No
hypothesis on policies is needed.

*Deletions* (`Gateway_proofs`). `SoftDeleting` is the hypothesis: every resource of every
configuration ever loaded deletes by marking, and `deleted_at` is neither writable nor a conflict
key. Without it the properties fail: `build_hard_delete` has no `deleted_at IS NULL`, so after a
reload from soft to hard deletion a marked row can be deleted again. `DeletedInv` says that each
statement still to run is careful (it skips marked rows, or is an upsert, which cannot touch the
mark, or a read that asks for them); that what a request deleted, and what it was late for, is dead
in the table as it is now; and that two deleting requests hold different rows. `OutcomesBury` gives
the step: a careful statement revives nothing and meets no dead row, so that what it returns is
different from all that was deleted before.

*The promise* (`Promise_proofs`). `OutcomesReport` and `OutcomesCounted` say that a statement
reports every row it changes, and an insert as many as it has items. `PromiseInv` carries what a
request has done so far: nothing while it is open (in particular a count changes nothing, which is
why only the last statement acts), what its outcome reports once it has acted, and what it was
told when it is closed. The refinement then maps each step: `Execute` or `Fault` of the last
statement to `Act`, answers to `Succeed`, `Refuse` or `Doubt`, everything else to `Open`, `Reject`
or a stutter. TenantStore states no fairness, so the theorem is the whole of it.

*Inclusions* (`Includes_proofs`). The inductive invariant says of the statement under way by what
it is confined (tenant, soft deletion, and keys taken from the rows it is for), of the rows it
returned the same, and of everything attached what the properties ask. `IncludesMissNothing` adds
the rows nobody wrote since the request came: they are still in the tables, the next statement
hides none of them but deleted ones (`DeletesMarked`: a table configured for soft deletion has a
`deleted_at`), those it asks for are among what it returned, and each attached entry has the ones
that belong to it. A write only takes rows from them, so what is whole stays whole.

*The pool* (`ConnPool_proofs`). A connection is held by one worker; it is in a transaction from
`Begin` to its end, and bound only there. For `ProbesTellTruth`: a session is open only while the
database is up, and a call under way while it is up has seen it; an outage in the middle of a call
leaves it with what it saw, and no "ok" without a live session.

*Leases* (`ConnPool_proofs`, `Promise_proofs`). The pool's invariant above is all that
`PoolKeepsLeases` needs: a connection about to be bound shows as had by nobody because it is held
by one worker; a statement whose commit succeeds is bound because its session is alive; one whose
session is gone is not. On Gateway's side `TypeInv` is enough: `Wired` says that a connection
serves one request and stays bound to the tenant of its context, whatever is reloaded. Neither
needs `Guarded`.

*The loader* (`ConfigLoader_proofs`). The document is the merge, a loaded one is valid and its
configuration is made of it, and the last entry for a DN exists (a set of naturals with a bound).

*Reload* (`Reload_proofs`). At each stage of a poll, what was recorded is either behind the disk or
matches what has been read; it needs the times recorded *before* the read, and distinct.

*The builder* (`QueryBuilder_proofs`). `BuilderInv` says that what is bound, followed by what is
still to do, is the request's pieces in their order; that each bound piece has the values of the
pieces it came from at its own placeholders; and that placeholders and arguments are one to one.
One step moves one piece across; while a draft is built the pieces are the draft's, and `StartOver`
takes what is bound and the arguments back together. When nothing is left to do, `PiecesComposed` says for each kind of
request which pieces are conditions, which write, group or page, and the filters are taken operator
by operator. `RefusesForCause` judges each piece by itself: those of an acceptable request are not
denied, neither in the draft nor after it, and a statement without a piece denied has an acceptable
request. The pieces of a request are a concatenation of unknown length; what `FlattenSeq`, a
recursive function of the community modules, returns is proved by a least counterexample
(`FlattenElements`), which needs no induction rule.
`QueryBuilderAssumption` is what the theorems take for granted of a request: each method of the
builder gets its own parameters and no others, columns hold integers or NULL and keys are not NULL,
only the texts of `in` may hold blanks, and a hard delete is asked for only where soft delete is off
(`service.py:225-232`, `:312`).

**Only model-checked.** All liveness (`EveryRequestAnswered`, `EveryUseEnds`, `ProbesRecover`,
`EventuallyCurrent`) is out of the prover's reach. Every other property of a passing run is proved
as well.

## 5. Not modelled

- The text of statements, the function and the results of an aggregate, the order of rows,
  `coerce_pk`. The type of a single value is pydantic's and the database's.
- Statements are atomic. Under READ COMMITTED one that meets a concurrent update waits and
  re-evaluates its clause on the new row, which is a serial order for the single-row statements
  here; a bulk statement over many rows has no such guarantee.
- The count and the page of a list are two statements, and nothing in the repository says that they
  agree.
- Two writes of a file within the granularity of its time stamp (`DistinctMtimes`).
- What cannot change while the process runs: the DN header, the page sizes and timeouts of
  start-up, routes and request models of an operation that only a reload enables.
- Configurations the repository does not have and the validators let pass: a relation named like a
  field, or whose foreign column is the table's name, a row filter on an undeclared column, unknown keys in a grant (ignored).
- Closing the pool at shutdown; correlation headers; logging; response models, which no route uses;
  the OpenAPI document and its export (offline, no state); the uvicorn entry point.
- `DenyAllAuthz`, a stub that nothing installs.

## 6. Plan

Of the builder: that the rows `SelectsWanted` means are those `RowStore` returns for the statement
`Handlers` planned, which today is the shared reading of filters as sets of values. Of the
reloader: an abstract service of configurations (some validated pair, replaced now and then) that
`Reload` implements and whose replacements are Gateway's `Apply`.
