# A verification of cpa-plugin-key-billing

`cpa-plugin-key-billing` is a plugin of the CPA proxy. It bills the usage of API
keys, binds keys to subscription plans with quotas, limits how many requests of a
key run at once, routes keys to upstream credentials, and keeps all of it in an
SQLite database. The host calls the plugin at several points of every request and
administrators edit its state while requests run.

This directory models the plugin in TLA+. TLC checks the models on small
instances; TLAPS proves the most important results for every value of the
constants. File names below are relative to `src/internal/`.

## 1. The system

| Component | State | Operations | Hard behaviour |
|---|---|---|---|
| Subscription quotas (`billing/quota*.go`, `plan.go`, `enforce.go`) | windows of each plan, cycles of each key, cycles of each shared plan (its pool) | authorize, charge, settle, reset, edits of plans | instants read before the lock; usage that arrives late; edits between an admission and its usage; two records (key and pool) of one usage |
| Key registry (`billing/keys.go`, `state.go`) | keys, whether CPA holds them, plan and rule bindings | sync, bind, unbind, views | deleted keys keep cycles and bindings and may come back |
| Usage accounting (`billing/account.go`, `pricing.go`, `plugin/usage.go`) | request records, quota counters | break down counts, price, record usage | counts of unknown accounting, missing times, saturation |
| Concurrency slots (`billing/concurrency.go`) | slot of each request, count of each key | acquire, assign, release, set limit | several calls of the host per request, refusals in between, limits that change, Close |
| Store and persistence (`billing/store.go`, `repository.go`, `sqlite/`) | state, pending changes, the database | save, retry, publish, load, configure, close | failed writes, restarts, hand-written lists of what changed |
| Request records (`billing/request_events.go`, `request_errors.go`) | pending and stored records | append, prune, clear | bounded queue, clearing against retries |
| Schema migrations (`sqlite/migrations.go`, `db.go`) | the file, one transaction | open, migrate, load | a chain of up to sixteen steps that depends on the version; failures and crashes in it |
| Routing rules (`billing/routing.go`, `sqlite/routes.go`) | rules, bindings | resolve, edit | referential integrity, merged allow and deny lists |
| Credential inventory and checks (`plugin/routing_credentials.go`, `ai_providers.go`) | identities seen, credentials on display, synchronised ones | observe, check, refresh, replace | calls of the host without the lock; four sources, of which one must not be trusted |
| Route logs and request origins (`plugin/routing_logs.go`, `intercept.go`) | bounded tables of requests in flight | begin, observe, finish | eviction, rules that change in between |
| Credential scheduler (`plugin/scheduler.go`) | rotation state of each pool, session bindings | pick, prune, configure | eviction, affinity against eligibility, candidates that come and go |
| Reference prices (`billing/reference_prices.go`) | metadata, price cache, refresh in progress | lookup, refresh, close | single flight, backoff, publication against readers |
| Custom prices and pricing (`billing/prices.go`, `pricing.go`) | prices | edit, resolve, compute | inherited rates, tiers |
| Upstream quota reports (`plugin/auth_quota_*.go`, `billing/credential_quota.go`, `sqlite/credential_quota.go`) | stored reports | store, latest, periods | reports out of order around resets |
| Quota block reports (`billing/admission_logs.go`) | last reported exhaustion of each key | report, clear | decision and report under different locks |
| Lifecycle, management API, analysis, plugin logs, model catalog, web panel | none of their own, or configuration | | I/O and views |

How they interact. A request enters at `interceptBeforeAuth`: model rules, price,
a slot (`AcquireSlot`), then quota (`Authorize`), each under its own critical
section; a refusal of the quota gives the slot back. The host then picks a
credential (`scheduler.pick`), calls `interceptAfterAuth` for each attempt, and at
some later time delivers `usage.handle` (charged by `recordUsage`) and
`request.complete` (`ReleaseSlot`), in either order. Administrative edits go
through `editConfiguration`, everything else through `updateResult`; both hold the
store's lock, so each store operation is one atomic step, and the interleavings
that matter are those of a request's steps with everything else.

What makes each part correct is stated by the properties of section 3. The hazards each
of them is aimed at are listed, with their lines, in `PROJECT.json`.

## 2. The modules

| Module | Models | Code |
|---|---|---|
| `QuotaCycles` | windows, cycles, validation, expiry, activation, charging: operators without state | `billing/quota_cycle.go`, parts of `quota.go` and `plan.go` |
| `Quota` | keys, plans, pools and the requests in flight, one action per store operation and per step of the host | `enforce.go`, `account.go`, `keys.go`, `plan.go`, `quota_reset.go`, `plugin/intercept.go` |
| `QuotaProofs` | theorems about `Quota`: its types, its states, its steps | |
| `QuotaStore` | extends `Quota` with the database: what each operation saves, failed saves, published edits, restarts | `store.go`, `repository.go`, `sqlite/repository.go`, `sqlite/plans.go`, `sqlite/api_keys.go` |
| `QuotaStoreProofs` | theorems about `QuotaStore` | |
| `Semaphores` | what concurrency limits promise (abstract) | |
| `Slots` | concurrency slots and the calls of a request that handle them | `concurrency.go`, `plugin/intercept.go`, `store.go` |
| `SlotsProofs` | theorems about `Slots`, among them that it implements `Semaphores` | |
| `Routing` | rules, bindings of keys, what edits save, decisions | `billing/routing.go`, `sqlite/routes.go`, `api_keys.go`, `plugin/admin.go` |
| `Inventory` | what the plugin knows of credentials, and from whom | `plugin/routing_credentials.go`, `ai_providers.go` |
| `RoutedRequests` | composes the two with requests: admission, pick, check, log line | `plugin/intercept.go`, `routing_credentials.go`, `routing_logs.go` |
| `RoutedRequestsProofs` | theorems about `Routing` and `RoutedRequests`, among them that the second implements the first | |
| `Scheduler` | rotations, sessions, bounded tables | `plugin/scheduler.go` |
| `SchedulerProofs` | theorems about `Scheduler` | |
| `ModelPrices` | the choice of a price among providers: operators | `billing/models_dev_prices.go`, `reference_prices.go` |
| `ReferencePrices` | lookups, cache, refresh, backoff, managers | `billing/reference_prices.go`, `sqlite/reference_prices.go` |
| `ReferencePricesProofs` | theorems about `ReferencePrices` | |
| `RequestRecords` | records that wait, are written, pruned and cleared | `billing/repository.go`, `request_events.go`, `sqlite/request_events.go` |
| `Migrations` | schema versions and the steps between them: operators | `sqlite/migrations.go`, `schema.go` |
| `Databases` | composes the two: open, migrate, load, use, shut down | `sqlite/db.go`, `billing/store.go` |
| `DatabasesProofs` | theorems about `RequestRecords`, `Migrations` and `Databases` | |
| `Usage` | token breakdowns and costs: operators | `plugin/usage.go`, `billing/pricing.go` |
| `CredentialQuotas` | the quota and the periods that stored reports show: operators | `billing/credential_quota.go`, `sqlite/credential_quota.go`, `plugin/auth_quota_headers.go` |
| `UsageReports` | composes the two with requests and an upstream whose windows run | `plugin/intercept.go`, `auth_quota_headers.go` |
| `UsageReportsProofs` | theorems about `Usage`, `CredentialQuotas` and `UsageReports` | |
| `MC...` | instances for TLC: inputs, symmetry, the states to explore | |

### Quota

State: `status`, `bound`, `cycles` are `KeyState.InConfig`/`DeletedAt`, `PlanID` and
`Cycles`; `plans`, `shared`, `windows`, `pool` are `State.Plans`, `SharedQuota`,
`Windows` and `Plan.Cycles`. A Go map is a function over all its possible keys
whose value outside the map is the zero value. `requests` is what the host knows:
each slot is one attempt, which arrives (the plugin reads the clock), is admitted
or refused with that perhaps stale instant, starts (`RequestedAt`), may be retried,
and ends with a usage record, with or without its start, or without one. Helper
calls are billed without being admitted. `ends` and `cut` are history variables:
the cycles a request was admitted in, less those an edit has removed.

Abstractions. One counter and one limit stand for the three dimensions (amount,
tokens, requests), which the code treats alike. Time is in integer units, where the
code has nanoseconds; equal instants are included and the boundary cases (`at` equal
to the start, the end or `UsageSince`) are reached. Names, labels, currencies,
order of display and returned views are left out. Administrators' inputs come from
the sets `Periods`, `Anchors` and `Limits`; `clock` stops at `MaxTime`, counters
saturate at `MaxCount` as the code's do at `math.MaxInt64`. An edit that the code
refuses changes nothing and is not a step. Plan and window IDs may be used again
after their removal, where the code draws random ones, which only adds behaviours.

### QuotaStore

`disk` holds the rows of the database and `dirty` is `Store.dirty`. Each action of
`Quota` is conjoined with what its handler lists as changed (`SaveAdmitted`,
`SaveUsage`, ...), and with `Keep` (`updateResult`: memory changes whether or not
the save succeeds) or `Publish` (`editConfiguration`: only if it does). `Saved` is
one transaction: rows of listed keys, all plans or the cycles of listed pools.
`Flush` is a write of what is pending alone. `Restart` loads the database, after a
crash (requests gone) or a reload of the plugin (requests go on). Loading a
*different* database is not modelled. Request records wait in the same change set; they
touch nothing here and have a module of their own.

### Slots

State: `activeRequests` and `activeByScope` are the store's two maps, `limit` is
`ConcurrencyLimit`, `request` is where the host is with each request. `Reserve`,
`GrantQuota` and `RefuseQuota` are the two critical sections of `interceptBeforeAuth`;
whether quota is refused is left open. `Configure` replaces the limits and keeps
the slots, `Close` drops the slots while their requests run on. That the
edited key must be live is left out: a limit is only a number here.

### Routing, Inventory, RoutedRequests

`routes` and `bindings` are `State.Routes` and `KeyState.RouteBindings`, `disk` the rows. Lists
are sets: order and spelling decide nothing. Each edit is an action that ends in
`Publish`, which writes all rules (`replaceRoutes`) and the keys the handler listed, and nothing
else; `RestartRouting` loads. `Decision` is `ResolveRouting`. An edit is atomic and visible
only once saved, as `editConfiguration` makes it; failing saves are `QuotaStore`'s subject.

`identities` and `view` are `credentialIdentities` and `credentials` of the App. The host is
external: a configured credential has one identity for good, an auth file may change
under its ID, and any credential may come and go. `Refresh` may be given any earlier
list of the host, because the list is fetched before `routingMu` is taken. What it tells of a
credential may lack the source or the provider (`Told`).

An edit that names a credential which the rule did not name before looks it up in the inventory,
in critical sections of its own before the edit's: when the edit is made, the credential need only have
been on display at some time (`NewRefsShown`, with the history variable `shown`).

A request runs `InterceptBefore`, `Pick` (or another plugin picks), then
`selectedCredentialAllowed` in its critical sections: `InterceptAfter` (rules and ID),
`ReadIdentity`, `HostAnswers` or `HostFails` (no lock held), `Verdict` (the identity is
written back). Requests without a model, without a selected credential, and answers of the host
without a source or a provider are among the inputs; a pick may be refused for any of the three
`Shortfalls`. It may be picked for again after a failed attempt and may be cancelled between
calls. `pending` is the table of route logs with its order. `since` is a history variable:
what the rules were when the check began, and what the host said of the credential since.

### Scheduler

`rotations` and `sessionOrder` are `subsetScheduler`'s pools and session list, in use order.
The time of a pick is read before the lock, so a pick may be an instant late. Candidates of a
pick are any subset of the credentials, with the weight and priority of the moment.
`waits`, `uses` and `misfits` are history: how long each candidate has not been picked, what each
session used last, and the requests that were given a credential not eligible for them.
The derivation of pool and session keys is left out; they are model values.

### ModelPrices, ReferencePrices

A call (`LookupReferencePrice` for an admission, usage, or a refresh by an administrator or
at start) is a process whose `pc` names the critical section it has reached; `storageMu`'s
readers are the calls at `query`, and what takes it for writing waits for them. `managers` are
the instances that successive configurations opened on the database, closed ones
included, since a refresh may outlive its manager. A crash leaves the database. A list of
prices stands for its hash. Which price a list gives a model is `ModelPrices`: by key, canonical
entries first, agreement of providers, tiers of a name. `attempts` is history:
failures in a row as the database could know them.

### RequestRecords, Migrations, Databases

`dirty` is what waits in `Store.dirty` of records, of both kinds, and the cutoff; `rows` are
those of the database. `recorded`, `gone`, `due` are history. `Merged` and `Saved` are
`Changes.merge` and one transaction. An edit of anything, whether or not it succeeds, is
`Edit`. A save that would have succeeded with nothing to do is a stutter.

A database of `Migrations` is its version, its columns and tables (those some step
adds or drops), its indexes, and one row of each kind that a step converts; rows are converted
each by itself. What else an old row may have that a step or `Load` refuses (IDs that trimming makes
one, names that a route may not have, values that are no text or no JSON, prices that differ in case only) is
its `damaged`: who refuses it. A step applies where the columns it adds are missing, those it
drops are there and the rows can be read; otherwise it is refused, as SQLite and the code
do. `Databases` opens (`Begin`), migrates step by step in a transaction, commits with
version and indexes, prunes what is too old (`Prune`, outside any transaction and before anything is
validated), loads, and then lets `RequestRecords` work. `Interrupted` ends the process
at any step. The column sets of old versions (`OldestColumns`, `News`) are written down from
the schema backwards and apart from `StepsFrom`, which is what is checked. `Sound` says what the
programs of each version wrote. A key of
schema 11 that is bound to `system:all` is taken for damaged: the migration deletes
that rule and keeps the binding, and every load refuses the result (`LoadRefused`). Whether
schema 11 ever wrote such a binding this code does not tell.

### Usage, CredentialQuotas, UsageReports

`Usage` translates `usageBreakdown` with its three readings, `unclassifiedLowerBound` and
`computeCost`. Rates are integers per token. `CredentialQuotas` translates the fold of
`QuotaWindowPeriods`, the reduction of `LatestQuotaReports` (where reports of one instant
may stand for each other: SQLite picks any) and `observedAuthQuota`. In `UsageReports` an
external upstream has windows that run, end and are reset, requests overlap, and each
is stored at the instant it began, so reports arrive out of order. What a response used
(`answer.parts`) is flattened by the host under one of three accountings, with its total
or without, known to the plugin or not; or its counts are of any kind. Where input is independent,
reasoning is in the output or beside it (`"beside"`); beside it, the total is always told, since
nothing else tells the two apart: without it `providerIndependentBreakdown` takes reasoning for a part
of the output, as its providers report it.
The plans of a period and balances are left out; they are kept as the plan of a report is.

## 3. What the runs check

| Run | Instance | States | Properties |
|---|---|---|---|
| `QuotaPool` | 2 keys, 1 plan, 1 window, 1 attempt, anchors 4 and 5, period 2, instants 3..6 | 117 k | `Loadable`, `PoolBacksMembers`, `SameReset`, `PoolKeepsUsage` |
| `QuotaRequests` | 1 key, 2 attempts, anchored or not, usage 1 or 2, saturation at 2, instants 3..5 | 30 k | `NoFreeUsage`, `NoAdmissionOverLimit` |
| `QuotaEdits` | 1 key, 2 plans of one window or 1 plan of 2 windows, periods 1 and 2, anchored or not | 58 k | `IInv` |
| `QuotaSince` | 1 key, 2 attempts | violation | `UsageSinceExcludes` |
| `QuotaStore` | 2 keys, 1 plan, anchored or not, instants 3..6 | 165 k | `PendingCovers`, `EditsAreSaved`, `DiskLoads` |
| `Slots` | 2 keys, 3 requests, limits 0, 1, 2 | 20 k | `CountsHolders`, `HeldInFlight`, `SemaphoreSpec`, `SlotsReturn` |
| `RoutedRequests` | 2 keys, 1 rule, 8 texts of rules; then 1 key with its own rule, 1 auth file, 1 configured credential, 1 request | 181 k | `BindingsResolve`, `RestartKeepsDecisions`, `DenyWins`, `TrustedFromHost`, `DeleteAsAnnounced`, `AdmittedWasAllowed` |
| `RouteLog` | 1 key, 1 model, 1 request | violation | `NotReachedUnselected` |
| `Scheduler` | 3 credentials, weights 0..2; 2 keys, 2 pools, tables of 1 pool and 2 sessions | 42 k | `SessionsStick`, `NoneSkipped`, `CreditsBalance` |
| `ReferencePrices` | 2 calls, 2 managers, 3 lists, a cache of 1 | 291 k | `LiveAgrees`, `CacheInForce`, `OneRefresh`, `BackoffKept`, `CallsReturn` |
| `Databases` | versions 10 to 25 and others, sound or damaged; 5 records, 2 of a kind may wait, retention 1 or 2 days | 439 k | `WholeOrUntouched`, `SoundOpens`, `MigrationKeeps`, `WrittenOnce`, `GoneForGood`, `LatestWait`, `CutoffsKept` |
| `UsageReports` | counts in {-1, 0, 1, 4} with a largest integer of 8; 2 requests, 2 windows, 4 reports | 197 k | `PaidInFull`, `PartsRecovered`, `LatestAgrees`, `PeriodsOrdered`, `NoneInvented` |

The properties:

- `Loadable`: the validation at load (`ValidateCycles`, `Plan.Validate`) accepts every
  reachable state. A state that failed it would be saved and then stop the plugin.
- `PoolBacksMembers`: while a member's cycle is current, its pool is in the same cycle.
  `chargeQuota` reaches the pool only through the member's cycle, so this is what makes
  shared quotas complete.
- `NoFreeUsage`: the usage of an admitted request is taken by the cycle, and the pool,
  it was admitted in, unless the cycle is over or an edit removed it.
- `SameReset`: keys of a plan with a reset schedule are in the same cycle.
- `PoolKeepsUsage`: usage of a pool goes away only with the plan, its mode, its schedule
  or a reset of the whole plan; never because a member leaves.
- `NoAdmissionOverLimit`: nobody is admitted while a current cycle is used up, even
  with a stale instant. Requests admitted together may still overrun the limit: usage is
  known only afterwards, and the code does not promise otherwise.
- `PendingCovers`, `EditsAreSaved`, `DiskLoads`: no operation forgets to list something it
  changed; edits are never ahead of the database; every prefix of successful
  writes can be loaded.
- `CountsHolders`, `HeldInFlight`, `SemaphoreSpec`, `SlotsReturn`: the two records of slots
  agree, no slot outlives its request, slots are counting semaphores whose size may change,
  and every slot comes back.
- `IInv`: the inductive invariant of the proofs, of which `Loadable`, `PoolBacksMembers` and
  `NoFreeUsage` are parts, here with edits of several plans and windows.
- `BindingsResolve`, `RestartKeepsDecisions`: every rule a key is bound to exists, in memory and on
  disk (`Load` refuses a database in which one does not), and no restart changes a decision.
- `DenyWins`, `DeleteAsAnnounced`: the merged decision is that of the rules one by one, for models and
  for credentials by name and by selector: denied by one rule is denied, allow lists of all rules count
  together, and an allow list all of which is denied, or which is about the other dimension, does not
  become a free pass; and deleting a rule frees as many keys as its preview said.
- `TrustedFromHost`, `AdmittedWasAllowed`: an identity the check trusts came from the host, and a
  request whose check needed an identity goes only to a credential that the rules at
  the start of the check allow, for an identity the host gave it meanwhile or gives it for good. The
  rules may change while the host is being asked; the code decides by the earlier ones.
- `SessionsStick`: a session keeps its credential until its time is over or the table is full of
  sessions used after it, but is never given one that the request does not offer with a weight. `NoneSkipped`: nobody
  who stays a candidate is passed over,
  however the others come and go: of N credentials, in turns for N picks, by weight for more than
  N(N - 1) times the largest weight. `CreditsBalance`: the credits of a pool sum to zero. By weight
  both are promised while credentials and weights fit (`Fitting`): a table of more than
  `MaxCredits` credentials (1024 in the code) drops credits with their credentials, and credits
  saturate at `MaxScore` (2^63 - 1).
- `LiveAgrees`, `CacheInForce`, `OneRefresh`, `BackoffKept`, `CallsReturn`: prices and their
  metadata belong together, also after a refresh of a closed manager; no cached match outlives
  its prices; one call refreshes and the others wait for something that ends; failures are
  waited out, across restarts; every call returns.
- `WholeOrUntouched`, `SoundOpens`, `MigrationKeeps`: a file is as it was found or whole; nothing
  that a supported version wrote is refused; no usage, permission, account or report is lost or made up.
- `WrittenOnce`, `GoneForGood`, `LatestWait`, `CutoffsKept`: a record has one row or waits; what was
  cleared does not come back; only one too many makes a record give way; a cutoff that could not be
  applied is. (A full queue gives way before the save that then succeeds. The cutoff of
  a shorter retention that waited is applied even after the retention was raised.)
- `PaidInFull`, `PartsRecovered`: recorded parts are counts that add up, at one rate each token is
  paid for once, and an accounting the plugin does not know is never taken for another.
- `LatestAgrees`, `PeriodsOrdered`, `NoneInvented`: the reduced reports show the same quota as all of
  them; periods follow each other; late reports do not invent periods.

Two disagreements were found.

- `QuotaSince` refutes the comment on `QuotaCycle` (`billing/quota_cycle.go:11`), "UsageSince
  excludes requests admitted before binding or an administrative reset": what is compared
  is the start of the *attempt*, so a request admitted before a reset whose attempt (or retry)
  starts after it is charged to the new cycle. The effect is conservative: the usage counts.
- `RouteLog` refutes the panel's text for `not_reached` (`plugin/web/locales/en.json:442`),
  "Upstream credential: selection not reached". A request admitted without rules has no entry in
  the table; if its key gets a rule against its model before the check of its credential, that
  check begins an entry with the new rules (`plugin/routing_logs.go:119` then reports
  the model as denied and the selection as not reached), although the credential was selected, and
  possibly used. Only the log is wrong: the model rule is applied to later requests.

**Bounds.** Cycles of length 2 over four instants let a cycle begin, be charged, expire and
begin again, with an instant read one or two units earlier. Two keys are the least with a
member that leaves and one that stays; two attempts the least with an overlapping or retried
request; two windows the least with one edited and one kept; two plans the least for a
rebinding. The limit 1 (or 2 with usage 1) makes blocking reachable by one or two records.
Three requests and limits up to 2 make a limit fall below the slots in use.

Some runs restrict the states explored (`Bounded`, a union of smaller instances that share the
initial states), where the full product is too large and its parts do not interact:

- `QuotaEdits`: two plans of the same window, or one plan with any windows.
- `QuotaStore`: two keys until instant 4, or one key on all four instants.
- `RoutedRequests`: all edits of rules before the first request and without credentials; or one
  key, its own rule, and everything that happens to its request. Steps out of these are not taken
  (`BoundedSpec`). Decisions of a rule bound
  by ID and of the key's own are the same operator.
- `Scheduler`: long rotations of one pool; or sessions of two keys on two pools with weights of 1.
- `Databases`: five records in a new database; a migrated one starts with one record and
  a clock that stands still.
- `UsageReports`: any counts in a first answer (all four values of each, but no 4 written to the cache and
  no 1 of the `cached` count); or up to four reports of overlapping requests on one
  window, which use nothing themselves (`Shares` is {0}) while the window is used
  elsewhere only when no request is in flight; or three reports on two unused windows and two plans.

The last restriction is an assumption of `NoneInvented`, not only a bound: the code recognises a
reset by a large drop, so heavy use elsewhere between the answers of overlapping requests looks like one, and
periods without any use are not counted. `LatestAgrees` is stated for reports of distinct instants.
Three credentials are the least of which one can be passed over between two others; a largest
integer of 8 lets sums of counts of 4 overflow; two managers the least for a refresh that outlives
its own.

**Fairness.** `SlotsReturn` needs weak fairness of the second half of
`interceptBeforeAuth` (a handler that has begun runs on) and of `Complete` (the host sends
`request.complete` for every request it has begun, refused ones included; the comment on
`ReleaseSlot` and the plugin's tests rely on it). `CallsReturn` needs weak fairness of the steps of
each call: a goroutine that can run does, and a download ends (the HTTP client has a timeout). Time
need not pass, and a wait need not be given up. No fairness of administrators is assumed.

**Deadlock** is checked in every run.

Each property is also checked to fail when the code is changed: the definitions called
"mutant of ..." stand for a plausible slip in the operation they name, and `PROJECT.json`
pairs each with the property that catches it. They are used by no specification.

## 4. What is proved

| Theorem | Statement | Module |
|---|---|---|
| `TypeCorrect` | `Spec => []TypeOK` | `QuotaProofs` |
| `Inductive` | `Spec => []IInv` | `QuotaProofs` |
| `AlwaysLoadable`, `PoolAlwaysBacksMembers`, `NoUsageEscapes`, `AlwaysSameReset` | `Spec => []Loadable`, `PoolBacksMembers`, `NoFreeUsage`, `SameReset` | `QuotaProofs` |
| `NeverAdmittedOverLimit`, `PoolNeverRefunded` | `Spec => NoAdmissionOverLimit`, `PoolKeepsUsage` | `QuotaProofs` |
| `StoreInductive` | `StoreSpec => []StoreInv` | `QuotaStoreProofs` |
| `NothingForgotten`, `EditsSurvive`, `PoolSurvives`, `AlwaysLoads` | `StoreSpec => []PendingCovers`, `EditsAreSaved`, `PoolBacksMembers`, `DiskLoads` | `QuotaStoreProofs` |
| `SlotsInductive`, `SlotsCounted`, `NoSlotLeft` | `Spec => []SlotInv`, `CountsHolders`, `HeldInFlight` | `SlotsProofs` |
| `SlotsAreSemaphores` | `Spec => SemaphoreSpec` | `SlotsProofs` |
| `RoutingInductive` | `RoutingSpec => []RoutingInv` | `RoutedRequestsProofs` |
| `BindingsAlwaysResolve`, `RestartsKeepDecisions`, `DenyAlwaysWins`, `DeletionsAsAnnounced` | `RoutingSpec => []BindingsResolve`, `[]RestartKeepsDecisions`, `[]DenyWins`, `DeleteAsAnnounced` | `RoutedRequestsProofs` |
| `RoutedInductive` | `Spec => []RoutedInv` | `RoutedRequestsProofs` |
| `TrustOnlyHost`, `AdmissionsAllowed` | `Spec => []TrustedFromHost`, `AdmittedWasAllowed` | `RoutedRequestsProofs` |
| `RoutedImplementsRouting`, `RulesKeptUnderRequests` | `Spec => RoutingSpec`, and so the properties of the rules | `RoutedRequestsProofs` |
| `SessionsInvariant`, `PicksInvariant`, `SessionsKeepTheirBinding` | `Spec => []SessionsInv`, `[]PicksInv`, `[]SessionsStick` | `SchedulerProofs` |
| `TurnsInvariant`, `EverybodyGetsATurn` | `Spec => []TurnsInv`, `TurnsTaken` (`NoneSkipped` for round-robin) | `SchedulerProofs` |
| `CreditsInvariant` | `Spec => []CreditsInv` | `SchedulerProofs` |
| `CreditsStayInBalance`, `NobodySkipped` | `Spec => []CreditsBalance`, `NoneSkipped` | `SchedulerProofs` |
| `PricesInvariant` | `Spec => []PricesInv` | `ReferencePricesProofs` |
| `PricesAgree`, `CacheOfPricesInForce`, `RefreshesOneAtATime`, `WaitAfterFailures` | `Spec => []LiveAgrees`, `[]CacheInForce`, `[]OneRefresh`, `BackoffKept` | `ReferencePricesProofs` |
| `RecordsInvariant` | `DatabasesSpec => []RecordsInv` | `DatabasesProofs` |
| `RecordsWrittenOnce`, `RecordsGoneForGood`, `RecordsWaitOn`, `CutoffsApplied` | `DatabasesSpec => []WrittenOnce`, `[]GoneForGood`, `LatestWait`, `CutoffsKept` | `DatabasesProofs` |
| `OpeningInvariant` | `DatabasesSpec => []OpeningInv` | `DatabasesProofs` |
| `FileWholeOrUntouched`, `SoundAlwaysOpens`, `NothingLostInMigration` | `DatabasesSpec => []WholeOrUntouched`, `SoundOpens`, `MigrationKeeps` | `DatabasesProofs` |
| `TokensPaidInFull`, `UsedPartsRecovered` | `Spec => []PaidInFull`, `[]PartsRecovered` | `UsageReportsProofs` |
| `PeriodsInOrder` | `Spec => []PeriodsOrdered` | `UsageReportsProofs` |
| `ReportsInOrder` | `Spec => []SortedInv` | `UsageReportsProofs` |
| `LatestShowsAll` | `Spec => []LatestAgrees` | `UsageReportsProofs` |

They hold for any sets of keys, plans, windows, requests, rules, credentials, periods, limits and
usages and any horizon, under named assumptions: `MaxCountAssumption` (counters saturate at a
natural number), `QuotaAssumption` (periods, limits and the first instant are positive, and no
period reaches back from the first instant to the zero time, which stands for "no instant"),
`SlotsAssumption` (finitely many requests; a key is not `Nil`), `RoutingAssumption` (finitely many
keys; `Nil` is no rule), `InventoryAssumption` (an identity has a source and a provider; the host
gives a configured credential one identity for good) and `RoutedAssumption` (the table has
room for an entry),
`SchedulerAssumption` (finitely many numbered credentials, tables with room for one entry),
`ModelPricesAssumption` and `ReferencePricesAssumption` (names, limits and times are what they are
named; the list the database starts with is one the refresh would accept),
`RequestRecordsAssumption` (finitely many retentions and ages: the code refuses a retention above
`maxRetentionDays`, `billing/config.go`), `MigrationsAssumption` (`Nil` is no rule and no kind of
period; a year is a valid period), `FoundAssumption` (a file has the tables of the model; nothing is
assumed of their contents), `CredentialQuotasAssumption` (lengths are positive, and no window is named as the plan is) and
`UsageReportsAssumption` (the tokens a response used, its reasoning counted twice, fit an integer,
rates are not negative, and a window's use only grows until it ends). The reasoning counts twice since
`providerIndependentBreakdown` (`plugin/usage.go`) first tries it beside the output: near the largest
integer a known accounting is recorded as inconsistent. TLC evaluates all of them in every run
that uses the module.

The argument for quotas. None of the safety properties is inductive alone. `IInv` adds

- `Dates`: no cycle begins after the present. Without it an admission with a stale instant
  could settle nothing and yet start a pool cycle other than its member's;
- `Held`: the cycle recorded at an admission is still there until it is over or cut.
  `NoFreeUsage` speaks only of attempts already started; `Held` covers the
  time between admission and start.

`PoolBacksMembers` needs `Loadable` (shared plans are anchored and cycles lie on the
schedule, so two current cycles of a window have the same start), and `NoFreeUsage`
needs `PoolBacksMembers`. Operations that only end cycles that are over or add usage are
treated together as *quiet* steps; admissions and the edits each have a lemma. Every
edit replaces the cycles it removes by no cycle and cuts exactly these from the requests.
`SameReset` follows from `IInv` without induction: two anchored starts of one schedule
less than a period away from the same instant are equal.

The two action properties need no further invariant. Only an authorization admits a
request, and from `IInv` its instant is not after the present, so settling with it keeps
every current cycle: the counter compared with the limit is the one that counts. For
pools, expiry keeps current cycles, activation keeps started ones and a charge only adds
(saturating); `Loadable` gives that a plan with a current pool cycle is shared and exists, so
an edit that removes one has changed its mode or that window's schedule.

The argument for the database. `StoreInv` is `IInv`, `PendingCovers`, `EditsAreSaved`
and `DiskGood`, which says that the rows of the database satisfy what `Loadable`, `Dates`
and `PoolBacksMembers` ask of memory. Each operation has a lemma that its list of keys,
pools and plans covers what it changes; hence one successful write makes the database
equal to memory, which is good by `IInv`. A failed write leaves the database as it was,
and its conditions never get harder to meet as the clock advances. After a restart memory
equals the database, and `DiskGood` gives `IInv` again.

The argument for slots. `SlotInv` is inductive. The refinement maps `holders` of a
key to the requests whose slot names it; `CountsHolders` turns the counter that
`AcquireSlot` compares into the cardinality that `Semaphores` compares.

The argument for rules. `RoutingInv` adds to the types that the database equals memory
(`DiskIsMemory`), that only keys that were seen are bound, and that bound rules exist. An edit
writes the keys it lists and no others, so the first part needs each list to be complete: the keys
that lose or gain a rule are those in which its old and its new keys differ (`RebindChanges`), the
deleted ones included. From it a restart is a stutter. A rule goes away only together with all its
bindings, and a deletion is previewed by the same merge that decides later
(`DeletedDecides`). `DenyWins` holds in every state, by the way lists are united.

The argument for checks. `RoutedInv` says that a check holds the rules it began with and, once
it has an identity, one that the host gave the credential since then or gives it for good. Each
step of another request, of the host or of an administrator leaves the first alone and only
adds to the second; what is trusted without asking came from the host because candidates
without a source are forgotten (`OfferedIdentity`) and synchronised credentials never
become identities. Only `Verdict` sends a checked request on (`VerdictAdmits`).

The argument for records. `RecordsInv` says that IDs rise along each queue, that what waits has no
row and was not cleared, that no row was cleared, and that a cutoff which is due is not behind the
one that waits; a store without a database has nothing waiting. Appending, merging back a failed
save, pruning and clearing each keep these; `LatestWait` and `CutoffsKept` then follow for each
step.

The argument for migrations. A transaction is on a path of steps that its version alone determines.
`OpeningInv` says at which place of the path it is, which columns the database has there (so that no
step adds one that exists or drops one that does not), and what has become of each row. A file is written
by the last step of all, so it is as it was found or at the current version. What a sound row of each
version looks like at each later place is followed step by step (`SoundOpens`, `MigrationKeeps`).

The argument for prices. `PricesInv` says that only the manager opened last is open, that a manager
which refreshes has exactly one call that works for it, and that the memory of an open manager agrees
with the database whenever no such call is between the two; failures recorded never exceed
those that happened, and `Backoff` does not get shorter with more of them.

The argument for the scheduler. `SessionsInv` says of the last use of a session that its time is over,
or that as many other sessions as the table holds were used since, or that its binding is listed behind
none but such sessions. `PicksInv` says that nothing was given which was not eligible: a binding serves only
if it is, and whatever the strategy the turn goes to one of the eligible with the highest priority. Each
change of the list removes some bindings and may then put one in front. For
turns, `TurnsInv` bounds how often a credential has been passed over by the number of credentials
between it and the one picked last (`Passed`): each pick moves that one further, and never past a
credential that is a candidate.

By weight, `CreditsInv` bounds the credits of every set of credentials together, not only of each: n
of N of them have at most half of n(N - n) times what a pick may cost (`Room`), and all of them have
none. A bound of each alone is not kept by a pick, which charges one credential with what others
were given. A set that has the credential charged loses at least what its members gain. Of one that
does not, compare the set without one of its candidates and the set with the one charged, which had
no fewer credits than the candidate: the room of these two, together, is twice that of the set less
twice the cost of a pick, so the set keeps its bound. Each pick that passes over a candidate has
credited it at least 1 (`Owed`), so what it may have bounds how often that happens. `Fitting` is
what keeps these sums from saturating.

The argument for usage. Each reading of the counts is followed case by case: what it accepts adds up
to the total, what it refuses is kept as unclassified. For a use that was flattened under one of the
accountings, that accounting restores the parts; where the accounting is unknown, its reading is among
those that must agree before any is believed.

The argument for periods. `HistoryInv` holds of the fold before each report: periods that have ended follow
each other, what runs starts after them, and an early reset that may still be undone has left the
period to go back to. Each branch of the fold keeps it, the one that joins two periods again included.
That it holds after any list of reports is shown by the least report after which it would not.
`ReportsInv` says of the stored reports that they are such a list.

The argument for the quota shown. The stored reports are sorted, and each tells something
(`SortedInv`): those no later than a new one are the first of them, so their number is its place. The
quota after the first m reports shows, of each window and of the plan, the last of them that tells it
(`ShowsLast`); the quota after what is left of these m shows the report that was picked for it, if that is
among them (`ShowsPicked`). Both are kept by one report more, and of sorted reports of distinct instants the
newest is the last. The time of the quota agrees since the last report of all is the newest of what it
tells, so something is left of it.

The proofs corrected the models where the checks had not: `gone` missed waiting records that a clear prunes;
`Sound` accepted a plan of schema 12 with a period longer than the code allows, and new files
(without a version) that are not empty; and `Nil` could have been a kind of period. The bound of
`NoneSkipped` by weight was N times the largest weight, which holds for three credentials and for no more:
of four credentials of weight 1 that come and go, one waits for five picks.

Model-checked only:

- `SlotsReturn` and `CallsReturn`: liveness under fairness is outside the prover's reach.
- `NoneInvented`: it holds of the instance because of what that assumes of use elsewhere and of how
  long requests overlap (section 3). The code promises it of reports that are slightly out of order, within
  `quotaReorderHorizon`, and recognises resets by heuristics, so it is not true of every value of the
  constants: TLC violates it when overlapping requests themselves use much of a window (`Shares` of
  {0, 60}) or stay in flight beyond the horizon (a `Horizon` of 0). An assumption under which it were
  a theorem would say more than the code justifies.
- `UsageSinceExcludes` and `NotReachedUnselected` are false, and runs show it.

## 5. Not modelled, and why

- Quota block reports (`billing/admission_logs.go`): a memory that decides whether one line of the
  plugin's log is written. A refusal decided before another's report may be reported
  twice or not at all; nothing else depends on it.
- The switch to another database file: `Configure` opens and loads the new one, then replaces the state
  and closes the old one under the lock. `Databases` has the opening, `ReferencePrices` the
  replacement of a manager; two files at once would double both models.
- Edits of custom prices, builtin tables, currencies, and the order of the three sources: a table
  lookup without concurrency of its own. Amounts are floating point, and rounding is not modelled.
- Notes and balances of configured credentials, and the table of request origins, whose values only
  decorate records.
- Parsing of provider headers, of JSON from quota endpoints and of the host's files: text in, one
  report out; the repository tests it by example.
- The management API and its views, analysis queries, plugin logs, the model catalog and
  the web panel: read-only, or thin layers over operations modelled here.
- The cgo boundary, the host's HTTP client, masking of addresses.
- A panic during a download, which would leave the refresh in progress for good.

## 6. Plan

Proofs: every safety property that the runs check and that holds for all constants is proved. What may be
added is a condition on reports, as weak as the reset heuristics allow, under which late ones invent no
periods (`NoneInvented`).

Models: the switch to another database file; edits of custom prices with the order of the three
sources; notes and balances of configured credentials; the table of request origins.
