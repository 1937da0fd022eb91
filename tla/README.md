# Formal models of Gatekey

Gatekey is a self-hosted AI gateway: a FastAPI service over PostgreSQL (READ
COMMITTED) and an optional Redis, which authenticates a caller, applies the
organisation's policies, forwards the request to a model provider and charges
what it cost.  These TLA+ modules model the parts of it whose correctness
depends on the order in which concurrent requests, console users, background
jobs and client processes run their steps.  Paths below are under
`src/backend/src/gatekey/` unless they begin with `src/`.

## 1. The system

### How it runs

Every HTTP request has its own SQLAlchemy session.  A session keeps the ORM
objects it has loaded (`db/session.py`: `expire_on_commit=False`,
`autoflush=False`): a later `SELECT ... FOR UPDATE` of a row that the request
still holds returns that object unrefreshed, and a flush writes only the columns
the request changed.  A transaction ends with the request unless the handler
commits earlier; an error rolls it back.  The shipped deployment is one process
beside the database and, if configured, Redis; several processes may share both,
and each keeps policy, rule, schedule and route caches of its own.  A scheduler
task in every process does the periodic work.

### Components

| Component | State it keeps | Operations | Hard parts | What makes it correct |
|---|---|---|---|---|
| Gateway pipeline (`api/v1/gateway/`) | none of its own | schedule, rate limit, route, model policy, cache, residency, DLP, content rules, budget, degradation, dispatch with failover, charge, cache write, log | every check reads at a different time; the provider call lies between check and charge | no request escapes a check that was in force; what was served is charged once |
| Spend counters (`services/budget.py`) | spend columns of users, memberships, teams, organisation | check, charge, reset | requests in flight; two commits per charge | bounded overspend; the totals agree |
| Period boundaries (`services/team_periods.py`) | `current_period_started_at` | lazy crossing | concurrent crossings; stale ORM rows | each boundary once |
| Budget allocation (`services/team_budget.py`) | budgets, ceilings | set, reassign, approve, create, delete | headroom read before lock | allocation below the ceilings |
| Teams and memberships (`services/teams.py`, `join_requests.py`) | soft-deleted memberships, join requests | add, remove, restore, decide | concurrent decisions; lock order | one decision; no deadlock |
| Audit entries, hash chain, compliance settings (`services/audit.py`, `audit_chain.py`, `compliance_settings.py`) | `audit_entries`, one settings row | append, backfill, verify, purge | concurrent writers, enabling while writing | one unforked chain |
| Model policy, residency, content rules, DLP, response cache, degradation | rows, in-process caches, cache entries in the store | resolve, refresh, look up, clear | stale caches, write after clearing | what is served passed every policy |
| Provider keys (`services/provider_keys.py`, `provider_key_health.py`) | key rows, health records in the shared store | select, fail over, check, rotate | read and write of health in two calls | a dead key rests, a live one returns |
| Access schedules (`services/access_schedules.py`) | schedules, holidays, overrides, cache | evaluate, set, grant | layers, zones, writers that overlap | nobody gets in outside a committed window |
| Rate limits (`services/rate_limit.py`) | counters in the shared store, rules, rule cache | consume, charge tokens, queue | shared pools, windows, rule changes while waiting | bounded bursts; a waiting request is answered |
| Model catalog (`services/custom_models.py`, `self_hosted_providers.py`) | two tables, route caches, cooldowns | register, edit, test, remove, resolve, fall back | a lock on a third table; tests against edits | one owner per name; what is routable was tested |
| Drift detector (`services/drift_detector.py`) | runs, baselines, alerts | sweep, switch off, export | sweeps of several processes | a baseline stands on its runs |
| Keys, sessions, CLI credentials (`services/personal_keys.py`, `auth_device.py`, `scim.py`) and `src/cli-sync` | hashed secrets, device codes in memory, keychain and cache file | mint, replace, revoke, log in, fetch, deactivate | cap counted before insert; cascade racing with minting | deactivation cuts off; one delivery |
| Scheduler, rotation, shadow AI (`services/scheduler.py`, `rotation.py`, `service_accounts.py`, `shadow_ai.py`) | policies, two secrets per key, events, configuration | claim, rotate, purge, ingest, alert | two processes, crash between steps | each due date once; superseded secrets die |
| Metering (`services/usage_logs.py`, `notifiers.py`, `providers/`) | usage rows, alert switches | stream, charge, log, alert, report | broken streams, clients that leave | rows agree with charges; alerts once |

Interactions: a handler calls services in process; services share rows of the
database and meet in its row locks; gateway and scheduler share key health and
rate counters through the shared store; the in-process caches are refreshed by
the handler that changed a row, after its commit, in its own process only.

`PROJECT.json` lists every component with what is modelled of it, and every
hazard at its line with the properties that cover it.

## 2. The modules

| Module | Models | Run |
|---|---|---|
| `BudgetLedger` | counters, cutoff, charge, period boundary, removal and restore, organisation reset | `ledger_gateway`, `ledger_console` |
| `AuditChain` | audit entries, hash chain, settings, purge | `chain_ledger` |
| `BudgetAllocation` | member budgets, team and organisation ceilings, join requests, teams | `alloc_ceilings` |
| `PolicyGate` | abstract: what the gateway promises about policy | |
| `GatewayPolicy` | the policy pipeline, response cache, policy writes, self-heal; implements `PolicyGate` | `policy_pipeline` |
| `KeyFailover` | provider keys, their health, failover, the health sweep | `failover_health` |
| `AccessSchedule` | schedules, holidays, overrides and their cache | `schedule_windows` |
| `RateLimit` | rules, counters, waiting requests | `rate_limits` |
| `Credentials`, `CliSync` | one account's credentials; `gatekey-sync` composed with it | `cli_credentials` |
| `ShadowAi`, `Scheduler` | shadow AI; the loops and key rotation composed with it | `scheduler_loops` |
| `ModelCatalog`, `Canary` | the catalog and its routes; the drift detector composed with it | `catalog_routes` |
| `ProviderStream`, `Metering`, `UsageReport` | what adapters make of a stream (operators only); from answer to books; the dashboard | `metering_books` |
| `<module>Proofs`, `Sums` | theorems and facts about sums (section 3); `BudgetRateProofs` is about `BudgetLedger` and `RateLimit`, `AuditAccountProofs` about `AuditChain` and `CliSync`, `SchedulerProofs` also about `AccessSchedule`, `ModelCatalogProofs` also about `Canary`, `FailoverMeteringProofs` about `KeyFailover`, `Metering` and `UsageReport` | |
| `MC<module>` + `<module>_<run>.cfg` | the instances TLC checks | |

A definition ending in `_<Something>` and marked *Faulty* is a plausible bug of
the definition before the underscore.  It is used nowhere; putting it in that
definition's place must make TLC report the property `PROJECT.json` names, which
shows that the property depends on the code.

Two conventions.  Counters of calls, writes, faults and ticks (`Max...`) are
bounds and stand in guards.  History variables record what a property has to
excuse or compare with; nothing in the code's steps reads them.  Deadlock is
checked in the two ledger runs, where a reset is always possible; the other
instances end when their bounds are used up.

### BudgetLedger

A *slot* is a request in flight.  `Arrive`, `CheckResponseCache`,
`CheckOrgBudget`, `ReadCounter`, `CheckPeriod`, `EnsureCurrentPeriod`,
`RereadCounter` are the statements of `check_budget_available` in their order,
each an atomic step because between two of them any other request may commit;
`ProviderAnswers`/`ProviderFails` stand for the provider; `RecordUsageCharge`
and `RecordOrgUsageCharge` are the two transactions of a charge.  A request
holds in `req[s]` what it has read.  `view[v]` is a console GET that holds the
ORM team row across the lock.  `RemoveTeamMember`, `RestoreTeamMember`,
`ReadOrgSpend` and `ResetOrgSpend` are the other writers.  `Abort` is a crash or
cancellation at any point.  Money is an integer, time a month.  `booked`,
`alerts`, `late` are history: what the organisation's total ought to be, the
100% alerts since the boundary, whether a request came in after its member had
been removed.

`ledger_gateway` (two slots, a metered and an unmetered member, a flat user,
three requests of cost 0..2, two boundaries) checks both cutoffs, that team
aggregate and organisation total add up, one alert per period, one application
of each boundary, and that nobody is admitted in an ended period.
`ledger_console` adds a console reader, a removable and a cached member; with a
reader the aggregate may be written twice (section 4), so it checks the member
cutoff in its inductive form and that removal cuts off a member without a cached
answer.  Two slots are what it takes for two requests to pass on one balance and
for one to wait for the other's boundary; budgets of 1 and 2 with costs up to 2
reach exactly-spent and overspent counters.

### AuditChain

A row has a place: unused, pending in a transaction, committed, gone.
`WriteAuditEntry` is the unlocked read of the flag and, with the chain off, the
insert; `AppendToChain` is the locked half.  `EnableChain`, `ReplaceSettings`
and `BackfillFails` are `_apply_compliance_settings`; `DecidePurge` and
`PurgeRows` the two halves of the purge job.  A hash is modelled by the history
it was computed from (a function from entries to positions), so two hashes are
equal exactly if the histories are.  `gap` is history: the purge removed a
chained row since the last backfill.  `chain_ledger` checks that the ledger
verifies and that a backfill leaves no hole.  Four entries give a chain with two
entries before and two after a backfill; two writers and one settings request
give every pair of lock holders.

### BudgetAllocation

A *call* is a console request that writes memberships, budgets, ceilings or join
requests, or a touch of a team whose period ended (`TouchTeam`).  `pc` says what
it waits for next.  Most calls arrive (`AddMember`, `UpdateMember`,
`ApproveJoinRequest`, `ReassignBudget`, `SetTeamCeiling`, `SetOrgCeiling`,
`CreateTeam`, `DeleteTeam`) and write their audit entry first
(`WriteAuditEntry`), which with the hash chain on (`chain`) locks the settings
row until the commit; then they take the organisation's row (`LockOrg`,
`CheckOrg`) and the team's (`LockTeam` in `CheckAdd` ... `CheckCeiling`,
`LockOnly`), check under it, and lock the rows they write (`WriteRows`).  Removing,
restoring, submitting and rejecting (`RowFirst`) do it the other way round: the
guarded statement on a row of their own (`LockActiveMember`, `LockRemovedMember`,
`InsertJoinRequest`, `LockPendingRequest`), then the audit entry.  `HasAudit` ...
`HasRequest` say which locks a call has at each `pc` and `WaitsFor` which call
waits for which.  `Commit` publishes what was flushed and releases the locks,
`Abort` is any failure, the database's own deadlock victim included.  Rows loaded
before a lock stay as they were (`seen`, `seenTo`), because the session returns
them unrefreshed; what the code reads afresh under the lock is read afresh.  A
rollover goes beyond the ceiling on purpose.  A team without a row has the ceiling
`Absent`.  `over` is history: the dollars that restores, rollovers and
reassignments from outdated budgets brought past the check.

`alloc_ceilings` (three calls, all three at once if they like, two teams of which
one has the memberships, one join request, the organisation's ceiling 3, amounts
1 and 3, every operation, the chain on or off) checks that members hold no more
than the team's ceiling and `over` and that the team ceilings stay within the
organisation's, that a decision on a join request is final, and which circles of
waits there can be (`NoCircularWait`): the single one the code's orders allow, a
row-first call waiting for the settings row while somebody waits for its row
(section 4), and no other.  That one takes three calls: a submitted request, and
an approval and a rejection of it at once.  Amounts 1 and 3 under a ceiling of 3
fill the team exactly or exceed it.  No fairness is assumed.

### PolicyGate and GatewayPolicy

`PolicyGate` is the promise.  A question is a prompt and the model it names.  A
prompt is sent to a model only when each of the five checks (model policy,
residency, detectors, custom patterns, content rules) let that model have that
prompt at some moment *of this request*; a remembered answer was given by the
model that was asked, and is recalled only for a caller whose model policy let
it through.  Policies change at any moment (`Change`) and answers may be
forgotten (`Forget`).

`GatewayPolicy` is the code.  A request's step ends where the handler awaits
(the event loop may run any other task there), so a policy can change between
any two steps.  `CheckModelPolicy`, `ServeHit`/`Miss`, `CheckResidency`,
`LoadDlpPolicy`, `RunDlpScan`, `CheckContent`, `KeepModel`/`Degrade`,
`Recheck`/`RecheckResidency`, `Dispatch`, `ProviderAnswers`/`NextCandidate`,
`WriteResponseCache`/`ReturnAnswer` follow the order of
`create_chat_completion` and `dispatch_with_model_fallback`.  `Refuse` is any
denial, limit, error or disconnect, at any moment.

Policies are rows; all but the DLP ones are enforced from in-process caches that
the PUT refreshes after its commit (`CommitPolicy`, `RefreshCache`), after which
residency and DLP changes clear the response cache key by key (`ScanEntries`,
`DeleteEntry`) over a store whose calls may fail (`ScanFails`, `DeleteFails`).
A new custom pattern clears before its commit, as the code does (`Early`).
The DLP rows are read from the database in two steps, the policy before the
override and the patterns.  What a PUT may write is `Valid` (`WithinOrg`,
`WithinTeam`, `NarrowsZones`, `MayDowngradeTo`).  A start that could not reach
the database leaves the model layers permissive and starts
`_model_policy_self_heal` (`HealRead`, `HealOrg`, `HealOverlay`, `HealGiveUp`).

Data.  A model layer is the set of models it lets through, a residency rule the
set of zones (all of them if it only warns), the content rules the set of models
that may see classified content (all if no category is enabled); a DLP action is
one of four.  A prompt is sensitive or not.  Zones and fallback chains do not
change.  Streaming is an answer that is not kept.  The team's and the
organisation's degradation policies are one downgrade target, the team's and the
organisation's caching settings one switch.

`policy_pipeline` checks `EntryFresh`, no entry outlives a tightening once the
PUT is through, but for the three excuses it lists; `EnforcedAsCommitted`, after
start, heal and PUTs what is enforced is what is committed (the overlays aside,
section 4); and `GateSpec`, the refinement.  The mapping (`Gate`) takes the
permitted questions from the rows and caches, the approvals from `passed`, the
recipient from `serving`.  One request at a time, two in all: a second one is
needed to hit what the first left, and everything a request does beside another
one (write an entry, never a policy) can also happen before it.  One
administrator with two writes; two PUTs of one policy at once are left out, as
the docstring of `ModelPolicyCache.set` leaves them out.  One custom model with
one fallback in another zone, one prompt that every detector finds.  The written
values are one tightening and, where a later step depends on it, one loosening
per policy.

### KeyFailover

A request reads the primary key and the switches (`ReadPrimary`), then the
health records (`SelectProviderKey`), calls, and records the outcome: a failure
is a read (`CallFails`) and a write (`RecordFailure`) of the shared store, a
success one write.  One retry on the backup named when the primary was read
follows, and its event (`WriteEvent`) refers to both keys.  The sweep
(`StartSweep`, `CheckPasses`, `CheckFails`, `RecordCheck`) loads every key of a
backup group with its credential and validates one after another;
`CheckFromConsole` is the same for one key.  `PutProviderKey`/`Upsert`,
`RotateProviderKey`/`FinishRotation`, `SetFailoverConfig`, groups, deletions and
the team's opt-out are the console; what a check reads before the provider's
answer may be gone when it writes.  `outage` is the set of keys whose provider
fails, `fails` history: the failures each key had at each time.

`failover_health` (three key ids, one request slot, two administrators,
`DownThreshold` 2, a window of one tick, one fault of the store) starts with no
key and three writes, or with a primary and its backup, of which each counts as
a write, and one more.  So two puts race to be the first key and the unique
index refuses the later insert (`SecondPrimary`), and targets, groups and
deletions interleave on what they made.  It checks that keys stay consistent,
that "down" was earned inside one window, and, under fairness, that a key whose
provider is well again is found so.  Fairness: weak
for `StartSweep` and `CheckStep`, because the scheduler polls as long as the
process runs and every check has a timeout.  None for requests: a key that is
down gets none.

### AccessSchedule

A call is decided from the cache (`CheckAccessSchedule`: every enabled layer,
the holidays, the zone); one that is denied asks the database for an override
(`GetActiveOverride`).  An administrator's request reads and validates
(`PutOrgSchedule`, `PutTeamSchedule`, `PutAccountSchedule`, `AddHoliday`,
`DeleteSchedule`, `DeleteHoliday`), commits (`Commit`) and sets the cache
(`SetCache`); others run in between.  `SetZone` writes the row only, `Restart`
warms the cache or fails to.  Hours count from 0, and a window that ends before
it starts wraps around midnight.  `excused` is history: slots whose writers
overlapped or whose cache was never warmed.

`schedule_windows` (one account of one team, two dates of three hours, windows
all day, morning, overnight and off, two zones, two administrators with two
writes, one override, one restart) checks that the cache ends as committed and
that no call is admitted, without an override, at a time any committed layer
forbids.  Safety only, no fairness.

### RateLimit

`CheckRateLimit` resolves the rules from this process's cache into a list of
limits; `PassLimit` and `TripLimit` are one atomic call to the store each;
`Poll` starts the list again for a request that may queue, with the rules there
are by then; `Answer` and `RecordTokenUsage` charge the tokens.  `InsertRule`,
`UpdateRule`, `DeleteRule` commit, `RefreshCache` follows.  A store that raises
makes a check pass over that limit and ends a token charge (`StoreFails`); a
restart reloads the rules or fails to and, with the in-process store, loses the
counters.

`rate_limits` (two users of one team, two requests, a rule of two requests that
queues and one of one token, a window of two ticks, one write, one fault) checks
that any stretch of a window's length lets pass fewer than two windows' worth,
and that a waiting request is let through or refused.  Fairness: weak for each
request's own steps, which the event loop runs; the deadline is its own.

### Credentials and CliSync

One account.  A call authenticates, reads, and commits, with others in between:
keys are created by the owner or a lead (`LockMembership`, `MintKey`), replaced
and revoked; sessions are created and ended; a device login is approved in three
steps (`MintKey`, `MintCredential`, `AttachCredential`), the last in the memory
of the server; a deactivation flags the account, sweeps table after table and
commits once (`FlagInactive`, `SweepKeys`, `SweepSessions`, `CommitInactive`);
groups add and remove memberships.  `CliSync` composes this with the processes
of one machine that share a keychain entry and a cache file: `Login`, `Poll`,
`Exec`, `SendFetch`, `AnswerFetch`, `WriteCache`, the wrapped command's end, and
one retry.

`cli_credentials` (two teams, a cap of two keys, two calls and two processes,
three of either in all, one crash of the server) checks how far the soft cap can
be passed, what outlives a deactivation, that a refresh credential is delivered
once, and that commands end.  Fairness: weak for the client's own steps, since
its loops are bounded by a deadline; none for the server's calls or the user.

### ShadowAi and Scheduler

Each process runs the loop: `BeginRotations` reads a batch of due policies,
`Claim` is the guarded UPDATE, `RotateClaimed` the rotation, `PurgeLogs` and
`PurgeEvents` the purges; `JobFails` and `Crash` may come at any step.  Console
calls rotate, regenerate, revoke, and edit policies and retention meanwhile.
`ShadowAi` is the configuration with its two-step PUT (`PutConfig`,
`WriteConfig`), the hosts, the ingest and the alert delivered after the answer.
`ends` is history: when each superseded secret has to stop working.

`scheduler_loops` (two keys, two processes, days of two ticks and four ticks in
all, overlaps 1 and 2, two commands, one fault, one policy per batch) checks
that a claim honours the policy as it stands, that superseded secrets die, that
alerts run under a confirmed mode, and that the loops catch up again and again.
Fairness: weak for each loop's steps, which run as long as the process does; a
crashed process is started again.

### ModelCatalog and Canary

A handler copies its row (`RegisterCustomModel` ... `ReverifySelfHosted`), takes
the lock on the organisation's settings row and checks the other rows' names
(`LockNames`), commits the columns that differ from its copy
(`CommitCustomRegistration` ... `CommitRemoval`, `CustomTestEnds`,
`HostedTestEnds`), loads its table and puts the snapshot in its process's cache
(`LoadSnapshot`, `SetAll`).  A test has a second commit in between, that of its
audit entry (`AuditTest`).  The database may end a request at any of its awaits
(`RequestBreaks`): before the commit the transaction is undone, after it the
process goes on routing from its old cache.  `NameTaken` is the unique
constraint of custom models; hosted names have the lock alone.  A call resolves
names in the cache of its process and walks the fallback chain when its provider
fails (`Dispatch`, `TryCandidate`, `CandidateAnswers`).  `Canary` adds the daily sweep of each
process, one transaction per model with the provider calls inside it.
`tested`, `crossed` and `untold` are history; `untold` is the processes whose
cache is excused, because another process wrote since, an overtaken handler of
their own published last, one of their own ended between its commit and its
publication, or they started cold.  A publication of what the tables say ends
the excuse.

`catalog_routes` (two custom models, one self-hosted provider, two free names
and one of the registry, two handlers, a second process that sweeps, three
requests or sweeps in all) checks that names stay disjoint, that a verified
target answered its last test, that a process routes what the tables say once
its handlers are done, and that baselines stand on committed runs.  Three
operations are the least for a register, a test and an edit of one row to
overlap with another handler's.  Safety only.

### ProviderStream, Metering and UsageReport

`ProviderStream` says what each of the five streaming adapters and the
non-streaming calls make of an upstream answer that may be cut, report an error
in-band or simply end.  `Metering` takes an admitted call of one of three
endpoints through the answer (`Answer`, or `OpenStream`, `AwaitFirst`, `Pull`,
`Relay`, `EndStream`), the two charges, the row, the degradation event and, once
the answer is on the wire, the alerts (`LoadAlerts`, `SendAlert`).  The client
may leave at any moment (`ClientLeaves`, `Abandon`), commits fail, the process
crashes, the catalogue and the alert switches are edited.  `UsageReport` is the
sum over the rows.  A cost may be zero (`pricing.py:171-197` gives every Ollama
model of the registry that price): both charges are committed all the same, so
what tells an answer that was charged from one that was not is `taken`, the
levels whose charge of the call is committed (history), and never the amount.

`metering_books` (two calls, a model for each adapter and an embedder, costs 0
to 2, team ceiling 3, organisation 4, one edit, any number of crashes) checks
that a row costs what both counters took, that reported usage is charged, that
`[DONE]` means complete but for two endings the gateway cannot tell, that a
threshold is crossed once and every enabled channel tried, and that the
dashboard never shows more than the counters took.  Two calls are what it takes
for two charges to straddle a threshold.  Safety only.

## 3. What is proved

The proofs hold for every value of the constants that the modules' named
assumptions allow: any number of requests, administrators, members, keys, rows
and steps.  The bounds of the instances (`Max...`) are arbitrary naturals there.

`Sums` has the facts about sums over finite sets that the proofs on counters
cite: the sum is the one number that the recursion over the elements gives, it
changes by what one element changes, and it grows with the set and with the
function.  The library defines it by a choice among functions on the subsets
that satisfy the recursion; that there is one and only one follows by taking a
smallest subset for which it fails, which finite sets allow, and needs no
induction rule.

### Budgets

`BudgetRateProofs`: `MemberCutoff` and `OrgCutoff`, the bounded overspend.  The
bound alone is not inductive, because a step knows nothing of the requests that
have passed the check and are not charged yet.  `MemberReserveKept` and
`OrgReserveKept` set one dearest request aside for each of them; the cardinality
of that set moves by at most one per step.

`OrgBooksBalance` and `BooksBalance` say that the counters add up.  The
organisation's half holds without conditions: its total is what was charged less
what the charges between their two commits still owe it.  The team's half
(`TeamBooks`), and `OneAlertPerPeriod` with it, is proved where nobody reads the
console across a boundary (`Viewers = {}`) and nobody is removed
(`Removable = {}`): with either, the aggregate does drift in the code
(section 4), so the hypotheses are those of `ledger_gateway`, which checks them.
`BoundaryOnce` and `AdmittedOnTime` need only the first hypothesis.  `Abreast` is
what makes the second inductive: the start of the period that a request has read
is never ahead of the team's, and after its own crossing the period contains its
clock.  `RemovalIsImmediate` is proved for members without a cached answer
(section 4 again); `HeldBack` says that a request which came in after the removal
has not got past the counter.

`BudgetAllocationProofs`: `DecisionsAreFinal` and `WaitsEnd`, from
`AllocationInvariant`.  That invariant says what a call has for its operation and
place (`Shaped`), that a call which has its row of a join request finds it as its
guard did (`Linked`), and that two calls never hold one lock, the audit settings,
the organisation's, a team's, a membership's or a request's (`OneHolder`).  A
decision is then final because whoever could take a second one waits for the
first.  For the waits, the places have ranks: settings row before organisation
before team before rows before commit, and a row-first call's own row before all
of them.  Whoever waits, waits for a call of a higher rank, except a row-first
call that waits for the settings row; so a circle has one of these, and with
somebody waiting for it, which is what the theorem says.
`BudgetsFit`, members within their team's ceiling and ceilings within the
organisation's, adds `Fit`: what a call found to fit when it checked fits still,
because nothing that enters the sum grows without the lock the call holds, and
what grows all the same is counted in `over`.  It assumes that the organisation's
row exists (`InitialOrg.exists`);
without it `set_team_budget_ceiling` locks nothing there and the second half
fails (section 4).  The initial books must fit as well, which the theorem states
of the initial state.

### Rate limits

`BudgetRateProofs` also has `BurstsStayBounded`, for any window, rules, users and
number of calls, from `LimitInvariant`.  The bound is not inductive: whether the
next request may pass depends on the counter, and the counter knows nothing of
the window before its own.  `Accounts` says what it does know.  Of what passed
since t, for a stretch that has not ended: if t lies within the counter's window,
all of it is in the counter, and the first request of that window besides; if t
is earlier, at most one window's limit is missing, and one more for each restart
that may have lost a counter.  A stretch that has ended does not change.  The
largest limit is that of the rules the scope may ever have, so that a change of
rule does not disturb the accounts, and each store call of a request is shown to
be within its scope's (`CallOk`).  The scopes that share a counter are those that
share a meter, which is where the key of a pool matters.

### Audit entries and credentials

`AuditAccountProofs` holds both parts.  Audit: `AuditTypes` and
`ChainStaysIntact`.  The strengthening says that a pending chained entry belongs
to the holder of the settings row's lock and continues the ledger's chain, and
that stamps are distinct, so that the backfill's ranks order the entries as
their stamps do.  `BackfillIsComplete` needs that these ranks are all numbers
from 1 to the size of the ledger (`RanksCover`: an injection into a set of the
same size).

Credentials: `KeyCapHolds`, `DeactivationHolds` and `DeliveredOnce`, for any
number of calls, teams, rows and client processes, from `AccountInvariant`, which
has a part for each.

- `Counted`: a membership's lock that is taken is a key to come.  Live keys and
  taken locks together stay within the cap and one per further team.  A call
  takes its lock only with fewer live keys than the cap; then the locks, at most
  one per team, make up the rest.
- `CutOff`: a deactivation that has swept a table has left there only rows
  minted late and none of those it began with (`Swept`); once it has committed,
  whoever may still mint has authenticated before it or is a lead (`Excused`).
  A row minted between a sweep and the commit is the reason why the property
  alone is not inductive.
- `Offered`: a refresh credential that was committed and not handed out waits in
  one approving call or in one record of the device store, and nowhere else.

### The policy pipeline

`GatewayPolicyProofs`: `PipelineKeepsGate`, the refinement.  `Types` adds to
`TypeOK` what makes it inductive (a PUT's value is of its policy's kind, a team
override is never set to "unset").  `AllGated` says, for each place a request can
be at, which checks have let which models through: nothing but the asked model
until the scan, the detectors and patterns for every model after it, and all five
checks for the serving model from `dispatch` on.  The delicate place is the scan,
which mixes a policy read one step earlier with an override read now.
`Scanning` says why that is enough: either the detectors let the prompt pass when
the policy was read, or the policy read was "block", or an override stood, which
is never removed and decides alone.  Each step of a request is then `Ask`,
`Approve`, `Send`, `TakeBack` or one of the endings of `PolicyGate`; a step of an
administrator or of the heal is `Change` or `Forget`.

`HealYields`: what is enforced is what was committed.  A cache differs from its
row only while the PUT that committed the row has still to refresh it
(`Settled`).  Between the heal's read and its write this is kept by the
generation: while it stands, the row is still what was read or a PUT that changed
it is about to refresh (`OrgSettled`).

`EntriesStayFresh`: no stale answer outlives the change that made it so.  `Fresh`
accounts for each rule to the PUT that changed it.  What the rule no longer lets
through is an entry on the list of that PUT, or the list is still to be made
(`Sound`); a request that has the check behind it is still to be marked when the
list is made, or had passed the rule as it stands (`Sure`).  Two places need more
than this.  A request decided the detectors with a policy read one step earlier
and an override read now, so `Sure` keeps them apart (`Loaded`, `Detected`).  And
that a request past the residency check has passed it for its own model, by which
`Overtaken` finds it, is `AllGated` of the refinement.

### Keys, windows, rotations

`FailoverMeteringProofs`: `KeysStayConsistent`.  One primary and live targets are kept
by every write on its own, since the unique index refuses a second primary at
the moment of the insert and a deletion clears the targets that name the key;
only the claim to be first, read before the provider validated the key, has to
be carried along.  `DownKeysEarnedIt` relates the shared health record to the
history of failures: a stored count is at most the failures seen in the window
that began with it (`Earned`), and the same is true of what a caller between its
read and its write is about to store, its own failure included (`Due`).  The
history of a key may be reset by a success only while no such caller is at work;
this is in the history variable's definition, and what makes the property say
something of interleaved callers.

`SchedulerProofs`: `SupersededSecretsDie`, `ClaimsHonourPolicy` and
`AlertsWereConfirmed`, from `SchedulerInvariant`.  `SecretsKnown` says whose each
secret is and that the row's end of the previous secret is the recorded one.
`Steady` says of a date a loop has read, however long ago, that the row's date is
this one or a later one, since a date that is set lies ahead of the clock: so the
guarded UPDATE, which looks at the date alone, finds the row as it was due.
`Confirmations` says that a mode some PUT in flight carries has been confirmed.

The same module has the access windows: `CacheFollows` and `WindowsHold`, from
`CacheInvariant`.  `Following` says of every slot that is not excused that at most
one writer has committed and not yet set the cache, and that it brings the row's
value; `ZoneFollows` says the same of the zone.  A call decided from such a cache
is decided as the rows say, layer by layer.

### The catalog

`ModelCatalogProofs`: `NamesStayDisjoint`, and the same beside the drift
detector.  The invariant (`Guarded`) is that a commit which brings names holds
the lock and that what its check found free is free still: no other handler can
claim names without the lock, and edits of a target, test verdicts and removals
claim none.  For two custom models the unique constraint does the rest.
`VerifiedRowsWereTested`: a handler that leaves the flag set keeps the target it
copied (`VerifiedAsCopied`).  `CachesFollowCommits`: the cache of a process that is
not excused is what the tables say, or one of its handlers has still to audit,
load or publish (`Followed`).  `BaselinesStand`: what a sweep has counted before it writes a
baseline can only grow (`DriftInv`).

### From the answer to the books

`FailoverMeteringProofs` has all five properties of `metering_books`, for any
calls, models, providers, fallback chains and ceilings, from `MeterInvariant`.
They are about three commits (the team's charge, the organisation's, the row)
with a crash, a failure or an abandoned generator between any two, and none of
them is inductive.

- `CallInv`, of one call: which levels it has charged at each step, and how much
  (`Money`); that usage
  reported by the provider is captured or on a chunk still to be relayed, and
  that a stream which ended by itself either got its finish frame or broke in
  one of the two ways the gateway cannot see (`Streamed`); that a round of alerts
  owes what it tried and what it plans (`Alerting`).  `DoneMeansComplete` and
  `NoFreeAnswer` follow.
- `RowsInv`: a call with a row charges nothing more, so that the row stays true.
- `SpendInv`: the counters and the dashboard's total are sums over the calls:
  what each charged the team, the organisation, and what each charged the
  organisation if it has a row marked ok.  `SummaryWithinBooks` compares these
  sums term by term.
- `CrossInv`: a threshold crossed is the mark of one call, the counter is past
  it, and if it has been on all the time and the counter is past it, some call
  bears the mark.  A charge adds its cost and crosses only what lies above
  the old total and not above the new one (`Crossing`), hence nothing twice, and
  nothing at all if the cost is zero.

Most steps charge nothing (`Quiet`); for these one lemma carries the invariant
of the books over (`QuietKeepsBooks`), and each action needs only its own
call's.  The proof needs that the ceilings and costs are numbers and the calls
finitely many (`MeterAssumption`).  It found that three CASE expressions of the
model had guards that overlap, which TLC decides by their order and TLA+ leaves
open; they are disjoint now, in the order of the code's conditions.

### Only model-checked

Every safety property and action property that a run checks is stated by a
theorem, those of the ledger's aggregates and `BudgetsFit` under the hypotheses
named above.  Out of the prover's reach are the four liveness properties
(`DownKeyRecovers`, `QueuedIsAnswered`, `CommandsEnd`, `LoopKeepsUp`), because
fairness is stated with ENABLED.

## 4. Known divergences

Where the code does something its documentation, a comment or its own error
messages say otherwise of, or something a maintainer may not expect.  They were
met while modelling and are in the models as the code has them, excused in the
properties by history variables; where a row says "not modelled", the model
leaves the case out.

### Budgets, teams, audit

| Code | Says otherwise |
|---|---|
| `team_periods.py:150`: a console GET that holds the team row across the lock applies a period boundary twice (`ledger_console` therefore leaves the aggregate out) | `team_periods.py:129-130` |
| `team_periods.py:180-192`: a removed member's frozen spend is subtracted from the team's again at every boundary | the phase-2 design, lines 752-754 |
| `common.py:1220`: a request that waited for a boundary is refused on the ended period's spend | its docstring, 1165-1168 |
| `chat.py:625`: a removed member is still answered from the response cache | `services/teams.py:229-231` |
| `audit.py:272`: a writer that read the flag before the chain was enabled commits an unchained entry after it | `phase-5-technical-design.md:133-141` |
| `scheduler.py:355-364`: a purge decided before the chain was enabled removes chained rows | the exclusion of chain and finite retention |
| `compliance_settings.py:152-155`: the backfill of a chain switched on again can collide with numbers left from the first time | the unique index it relies on |
| `team_budget.py:304-308, 365`: a reassignment from rows loaded before the lock changes the team's total | `team_budget.py:4-6` |
| `teams.py:281`: a restore brings its budget back without a look at the ceiling | `team_budget.py:4-6` |
| `teams.py:533-535`: a member budget PUT with the value loaded before the lock writes nothing, though it is audited and answered as done | the response |
| `team_budget.py:385-386`: with no settings row nothing is locked, and team ceilings may pass a new organisation ceiling (`alloc_ceilings` starts with the row) | `team_budget.py:4-6` |
| `team_budget.py:147-148`: adding an active member is answered `member_previously_removed` | the error's name |
| `services/teams.py:114-136`: a member added while the team is being deleted loses the membership by the cascade | `team_has_members` |
| `teams.py:573-588, 602-618, 1175-1193`, `onboarding.py:75-92`: remove, restore, reject and submit write their row before the audit entry; with the chain on a rejection can wait for the settings row of an approval that waits for its join request, until the database breaks the deadlock (`NoCircularWait` allows this circle and no other) | "globally consistent lock order", `test_lock_ordering_deadlock_regression.py:37-41` |
| the period settings PATCH (`teams.py:381-404`) and the removal of a SCIM group member (`scim.py:788-793`) also write a row before the audit entry (not modelled) | the same |

### Policies

| Code | Says otherwise |
|---|---|
| `main.py:478, 559`: the overlay warm-up of a heal replaces what a team's PUT set meanwhile | `main.py:474`, "no CAS needed" |
| `main.py:482-485`: a heal superseded by a PUT leaves the overlays unloaded | its purpose |
| `common.py:1703`: an answer written after the clearing is served from then on | `common.py:1612-1613` (AC4.3.6) |
| content rules are not among the changes that clear the response cache | `common.py:1612-1613` |
| `dlp.py:902`: a custom pattern clears the cache before it commits; an answer kept in between is served after | `dlp.py:887`, "never a stale-serve" |

### Keys, schedules, limits

- `provider_keys.py`: `rotate_provider_key` updates without a filter on
  `is_primary`, and fails on a provider with several keys; a PUT of a key takes
  it out of its backup group.
- `provider_keys.py:429`: a deleted primary leaves a provider with keys and none
  primary, whose calls are answered "not configured" (against the docstring,
  `provider_key_health.py:311-312`, "if no key at all is configured").
- The failover event's foreign keys fail a request its backup answered, if a
  key is deleted meanwhile.
- Health windows are `time.monotonic()` values in a shared store: not
  comparable across hosts (one clock in the model); a store hiccup during a
  check counts as the provider's failure.
- `set_timezone_name` has no caller: a new time zone counts from the next start.
- Two active overrides make `get_active_override` raise; concurrent revokes
  overwrite `revoked_by` (revocation is one step in the model).
- A failed schedule warm-up leaves the cache empty, which lets every call
  through until the next write or restart.
- Writers of one schedule that overlap may leave the cache behind the row; a
  late holiday delete drops a date that was added again.
- `_hours_subset` does not see that an overnight window wraps (the gateway's
  check does).
- A fixed window lets pass almost twice the limit around its end (against
  `rate_limit.py:7-10`).
- A queued request consumes the team's pool again on each poll that its
  personal limit refuses.
- A rule deleted and inserted again at once may stay out of the cache.
- `RateLimiter`, `RateLimitQueueProcessor`, `load_effective_rate_limit_rules`,
  `set_primary`, `get_cost_savings` have no caller.

### Credentials and the CLI

- The soft cap on personal keys can be passed by one key per further team.
- A lead can mint a key for a deactivated account, and the gateway accepts it.
- Rows minted by calls that authenticated before the cascade survive it;
  surviving sessions work again after a reactivation (`DeactivationCutsOff`
  says exactly what may survive).
- `approve` commits key and credential before the device store hears of it: a
  live credential nobody gets, which `is_pending`'s comment says is avoided.
  The device store is per process.
- Every current-key call invalidates the secret other machines and processes
  have cached; a 401 clears whatever keychain entry there is by then; a
  personal key revoked without its CLI credential is answered 409 and the
  client keeps the dead login.
- A SCIM POST creates a second row for an account that first signed in by SSO,
  and the SSO backfill has no guard (not modelled).

### Scheduler, rotation, shadow AI

- A second rotation within the overlap drops the earlier secret before the time
  that was announced (`_rotation_human_summary`).
- `scheduler.py:281`: a crash or failure between claim and rotation loses that
  rotation until the next date.
- The organisation's default policy never reaches existing keys; a policy
  edited on a revoked key keeps being claimed; the plaintext of an automatic
  rotation can be fetched by nobody (documented).
- The "old" prefix in the audit entry of `rotate_key_now` is read from the
  already updated row (not modelled).
- `shadow_ai.py:255`: a PUT judged on a stale mode enters an intrusive mode again
  without a fresh confirmation (`AlertsAreConfirmed` asks for one confirmation of
  the mode at any time, not since it was last left).

### Catalog and drift detector

- An edit of the target that commits during a live test, or a test that commits
  between an edit's read and its commit, leaves an untested target verified and
  routable, because the ORM writes only changed columns (against the docstring
  of the self-hosted edit, AC5.5.3, and "must be re-verified" in
  `custom_models.py`; `crossed` excuses it).
- A hosted call reads the row's present URL, so a stale route reaches an
  edited, untested endpoint.
- Other processes are never told of a catalog write, overlapping publishers may
  leave an older snapshot, and a failed warm-up leaves the caches empty
  (`untold` excuses all three).
- A handler that fails after its commit (the refresh of the row; for a test the
  audit entry and the second commit, `custom_models.py:422-450` and
  `self_hosted_providers.py:234-244`; the SELECT of the snapshot, 92-95) never
  reloads: its process keeps routing a row that failed its test, was retargeted
  or removed, until another write or a restart, with no other writer involved.
  `custom_models.py:407-411` (under `api/v1/admin`) says "immediately" and "the
  moment this commits".  `untold` excuses it as well: `CacheAsCommitted` is about
  the handlers that reach `set_all` in order.
- A primary that is not configured (404) never tries its fallback chain; the
  chain is read when the first provider has failed.
- A test without a credential starts the cooldown too, and the cooldown is per
  process.
- Custom models are never canaried; with k processes the suite runs k times a
  day; a baseline never follows a changed endpoint; models beyond the first 50
  in the alphabet are never tested; an unexpected error ends the sweep until
  the next day; alerts repeat every day; the sweep blocks the scheduler's tick.

### Metering

- An in-band error in an OpenAI-shaped stream, or an upstream that closes
  early, still ends with `[DONE]` (against the comment in `chat.py`); Anthropic
  `error` events are ignored.
- A client that leaves right after the finish chunk is never charged; an
  abandoned generator leaves no row and may still charge.
- A custom or self-hosted model removed during a call: the provider is paid,
  nothing is charged.
- A crash or failure between the two commits leaves the team charged and the
  organisation not; a failed insert loses the row; alerts of a request that
  later raises are lost.
- `log_degradation_event` catches its error without a rollback; the dashboard's
  panels are separate snapshots; an Idempotency-Key is only logged, so a retry
  is charged again.

## 5. Not modelled

- Encryption (a wrapper of a library), the web console (a client of the HTTP
  API), migrations and deployment (the constraints the models need are read
  from them), schemas and wiring.
- Arithmetic and formats: prices, detection of sensitive content, latency and
  similarity of canary answers, calendar and clock changes, translation of
  requests to a provider's form, listings, filters and exports.  No order of
  steps is involved, and TLC would only repeat their unit tests.
- Delivery to the outside: mail, webhooks and their retries, recipients, the
  OIDC exchange.
- Within modelled components: roles (a lead and an administrator act alike),
  unique team and provider display names, session and key expiry, the SCIM
  token and the creation of users and groups, escalation of join requests by
  business days, rate-limit rules by model and role, reminder dates of provider
  keys, cascades from deleting a service account or its team, an
  administrator's rename and retarget of a model in one request.
- The policy checks of embeddings and legacy completions, which are a part of
  the chat pipeline's.
- Compositions of more than the modules named above.  Two abstractions stand in
  for them: `Metering` takes a gate's refusal as a choice and has no period
  boundary (those are `GatewayPolicy` and `BudgetLedger`), and `GatewayPolicy`
  a fixed catalog (`ModelCatalog`).  Database and application clocks are one.

Worth adding next: theorems on the books of `BudgetLedger` without the
hypotheses on console reads and removals, which need an account of how far the
aggregate may then drift.
