# A TLA+ model of the NC3 testing platform backend

This directory holds TLA+ modules that model the backend, the TLC
configurations that check them on small instances, and proofs, checked by
TLAPS, of the safety theorems for instances of any size. `PROJECT.json` ties
every definition to the source lines it stands for, every property to a run and
to a plausible mistake that the run notices, and every hazard of the code to the
properties about it.

    tlc -config scan_core.cfg MCScan.tla            # likewise the other scan_*.cfg
    tlc -config accounts.cfg MCAccounts.tla         # likewise the other accounts_*.cfg
    tlc -config verification.cfg MCVerification.tla
    tlc -config outbound.cfg MCOutbound.tla         # likewise outbound_share.cfg
    tlc -config module_run.cfg MCModule.tla         # likewise module_outlives.cfg
    tlc -config migrations.cfg MCMigrations.tla
    tlapm ScanSafety.tla                            # likewise the other *Proofs, *Safety

## 1. The system

Paths are below `src/src/nc3_testing_platform/`.

| Component | State | Operations | Talks to |
|---|---|---|---|
| Scan rows (`domains/scans/models.py`, `worker/orchestration.py`) | `scan_job`, `scan_task`, `scan_result` rows | create the matrix, mark running, mark terminal, persist a result, derive the outcome, finalize | the handlers below, each in its own transaction |
| `scan.dispatch` (`worker/tasks.py`) | the job row it locks, the children it has left to send | plan or re-read the matrix, block what its image lacks, set the job running, send children, finalize | module queues, event channel |
| `scan.run_module` | the claimed task, the engine | claim, refuse, run, record one outcome, finalize | engine child process, event channel |
| `scan.reap`, `scan.heartbeat` | the jobs left in this sweep | republish stranded jobs, fail the live tasks of jobs over budget, heartbeat | platform queue, broker revocation, event channel |
| Event channel (`worker/events.py`) | none (Redis pub/sub) | publish task, job, end and heartbeat events | the later SSE endpoint |
| Celery application (`worker/app.py`, `infra/compose/celery.yml`) | queues, one process pool per egress profile, one beat | route, acknowledge early, fire sweeps | RabbitMQ |
| Roster and catalog (`modules/registry.py`, `modules/catalog.py`) | one roster per worker process, discovered once | queue of a test | dispatch, egress gate |
| Engine runner (`modules/execution.py`) | child process, pipe, deadline | spawn, stream progress, kill at the budget | the engine |
| Login and sessions (`domains/auth/`, `core/security.py`) | credential counters, lock, `user_session` rows | login, logout, change password, resolve and touch a session | PostgreSQL, KEK unwrapping |
| MFA (`domains/auth/service.py`, `totp.py`) | factor row (confirmed, last step, counters, lock), recovery codes | enrol, confirm, verify, disable, regenerate codes | sessions |
| Domain verification (`domains/assets/`) | challenge and proof rows, global claim index | start, regenerate, check around a DNS lookup | DNS, organization naming |
| DNS lookups (`core/dns_utils.py`) | shared outbound budget | admit, query, release | resolvers |
| Redis helpers (`core/redis_utils.py`, the `dependencies.py` files) | window counters, one-use challenges | consume, issue, verify and consume | rate-limited endpoints |
| Modules (`modules/dnssec/`, `modules/pqc/`) | none between calls | clamp the options, run the engine, map and summarize its report | engine runner, normalization, worker |
| Normalization (`modules/normalization/`) | none | severity, ordering, counts, rows | results |
| Schema migrations (`migrations/`, beside `src/`) | tables, policies and grants of a database; roles of the cluster | upgrade, downgrade, one transaction a command | PostgreSQL |
| Scan API, other routers | none yet (sample data) | launch, cancel, claim | the rows, later |

### What is hard

The scan pipeline has no coordinator. Three kinds of process write the rows of
a job in transactions of their own, messages may be lost or sent twice, a
process may die between any two of its transactions, and the end of a job is
found by whoever counts its children last. What makes it correct:

* a job closes exactly once, when all its children are terminal, with the
  outcome they count to, and stays as it is;
* a terminal task is not written again and a result stands beside a completed
  task only, though engines answer late and deliveries repeat;
* a task is run by one engine, under the egress its module declares;
* every committed job closes in the end;
* a subscriber learns of no end the database does not hold, and of one only.

An account has no coordinator either. The requests of one user run side by side
as transactions at READ COMMITTED; some rows are locked before they are read,
others are not, and a bulk revocation sees only what was committed when it
began. What makes it correct:

* a session is assured only while there is a confirmed factor, and only by a
  request that spent a code of it;
* a code, of either kind, is accepted once, and no miss escapes the lockout;
* a lockout that stands is served;
* a revoked session stays revoked, also for a request that was let in before;
* every request ends, though requests wait for each other's rows.

The other components are smaller, and each has one hard thing:

* domain verification reads a row before and after a network call, and its
  claim is unique over the whole platform: a proof is earned whatever replaced
  its challenge meanwhile, and a domain has one owner;
* what protects the resolvers and other tenants is a chain of counters, some of
  which fail open: permits come back on every path, and what is sent is bounded
  whatever Redis does;
* an engine races its budget and may die half-way through a message: the outcome
  is what happened, and no child is left;
* an engine's report becomes rows and a summary by separate code: they agree,
  and do not depend on the order the engine listed things in;
* nine revisions change one another's policies and grants, on databases that
  share their roles: a database is what its revision says, and opens to a role
  what the documentation says.

The full list, line by line, is under `hazards` in `PROJECT.json`.


## 2. The modules

| Module | Stands for |
|---|---|
| `ScanStates` | statuses, reasons and the counting rule of `worker/orchestration.py`, as constants |
| `ScanRows` | the rows and the writes on them; shared by the next two |
| `ScanLifecycle` | the abstract specification: what the pipeline promises of its rows, without processes, queues or transactions |
| `ScanPipeline` | the handlers of `worker/tasks.py` over rows, queues and the event channel |
| `ScanProperties` | the properties, and the statement that `ScanPipeline` implements `ScanLifecycle` |
| `MCScan` and the `.cfg` files | the instances TLC checks |
| `ScanProofs` | type correctness, for every instance |
| `ScanSafety` | the inductive invariant and the safety theorems, for every instance |
| `Accounts` | one user's credential, sessions, second factor and recovery codes, and the requests of `domains/auth/` on them |
| `SecondFactor` | the abstract specification: a factor whose codes are presented one at a time, and judged as it stands |
| `AccountProperties` | the properties of accounts, and the statement that `Accounts` implements `SecondFactor` |
| `MCAccounts` and the `accounts*.cfg` files | the instances TLC checks |
| `AccountProofs` | type correctness, for every instance |
| `AccountSafety` | the inductive invariant, the safety theorems and the refinement, for every instance |
| `DomainVerdict` | what the answers of the resolvers prove (`domains/assets/verification.py`), as constant operators |
| `DomainVerification` | challenges, checks, claims and naming (`domains/assets/service.py`, `repository.py`, `domains/org/service.py`) |
| `DomainClaims` | the abstract specification: one owner per domain, one name per organization |
| `DomainProperties`, `MCVerification`, `verification.cfg` | properties, the refinement, and the instance TLC checks |
| `DomainProofs` | types, the invariants, the safety theorems and the refinement, for every instance |
| `RateLimits` | what `core/redis_utils.py` keeps in Redis |
| `Outbound` | requests behind the windows, and the permits and budget of `core/dns_utils.py`; extends `RateLimits` |
| `OutboundProperties`, `MCOutbound`, `outbound*.cfg` | properties and the instances TLC checks |
| `OutboundProofs` | types and four safety theorems, for every instance |
| `EngineRun` | `run_engine`, its child, the pipe and the reaping (`modules/execution.py`) |
| `Normalization` | reports to findings, their order, counts and summaries, as constant operators |
| `ModuleRun` | one run of the dnssec or the pqc module; composes the two above with `classify_failure` of the worker |
| `ModuleProperties`, `MCModule`, `module_*.cfg` | properties and the instances TLC checks |
| `ModuleProofs` | types and five safety theorems, the rows of any report among them, for every instance |
| `Schema` | the nine revisions, each way, as functions on what a database holds |
| `Migrations` | alembic commands on the databases of one cluster, interleaved with the operator and registrations |
| `MigrationProperties`, `MCMigrations`, `migrations.cfg` | properties and the instance TLC checks |
| `MigrationProofs` | what each revision holds in closed form, and three safety theorems, for any databases of a cluster |

The modules meet at the seams the code has. The outcome `ModuleRun` ends with is
what `ScanPipeline` lets an engine answer; the verdict `DomainVerification` draws
at its lookup is an operator of `DomainVerdict`; whether a check may look
anything up (`NoResolver`) is what `Outbound` decides.

An operator `Op_Mistake` that stands before an operator `Op` is `Op` with a
plausible bug. No specification uses it; the list of mutants in `PROJECT.json`
says which property fails when it takes the place of `Op`.

### How ScanPipeline corresponds to the code

`job`, `task` and `result` are the rows. `dispatches` is the platform queue,
`deliveries` the module queues, `stream` what a subscriber of a job's channel
received last, `roster` the module-level `_roster` of every process, and
`proc[p]` the point process `p` has reached in its handler together with the
local variables the rest of the handler uses.

One action is one transaction, one message sent, or one event published, because
between two of these the process can die and the others can run. The places a
process can stand at, in the order of the code:

| Handler | Places |
|---|---|
| `dispatch` | `fanout` (job row locked, tasks read), `announce`, `send` (once per child), `finalize` |
| `run_module` | `started`, `engine`, `report`, `finalize` |
| `reap` | `republish` (once per job), `sweep`, `expired` (once per failed task), `finalize`, then the next job |
| `heartbeat` | `heartbeat` (once per job) |
| `_finalize_and_publish` | `finalize`, `closing`, `ending` |

`dispatch` reads its tasks without `FOR UPDATE`, so its transaction is two
steps: what it decides at `fanout` is written at the commit, whatever the tasks
have become. It holds the job row in between, which is what `JobLocked` makes
`finalize_job_if_done` and other dispatches wait for. Every other transaction
locks the rows it decides on first, or reads only, and is one step.

Abstractions:

* Time. A job may be found stale or over its budget in any sweep; a sweep may
  come at any time. `started_at`, `finished_at` and `purge_at` are left out.
* Queues are sets. Two equal messages waiting together have the same effect as
  one; a second copy arriving after the first was taken is modelled.
* `stream` keeps only what a subscriber can tell the end of a job by.
* The engine is its outcome. A module that raises is one of three reasons
  (`classify_failure`).
* Contents of results and findings, row-level-security hints, and rows that do
  not exist (the handlers return at once) are left out.
* A matrix inserted before its dispatch by the seeding tool is left out; a
  matrix is always made by a dispatch.
* Launch and cancellation are external: their endpoints return sample data, so
  they are taken from what the worker relies on (a committed row and a dispatch
  that may not be sent; the intent stamped on every live task and a best-effort
  revocation).
* A deadlock between row locks is a failed transaction, hence a fault.

### How Accounts corresponds to the code

`credential`, `factor`, `session` and `codes` are the rows of one user as they
are committed. `request[r]` is one API request: the statement it has reached,
and its local variables, which are also the rows it has read and what it has
written but not committed. A request ends by committing all of it, or by
dropping it.

| Handler | Steps |
|---|---|
| `login` | `Login` (lookup, lockout, start of the hash), `LoginLoad` (hash checked, row loaded), then `LoginCount` or `LoginAdmit` |
| `_resolve_session` | `Begin` (bootstrap), `ReadState` (factor and assurance), `Touch` (`last_seen_at`); `Refuse` |
| `logout` | `Logout` |
| `change_password` | `CheckPassword`, `ChangePassword`, `Revoke` (once per row), `ChangeCommit` |
| `enroll_mfa` | `CheckPassword`, `EnrollRead`, `EnrollInsert` or `EnrollUpdate` |
| `confirm_mfa` | `LockFactor`, `AcceptStep` or `RejectCode`, `ConfirmStamp`, `Revoke`, `ConfirmCommit` |
| `verify_mfa` | `LockFactor`, `AcceptStep`, `AcceptRecoveryCode` or `RejectCode`, then `StepUp` or `CompleteLogin` |
| `disable_mfa` | `LockFactor`, `CheckPassword`, a code as above, `DisableBurn`, `Revoke`, `DisableCommit` |
| `regenerate_recovery_codes` | `CheckPassword`, `Regenerate`, `RegenerateCommit` |

A request holds its own session row from the touch to its end, the factor from
`SELECT ... FOR UPDATE`, and each row it has updated since; `Holds` is that set
and `Needs` what the next statement waits for. Both are functions of where the
request is, so locks need no variable. PostgreSQL aborts one request of a cycle
of waits (`Abort`).

An `UPDATE` written by the ORM names the columns that differ from what was
loaded, not the row: this is why `LoginAdmit` and `EnrollUpdate` copy single
fields, and why a login that loaded a clean counter resets nothing. All times a
request compares are PostgreSQL's `now()`, the start of its transaction, kept as
`began`; it may lie well before the wait for a lock.

Abstractions:

* A tick of the clock is one TOTP step; lockouts are counted in ticks.
* A password, a seed and a set of recovery codes are model values. One code
  stands for its set: spending it leaves none, and a request is granted on any
  step of the window that replay refusal lets through, or on a live code, or
  misses.
* `penalty` is the length of the next lockout, for which the code keeps the
  number of past ones.
* Timeouts of sessions and the age of an assurance appear as refusals that may
  come to any request. Rate limits, disabled users, `read_session` and the key
  envelopes are left out. Registration is the initial state.
* Rows of sessions are a finite set; `Room` lets a request that opens a session
  start only if a row is left for it. Rows are never reused, so a behaviour has
  as many rotations as the set has room for.

### How DomainVerification corresponds to the code

`challenge`, `proof` and `name` are the committed rows; `zone` is what was ever
published in DNS, `issued` what each token was issued for, and `call[c]` one
request with its local variables.

| Handler | Steps |
|---|---|
| `start_challenge` | `StartChallenge` |
| `regenerate_token` | `ReadForToken`, `RegenerateToken` |
| `run_check`, first transaction | `ReadForCheck` |
| the lookup | `Resolve` or `NoResolver` |
| `run_check`, second transaction | `Decide`, `Supersede` or `RefuseCheck`, then `Stamp`, or `Claim` or `LoseClaim`, `NameOrganization`, `Commit` |

The read, the lookup and the second transaction are steps of their own, because
another request may replace the challenge, or the clock pass its expiry, between
any two of them. The key of a proof is held from its insert to the commit
(`KeyFree`), and so is an organization's row that is being named. `Verdicts` is
every verdict the resolvers' answers can come to, given whether the token was
published when they were asked: `Evaluate` is the code's function, over every
combination of outcomes, records and authentication, with records that split,
halve or extend the token. A resolver that answers may lack a token that was
published (caches, propagation); none shows one that was not.

### How RateLimits and Outbound correspond to the code

Every operation on Redis is one command or one `MULTI`, hence one step:
`Pass`, `Refuse` and, where Redis does not answer, `Unanswered`, which may or
may not have counted. `GatesOf` is the list of windows an endpoint consumes, in
its order (`domains/*/dependencies.py`). A check then takes `Acquire` or
`NoAdmission`, `Charge` or `Overspent`, `Ask` once per resolver and `Resolved`.
`Restart` is the death of the process, which takes permits, budget and calls
with it; `RedisLost` forgets every window and challenge. `passes`, `sent` and
`redeemed` are histories for the properties: `passes` is the set of what a window
let through, each with its time and its number in its window, forgotten once it
is a window old.

Keys of challenges are joined from the words of a scope and the nonce, so that
two scopes could yield one key. What is presented as a nonce is one or two
words, and `WellFormed` is the check that only what `token_hex` may return is
looked up. A charged check may send its queries in the next window of the
budget; hence the second term of `WireBounded`.

### How EngineRun, Normalization and ModuleRun correspond to the code

A step of `EngineRun` is one system call of the parent or the child:
`run_engine`'s loop is `LoopTimeout`, `LoopPoll`, `PollReady`, `PollTimeout`,
`Receive`, `ReceiveEnd`, `ReceiveTorn`; `_reap` is `ReapTerminate`, `ReapKill`,
`ReapJoin`; `_child_main` is `Detach`, `BeginSend`, `EndSend`; and the child may
die anywhere (`ChildDies`). A message being written is `torn` in the pipe. The
helper is a program the engine started; a signal to the group reaches it only if
the child became a group leader. The clock is left out: the budget ends at some
moment (`BudgetEnds`), and `join(grace)` may return with the child alive.

`Normalization` reads a report as the code does, once for the findings and once
for the summary, each with its own defaults for what is missing and the folding
of case. Texts, zones and hosts are numbers in the order of their strings, and
the segments of a check id are the words of `Alphabet`, in the order of strings;
the mappings mint some of them (`Minted`), the engines name the others. A loop
that skips items appends the others in their order: `Kept` says so in closed
form, the n-th item kept being the one whose index is the n-th of the indices
kept, so that it can be proved about. `KeptFilters` has TLC compare it with
`SelectSeq`. Of a report `ReportAssumption` says what its fields are, and that the
verdict of a pqc report is not a word of a check that passed: the mapping takes
the verdict from "safe/unsafe" and the checks from "pass/fail/info/error", two
enums of the engine behind one table (`pqc/mapping.py:3-5`).
`ModuleRun` clamps the options, runs the engine, chooses any report when it
returns one, and ends with the verdict of `classify_failure`.

### How Schema and Migrations correspond to the code

`Upgraded(n, image)` and `Downgraded(n, image)` are what revision `n` does to a
database: tables and their foreign keys, enum types, row security enabled and
forced, policies, grants, schema usage, the two lookup functions, columns and
constraints added to existing tables, and the seeded texts. `UpgradeRefused` and
`DowngradeRefused` are what raises: an object that is there or missing, a key
that still refers, and the revisions' own gates, which look at every grant a
role holds, those of `PUBLIC` included. A policy is the set of arms through
which it opens a row: the identities of the context (`app.current_org`, ...) it
compares the row with. That is how far `core/rls.py` is modelled.

A command is one transaction (`migrations/env.py`): `Begin`, one `StepUp` or
`StepDown` per revision, `Commit`; or it is refused, dies, waits or deadlocks. Roles belong to the
cluster: a second command that needs a role which another has changed waits
(`Wait`), and fails when that one commits. Around the commands an operator
grants to `PUBLIC` and hands out memberships, and registrations record receipts.

Abstractions: columns, indexes, check expressions and delete rules are left out,
except what a later revision adds; of privileges only the four row verbs and
`CREATE` on the schema; an operator grants on a database only while no command
runs there; one command runs on a database at a time.


## 3. The runs

| Run | Instance | Checks |
|---|---|---|
| `scan_core` | 1 job, 2 tasks, 2 platform processes, 2 workers, equal images, 1 fault | types, all safety invariants and action properties that hold of equal images, refinement of `ScanLifecycle` |
| `scan_closes` | 1 job, 2 tasks, 1 + 1 processes, 2 faults, fairness | `JobCloses` |
| `scan_counting` | 1 job, 2 tasks, 1 + 2 processes, 2 queues, 3 images, no fault and no sweep, fairness | `MatrixWhole`, `EgressRespected`, `RunningJobCloses` |
| `accounts` | 2 requests at a time, 3 sessions, 2 seeds, 2 sets of codes, all operations, thresholds of 2, the clock stands | types, `AssuranceNeedsFactor`, `CodeSpentOnce`, `RevokedForever`, refinement of `SecondFactor` |
| `accounts_ends` | 2 requests, 2 sessions, login and the operations that wait for the factor, lockouts that run out, fairness | `RequestEnds`, `LockoutServed` |
| `accounts_seed` | 2 requests, 2 sessions, enrolment and confirmation | `ConfirmedSeedKept` is violated |
| `verification` | 2 organizations, 3 assets over 2 domains, 2 calls, 2 tokens, 2 resolvers with a quorum of 2, 1 tick | types, `ProofEarned`, `LossExplained`, refinement of `DomainClaims` |
| `outbound` | 1 process with 2 permits, 2 calls of one caller, 3 configurations of resolvers, 1 challenge, 2 ticks | `TwiceAtMost`, `PermitsKept`, `WireBounded`, `RedeemedOnce` |
| `outbound_share` | 1 organization, a global window of 3 and its own of 2, no failures | `RoomForOthers` is violated |
| `module_run` | both modules, 2 progress lines, 2 kinds of error, a pipe of 1 message, reports of up to 3 links and a leaf or of up to 2 checks, fairness | types, `OutcomeEarned`, `ChildGone`, `RowsOrderFree`, `GapsReported`, `VerdictEarned`, `RunEnds` |
| `module_outlives` | as `module_run` | `NothingOutlives` is violated |
| `migrations` | 2 databases, commands to the revisions 0, 3, 6 and 9, 2 privileges granted to `PUBLIC`, 1 role in a group | `RoundTrip`, `ReachAsDocumented`, `RefusalExplained` |

### Bounds

Two tasks are what a counting race needs: a last and a last-but-one finisher,
and a job with completed and other children. Two platform processes let two
dispatches, or a dispatch and a reaper, overlap; two workers let two deliveries
of a task, or two finishers, overlap. The three images are the three ways
rosters can disagree on a test: present, absent, on another queue. One fault (a
process killed or raising, a message lost, a roster replaced) is enough for each
crash-related property, since each handler recovers from a fault before it needs
to survive another; `scan_closes` allows two. `MaxFaults` is the only counter
that a guard bounds. `scan_core` uses symmetry of the platform processes and of
the workers, which no definition tells apart; the runs with liveness use none.

The runs of `Accounts` have two requests in progress at a time, and any number
one after the other: every conflict is between two transactions on one row, and
a cycle of two waits is the one the code can fall into. Three sessions are the
caller's, another one, and the fresh one of a rotation; a request that needs a
fourth waits for room. Two seeds and two sets of codes tell the old from the
new. Thresholds of 2 let one miss be counted before the one that locks; with
thresholds of 1 lockouts come often enough for two ticks to hold one that is
served. `MaxNow` bounds the clock and `Room` the rows; nothing else is bounded.
Requests, sessions, seeds, codes and passwords are symmetric where no liveness
is checked.

`verification` has what each conflict needs: two organizations with one domain in
common, one of them with a second domain to be named by, two calls, and two
tokens, so that a challenge can be replaced once. One tick is the whole life of a
token. `Secret` and `MaxNow` are its bounds.

In `outbound` the permits equal the calls, so that the last permit is taken and
returned; the windows admit one or two, so that both sides of a boundary fill
up; the three configurations are no resolver, two that can be asked, and one
whose second transport is not installed. `Apart` explores redemption and lookups
in different behaviours, because no step reads the state of both. A count past
the limit is kept at one above it.

In `module_run` a pipe of one message makes a writer wait; the reports have every
status, an unknown one, a missing one, other spellings, and findings that tie on
each component of the order but the last. A leaf that is secure or of an unknown
status adds nothing to the rows, or there are none; it is combined with chains of
at most one link. The options are a number below, at,
within and above the bounds, a boolean, a fraction, an integer too wide for a
float, and something else.

`migrations` stops a command before and after each revision that creates a role
or seeds a text: 3 follows the first role, 6 the policies, the other roles and
the first texts, 9 the rest. The steps between are taken one by one, so every
revision runs both ways. Of the two privileges one opens a table the gates watch
and one a table they do not. The two databases are symmetric.

Deadlock is checked everywhere. In `Accounts` an account without requests may
stay so, and in `DomainVerification` a state without calls (`Quiet` in both), and
nothing else may. In `ScanPipeline` `Waiting` is the one state in which nothing
remains to be done, and it requires that no message, no handler and no running
job is left. A `ModuleRun` stays where it ended (`Done`). `Outbound` and
`Migrations` never end: requests and commands go on.

### What holds only while every image has every module

`TerminalTaskFrozen`, `ResultIffCompleted`, `TimeoutEarned` and the refinement
are checked, and proved, where every image has every module. With an image
that lacks one, a redelivered dispatch may write `blocked` over a task that was
closed after it read it, since it reads its tasks without a lock: the docstring
of `mark_task_terminal` has the transition once, here it happens twice. What
survives that is proved for any mix of images: a closed job keeps its outcome,
because the dispatch holds the job row while it writes, the matrix is whole, and
the last finisher counts (`CloserPending`, which the run checks with equal
images only, to keep it small).

### What the code does not promise

The models take these steps, and no property forbids them.

* Scans. A finisher publishes its task event before it finalizes; its sibling may
  close the job in between, so that something follows `end`, which
  `docs/orchestration.md` excludes. A job over its budget may be finalized
  without the `job.timeout` reason, if a finalize without the override comes
  first. Sweeps republish a stranded job however many dispatches of it wait.
* Accounts. Two wrong passwords may be counted as one; a login that passed the
  lockout check may be admitted after the lock; a login that verified a password
  with old hash parameters may write it over one that was changed since; two
  regenerations at once may leave both sets of codes alive; a confirmation whose
  session was revoked meanwhile leaves the factor unconfirmed, though the comment
  at `service.py:674` calls it confirmed, because the exception rolls the request
  back.
* Domain verification. `regenerate_token` carries over the scope it has read
  without a lock: a scope that another request set in between is undone,
  although its docstring keeps it from "silently changing coverage".
* Modules. An option that is an integer too wide for a float raises an
  `OverflowError`, which no clamp expects, and the task ends as an engine error.
  A status no table has ends the task as invalid input, and an engine whose own
  error says it overran something as a timeout: `classify_failure` sees a
  `ValueError` and a text. An unknown status of a pqc check is skipped.
* Migrations. Two databases that both use a role can never be downgraded past
  it: each refusal says to downgrade the other first, and its rollback restores
  the grants that refuse the other. Of two concurrent upgrades that create a
  role the later fails: what it gets is a violation of a unique index, not the
  `duplicate_object` that is trapped. The backfill of `domain_verification.value`
  (`c4d8e6f1a3b7:59`) is not wrapped in `NO FORCE ROW LEVEL SECURITY`, which
  `docs/database-migrations.md` asks of data changes, so that under an owner
  without superuser rights it fills no row; rows are not modelled.

### The three violated statements

* `accounts_seed`. A confirmed factor refuses enrolment, but `enroll_mfa` reads
  it without a lock: the factor may be confirmed between its read and its
  update, which then replaces the seed that was just proved.
* `outbound_share`. `core/settings.py` says that the window of an organization
  keeps one tenant from consuming the global one. A check consumes the global
  window first, and what the organization's window then refuses stays counted.
* `module_outlives`. `_reap` says that nothing outlives, and that the SIGKILL took
  the whole group. It is sent only when the child survived SIGTERM: a program the
  engine started survives when the child dies of the SIGTERM and the program
  does not, when the child ended before, or when `setsid` failed.

### Fairness

`FairSpec` of `ScanPipeline` assumes that a process that began a handler finishes
it (`WF` of `Advance`: engines are killed at their budget, a sweep is finite, and
a process waiting for a job row gets it when the dispatch holding it commits),
that a waiting dispatch is taken (`SF`: the broker hands messages out in order,
so a process that is idle again and again gets to it), and that beat's sweeps go
on and find a job stale, or over its budget, in the end (`SF` of `FoundStale` and
`FoundStuck`: wall-clock budgets do run out). Nothing is assumed of the delivery
of tasks, of cancellations or of publishing. `CountingSpec` has neither sweeps
nor faults and assumes instead that task messages are taken.

`FairSpec` of `Accounts` assumes that a request that can go on again and again
does (`SF`: PostgreSQL queues the waiters of a row, so one that waits gets it
although others come and go), and that deadlocks are detected (`WF` of `Abort`).
Nothing makes a client call, a clock tick or a process die.

`FairSpec` of `ModuleRun` assumes that the worker is scheduled, that the clock
reaches the budget, that a write that began ends (the parent empties the pipe) or
its writer dies, and that SIGKILL kills. The engine owes nothing: it may never
report, never write, ignore SIGTERM or die at any moment.

## 4. The proofs

### The scan pipeline

For any sets of jobs, tasks, processes, queues and images, and any number of
faults, from the constant assumptions `JobOfAssumption` and
`PipelineAssumption` only:

| Theorem | Statement |
|---|---|
| `TypeCorrect` | `Spec => []TypeOK` |
| `SafetyInvariant` | `Spec => []SafetyInv`, the inductive invariant |
| `ClosedJobsStaySettled` | `Spec => []ClosedJobSettled` |
| `ClosedJobsStayFrozen` | `Spec => ClosedJobFrozen` |
| `OneEngineEver` | `Spec => []OneEnginePerTask` |
| `EgressAlwaysRespected` | `Spec => []EgressRespected` |
| `EndsFollowCommits` | `Spec => []EndAfterCommit` |
| `EndsOnce` | `Spec => []OneEnd` |
| `MatrixAlwaysWhole` | `Spec => []MatrixWhole` |
| `LastFinisherCounts` | `Spec => []CloserPending` |

and, when no image lacks a module of the catalog (`AllInstalled`):

| Theorem | Statement |
|---|---|
| `LifecycleImplemented` | `Spec => ImplementsLifecycle`, the refinement of `ScanLifecycle` |
| `TerminalTasksStayFrozen` | `Spec => TerminalTaskFrozen` |
| `ResultsStayWithTasks` | `Spec => []ResultIffCompleted` |
| `TimeoutsEarned` | `Spec => []TimeoutEarned` |

`ScanProofs` shows the type invariant action by action. `ScanSafety` first shows
what one step may do, again action by action: to a job (`JobStep`: it is
committed, starts, or is closed by a finalize), to a task (`TaskStep`: a live
task moves on, or the dispatch holding its job writes it), to a process
(`ProcStep`) and to a channel (`StreamStep`). The invariants follow from these
four alone.

`ClosedJobSettled` is not inductive: the unlocked write of a dispatch could
reach a closed job. `FanoutOpen` excludes it: the job of a dispatch between read
and commit is open, because a finalize waits for the lock, and the dispatch
writes the tasks of that job only. `OneEnginePerTask` needs `EngineClaimed`: a
task with an engine is no longer queued, so a duplicate delivery finds nothing to
claim, and no step, not even the unlocked write, makes a task queued again.
`OneEnd` needs `EndAfterCommit`: before the one finalize that closes a job nobody
is closing it and its channel is live.

`MatrixWhole` needs two facts about dispatches. `Launched`: every dispatch, in
the queue, about to be republished or under way, is of a committed job. And
`FanoutPlan`: as long as the job is queued, a dispatch between its read and its
commit plans the whole matrix, because a queued job has no task yet. A dispatch
whose job another one started in between finds the matrix there and inserts
nothing.

`CloserPending` is a statement about finishers (`Finisher`): a finisher stays one
until its finalize has run (`FinisherStays`), and whoever starts a job or ends
one of its tasks becomes one (`FinisherAdded`). A finalize that finds the job open
and its children done closes it, so none can be the last and leave. Faults break
both, hence the premise that none occurred; `JobCloses` is what then remains.

The refinement needs `MatrixWhole` (the matrix is inserted in one abstract step,
and a sweep that finds live tasks finds their job running), `EngineClaimed` (an
engine that may record its outcome finds its task running), `OverrideEarned` (a
handler that will close its job with the timeout reason, or still reports the
tasks it expired, belongs to a job that lost a task to the timeout) and
`NothingBlocked` (no dispatch writes `blocked` over an existing task). The last
one is where `AllInstalled` is used, and it is needed: with an image that lacks a
module, a second dispatch may block a task that has completed since it was read,
which leaves a result beside a blocked task. `OverrideEarned` in turn holds only
because ended tasks are frozen, so the two are shown together; that they are
frozen, the results and the reasons are then facts about `ScanLifecycle` alone.

### Accounts

For any sets of requests, sessions, passwords, seeds and codes, any thresholds
and any bound of the clock, from `AccountsAssumption` only:

| Theorem | Statement |
|---|---|
| `TypeCorrect` (in `AccountProofs`) | `Spec => []TypeOK` |
| `AccountInvariant` | `Spec => []AccountInv`, the inductive invariant |
| `CodesCheckedOnCurrentFactor` | `Spec => []FactorCurrent` |
| `AssuranceAlwaysNeedsFactor` | `Spec => []AssuranceNeedsFactor` |
| `RecoveryCodesSpentOnce` | `Spec => []CodeSpentOnce` |
| `RevokedSessionsStay` | `Spec => RevokedForever` |
| `LockoutsServed` | `Spec => LockoutServed` |
| `GrantsStayGood` | `Spec => []EarnedInv`, what a request that was granted a code still holds |
| `CodesOneAtATime` | `Spec => ImplementsSecondFactor`, the refinement of `SecondFactor` |
| `AssuranceIsEarned` | a session becomes assured outside of every lockout, by a step later than the last accepted one or by a live code that is gone with it |
| `AcceptedStepsStayUsed` | the last accepted step never goes back, but by disabling the factor |

`NextStep` says that a step moves one request and leaves the rows alone, or
commits one request; `FactorCommits`, `SessionCommits` and `CodeCommits` say what
a commit may do to the rows. The invariant has three kinds of parts.

* Locks. `FactorAlone` and `SessionsApart`: two requests never hold the factor,
  or one session row, together. They need `OpAtPlace`, since what a request holds
  follows from its operation and its place.
* What a holder knows. `FactorCurrent` and `HeldFactor`: the row it read is the
  committed one, was not locked out when it began, and is confirmed unless it is
  being confirmed. `FactorThere`: the one write that takes no lock, the `INSERT`
  of an enrolment, comes when nobody can hold the factor. `LockoutServed` follows:
  who may change the factor began after its lockout.
* What a rotation still has to do. `AssuredWillGo`: a request that disables the
  factor will revoke every session that is assured, although it listed them
  earlier, because a request that assures a session needs the factor it holds.
  `StampedLives`: the session a confirmation stamped cannot be revoked before its
  commit, which `RevokedForever` needs.

`SecondFactor` has no requests, locks or transactions: a miss, a confirmation, a
verification or a disabling is one step, at a time of the past that no lockout
covers, and decides on the factor as it stands. The mapping takes the committed
factor and codes as they are, and `Assured`, the live sessions that are assured.
All moves are stutters; a commit is one abstract step. For the commits the
invariant above is not enough, because the code was judged several steps before:
`EarnedInv` adds that a granted request holds the row that the committed factor
becomes by its code, whose step is still later than the last accepted one or
whose recovery code is still live, up to the commit (`GrantedRow`,
`ConfirmedRow`, `ErasedRow`). `confirm_mfa` does not compare its step with the
last one; its step is later all the same, because an unconfirmed factor has none
(`UnconfirmedUnused`). `TakenLast` and `StampedLives` show that a confirmation
leaves exactly its own session assured, `AssuranceNeedsFactor` that a disabling
leaves none.

The abstract specification keeps what the code does not prevent: `Enrol` may
replace the seed of a confirmed factor and forgive its misses (the finding of
`accounts_seed`), and codes that are minted while the factor is disabled may
outlive it. It never forgets the last step: `EnrollUpdate` could, but an
enrolment reads the factor unconfirmed, hence without a step, and so leaves the
column alone. With that, `AcceptedStepsStayUsed` holds until the factor is
disabled.

Nothing in the proofs uses the bound `Room`: any number of sessions may be
opened. Lost counts, rehashed passwords and the enrolment race do not touch the
invariant.

### Domain verification

For any sets of assets, organizations, domains, calls, tokens and resolvers, and
any quorum, from `VerdictAssumption`, `VerificationAssumption` and `AssetKey`:

| Theorem | Statement |
|---|---|
| `TypeCorrect` | `Spec => []TypeOK` |
| `ProofsAlwaysEarned` | `Spec => []ProofEarned` |
| `ClaimInvariant` | `Spec => [](TypeInv /\ ClaimInv)`, the inductive invariant of the claim |
| `LossesExplained` | `Spec => []LossExplained` |
| `ClaimsImplemented` | `Spec => ImplementsClaims`, the refinement of `DomainClaims` |

`VerdictsSound` is the pure part: answers given without the token verify nothing,
because no record but the token's joins to the token (`JoinOne`, `JoinTwo`), and
a verified verdict was validated or corroborated. `ProofEarned` speaks of a token
that may have been replaced several times since the check began. What carries it
is `Earned`, of every call between its first read and its commit: its token was
issued for its asset and scope, was found under the asset's domain, and had not
expired when the second transaction began. Nothing a later request does can undo
that, because tokens are issued once and `zone` only grows; this is where the
re-read is needed, and it is all that the re-read is needed for.

The claim is unique by four facts about the calls between claim and commit: no
other asset has the proof of their domain (`Clear`), no two of them hold one
domain (`KeysApart`), each knows whether its organization is named (`NamesTrue`),
and no two name one (`NamesApart`). The refinement follows: a `Commit` is
`Prove`, and every other step changes neither coverage nor names.

### Windows, permits and challenges

For any processes, calls, permits, windows, scopes and nonces, from
`RateAssumption`, `ScopeAssumption`, `OutboundAssumption` and `GatesKnown`:

| Theorem | Statement |
|---|---|
| `PermitsAlwaysKept` | `Spec => []PermitsKept` |
| `RedeemedAtMostOnce` | `Spec => []RedeemedOnce` |
| `WireAlwaysBounded` | `Spec => []WireBounded` |
| `TwiceAtMostAlways` | `Spec => []TwiceAtMost` |
| `TypeCorrect` | `Spec => []TypeOK` |

For the first, a step of a call keeps it in or out of the checks that hold a
permit, takes one as it enters, or gives one back as it leaves (`CallStep`); the
set of holders is finite, so its cardinality follows. For the second, `PowInv`
says that a challenge that is still kept was never redeemed, is the only one with
its nonce, and that its key is its scope followed by its nonce. A key then tells
the scope (`KeyTellsScope`), because what is looked up ends in exactly one word:
without `WellFormed` a longer "nonce" could complete a shorter scope.

`WireBounded` is not inductive: it forgets the queries that were charged and are
not sent yet. `WireInv` counts them (`Owed`): what is sent and what is owed
together are within what is spent and what the other permits may owe. When a
window of the budget ends, `spent` and `sent` start anew, and what is still owed
belongs to the other permits, because the check that starts the window holds one
itself and owes nothing yet (`OthersOwe`).

`TwiceAtMost` speaks of any span as long as a window, the code only of windows.
`WindowInv` divides what was let through within the last such span into that of
the window that lives (`OfWindow`) and the rest (`Before`), and says that in each
part the numbers are distinct and within the limit; there can be no third part,
since a window that ended before the last one is a window old. The history is a
set, so two requests that look alike would count once: `PassCounted` shows that
none do.

### Module runs

For any lines, errors, reports, segments and options and any room in the pipe,
from `EngineAssumption`, `RunAssumption`, `AlphabetAssumption` and
`ReportAssumption`:

| Theorem | Statement |
|---|---|
| `ChildAlwaysGone` | `Spec => []ChildGone` |
| `OutcomesEarned` | `Spec => []OutcomeEarned` |
| `VerdictsEarned` | `Spec => []VerdictEarned` |
| `TypeCorrect` | `Spec => []TypeOK` |
| `RowsReproducible` | `Spec => []RowsOrderFree` |
| `GapsCounted` | `Spec => []GapsReported` |

`SaidInv` relates the two ends of the pipe: what was written is what the parent
took, in order, followed by what is in the pipe (`InOrder`), and the first message
that is not progress is the last of all (`LastIsLast`). So a report the parent
takes was the last word, and the end of the pipe at the start of a message means
that nothing but progress was ever said. `VerdictInv` adds where the run is. Of
the types, the one that matters is the budget: whatever the option is, the clamps
leave it within the cap (`BudgetClamped`), for any cap and default.

The two theorems about rows need little of the state, only `ResultInv`: a
completed run holds a report, what its mapping made of it, and no finding that
raised. The rest is about the mapping and the sort, for reports of any length.
Nothing is proved by induction on a sequence: `Kept` and `OrderFindings` say where
an item comes out, and the lemmas count. The rank of an index among those kept is
one-to-one (`Ranked`), and so is the place of a finding among the rows, because
the key of `_order_key` tells any two findings apart and orders them totally
(`KeyTells`, `BeforeOrders`, `Slots`); a one-to-one map of a finite set to one of
its size leaves nothing out (`AllTaken`). The findings of a report are then the
overall one, those of the kept items and those of the leaf, each at its index
(`Laid`). Another order of the items is another order of the findings
(`OtherOrder`), and two lists that hold the same findings have the same rows
(`SameRows`): that is `RowsReproducible`. It fails, as its mutant shows, when the
key leaves out what the rows still show.

`GapsCounted` counts the rows by the items they came from (`ItemRows`,
`ReportRow`) and the summary by the spelling of a status. `StatusIs` is where the
two readers meet: their defaults for a missing status differ ("secure", "pass" and
""), and none of them is a gap. `PassedIs` does the same for the verdict; it needs
the assumption on verdicts, since a pqc report whose verdict is "pass" has an
informational row and yet is not `safe`.

### Migrations

For any databases of a cluster, targets, privileges that an operator may grant
and roles in groups, from `MigrationsAssumption`:

| Theorem | Statement |
|---|---|
| `RoundTripAlways` | `Spec => []RoundTrip` |
| `MigrationsInvariant` | `Spec => []MigrInv`, the inductive invariant |
| `ReachAlwaysDocumented` | `Spec => []ReachAsDocumented` |
| `RefusalAlwaysExplained` | `Spec => RefusalExplained`, an action property |

`Stage(n)` says in closed form what revision `n` holds: which tables, keys,
policies, grants, roles, columns and texts. Each of the nine upgrades takes
`Stage(n - 1)` to `Stage(n)` and its downgrade takes it back (`StagesStep`, from
one `...Round` lemma per revision); this is where a downgrade that leaves an
object behind would show. Hence `Versioned`, the first part of the invariant:
every database and every running command holds the `Stage` of its revision.

A role belongs to the cluster, and whether it is in order depends on commands on
several databases. `RolesHeld` says that no two commands hold one role
(`Exclusive`), that a command at a revision has created each role the revision
needs or found it in use (`Needed`), that a role a command drops is used by no
other database (`Dropping`), and that a role in use by a committed revision is
`Hardened`. None of the four is inductive alone: a commit keeps the roles of the
other databases hardened because of `Dropping`, and a command that goes on after
another commits still has what it found because of `Exclusive`.

`ReachAsDocumented` then is about the closed form. For each role there is one
lemma on its grants (`AppGranted`, ...) and one on its policies (`AppArms`, ...),
for all tables, verbs and revisions from the fourth on; together they are the
table of `docs/database-roles.md` (`DocumentedArms`). A grant to `PUBLIC` adds no
policy, and no policy opens credentials to a role but `nc3_auth` and its lookups,
or an audit event but to append (`ClosedRows`).

For `RefusalExplained`, no revision raises on the `Stage` before it
(`RevisionsGo`): the tables are created in an order in which every foreign key
points back (`InitialOrdered`), so that they can be dropped in the order reversed
(`DroppableReversed`); the gates find only what was granted (`AppGateOpen`, ...);
every table has a policy (`AllClassified`); and no revision names a role of a
later one (`RolesUnnamed`). What remains to refuse a command is outside of them.

### What is only model-checked

* `JobCloses`, `RunningJobCloses`, `RequestEnds` and `RunEnds`: liveness under
  fairness is out of the prover's reach.

## 5. The plan

Done: the scan pipeline, accounts, domain verification, the outbound budget with
the windows and challenges, engine runs with normalization, and migrations, each
with its runs and its proofs. Every safety property of a run is a theorem.

Left, in order:

1. **Accounts**: idle and absolute expiry of a session, and registration.

## 6. Not modelled

* Endpoints that answer with sample data: launch, cancel and claim of a scan
  (their effect is the environment of `ScanPipeline`), schedules, reports,
  notifications, statements, API keys, administration. There is nothing to model
  yet.
* The row contexts of a transaction (`core/rls.py`, `core/api_db.py`,
  `worker/db.py`) beyond the arms of the policies they select: which rows a
  context reaches is evaluated by PostgreSQL.
* Cryptography, password hashing, TOTP arithmetic and DNS messages: libraries,
  without state. Settings, errors, pagination, CSRF, OpenAPI, the preflight:
  parsing, wording, or a check at start-up.
* Code without a caller in this version: `covers`, grading, and the JSON cache
  helpers.
* Of the modelled parts: registration, disabled users and the timeouts of
  sessions (refusals that may come to any request); the death of a worker inside
  `run_engine` (a fault of `ScanPipeline`; its child is then nobody's); the field
  validation of the module contract and the noop module; a domain check
  with three tokens in play; a matrix that comes out empty, which the catalog and
  a constraint exclude; a deadlock between the locks of a reaper and of a
  dispatch, which PostgreSQL breaks by failing one of them, hence a fault.
