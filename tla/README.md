# A formal model of reana-db

reana-db is the database layer of REANA: SQLAlchemy models of users, workflows,
jobs, quotas and retention rules, functions that change several of them
together, and an administration command (`reana-db`). It has no process of its
own. reana-server, reana-workflow-controller, cronjobs and administrators all
call it concurrently, each with its own session on the same PostgreSQL database.
That is where its bugs can hide: between a read and the write based on it,
between two commits of what looks like one call, in what a failed flush leaves
in a session. This directory models those parts in TLA+, checks them with TLC
and proves the most important results with TLAPS.

## Inventory

| component | state | operations | what is hard | what makes it correct |
|---|---|---|---|---|
| Bearer secrets, key rotation (`secrets.py`, `utils.change_key_encrypted_columns`, `User.gitlab_webhook_secret`, `cli.migrate_secret_key`) | encrypted column and digest of each row; `config.DB_SECRET_KEY`; row locks | read-or-create, set, clear, rotate | servers write under the new key while rows are rotated one by one; undecryptable rows; crashes; deadlocks | no secret is lost or resurrected; success means that all rows are under the new key; failure leaves nothing |
| Workflow status (`Workflow.update_workflow_status`, `workflow_status_change_listener`) | status, times, rules, quotas | change of status with its consequences | four to ten commits before the status itself; swallowed errors; crashes | a status is only visible after its time and rules; quota errors do not stop it |
| Quota accounting (`utils.update_*_quota`, `store_workflow_disk_quota`, `cli.resource_usage_update`) | `workflow_resource`, `user_resource` | by the listener for one workflow, periodically for all, increments | read-sum-write without locks, INSERT races, stale snapshots | the recorded usage becomes the actual one |
| CPU quota periods (`utils._advance_user_cpu_quota_period_if_needed`, `cli.init_default_period`) | start and length of the window of each account | start with the account, initialise, advance, clip | clamped month ends, updates that overwrite each other's window | all windows of an account are counted from its creation; in the end it has the open one and its usage |
| Retention rules (`WorkspaceRetentionRule`, `utils.update_workspace_retention_rules`) | status and date of each rule, audit log | activate, inactivate, apply | check on a stale read; restarts and the cronjob race | only allowed transitions; no files deleted under a running restart |
| Run numbers (`Workflow.get_new_run_number`) | major and minor number | run, restart | max + 1 without a lock, unique constraint | numbers are unique and ordered |
| Lookup and sharing (`utils._get_workflow_by_*`, `UserWorkflow.is_active`) | | find by name, run number, UUID | dotted names, expiry in Python and SQL | the one intended workflow |
| Default resources (`Resource.initialise_default_resources`, `User.initialize_user_quota_limits`) | resource rows, the rows of an account | initialise, create an account | two deployments at once, rows of earlier ones | success means that all resources exist |
| Migrations (`alembic/versions`, `alembic/env.py`) | the schema and its data, the stamp | upgrade, downgrade | data that was valid before, servers that go on writing, databases that an earlier release has upgraded | no secret, run or job is lost; an upgrade fails only for rows it cannot keep |
| Scheduling priority, quota health | | functions of what the database holds | | |
| Jobs, sessions, services, audit logs, configuration, fixtures | tables, environment | | little | |

The components meet in the database: the status listener activates retention
rules and writes quotas; the periodic update writes the same quotas; a restart
creates a workflow with the next minor run number in the same workspace and
inactivates the rules of its family; the rotation rewrites what the servers
write; and a migration rewrites all of it under their feet.

## Modules

| module | what it is |
|---|---|
| `SecretStore` | the abstract store: a row holds at most one freshly generated secret; nothing but writing and clearing changes it; with proofs that a replaced secret never comes back and no two rows share one |
| `KeyRotation` | the detailed system: rotations and server transactions, statement by statement, over locks, keys and staged writes; its properties and its inductive invariant |
| `KeyRotationProofs` | proofs of all its safety properties and of the refinement |
| `MCKeyRotation` | instances for TLC |
| `WorkflowStatus` | change of a status, commit by commit, and the periodic update of quotas beside it |
| `WorkflowStatusProofs` | proofs of what the listener guarantees ahead of the status |
| `MCWorkflowStatus` | instances for TLC |
| `RetentionRules` | the rules of all runs that share a workspace: ends, restarts, rollbacks and the cronjob that deletes files |
| `RetentionRulesProofs` | proofs of its type correctness and of what a restart does to the rules |
| `MCRetentionRules` | instances for TLC |
| `RunNumbers` | numbers of runs and restarts by concurrent clients, shares, and finding workflows by name and number |
| `RunNumbersProofs` | proofs of all its safety properties |
| `MCRunNumbers` | instances for TLC |
| `QuotaPeriods` | default resources, new accounts and CPU quotas with a period, updated by racing processes |
| `QuotaPeriodsProofs` | proofs of all its safety properties, and the arithmetic of clamped months they need |
| `MCQuotaPeriods` | an instance for TLC |
| `Revisions` | the last nineteen Alembic revisions as data, statement by statement |
| `Migrations` | the execution of an upgrade or downgrade in one transaction, beside live servers |
| `MigrationsProofs` | proofs of what holds for any chain of revisions (types, and that no secret is lost), and of what the nineteen revisions of `Revisions` do to the rows, statement by statement |
| `UpgradeProofs` | the life of every schema object through the scripts, and the proof that an upgrade fails only for its rows |
| `MCMigrations` | instances for TLC |

### KeyRotation

A row of `user_` or `interactive_session` is a ciphertext (a plaintext tagged
with its key, since AES-GCM authenticates) and, for users, a digest named by the
secret it is the digest of. A transaction is the lock it holds on each row and
the writes it has staged; commit makes them visible, rollback forgets them, and
both free the locks. `RotationStep` and its parts are the statements of
`change_key_encrypted_columns`: two queries for ids, then per id a
`SELECT ... FOR UPDATE` under the old key (`Visit`, `SelectForUpdate`), the
UPDATE (`ReEncrypt`) or the second read under the new key (`SkipRotated`,
`Undecryptable`), and the one commit. Errors, deadlock victims and kills
all end in `Fail`. The first read of a row is "no row" when the row was deleted;
a deletion is `Clear` here, since a rotation does the same with both: it writes
nothing that can be seen. The servers' transactions follow
`get_or_create_bearer_secret` and the setter of `User.gitlab_webhook_secret`;
what requests there are (`Request`, `AbortRequest`, `CommitRequest`) belongs to
reana-server and is marked external, as are the locks of PostgreSQL.

`stored` is a history variable: the secrets that were ever committed. `Fresh`
takes generated secrets to be new, as the comments of `secrets.py` require
("high-entropy").

### WorkflowStatus

Each worker runs `update_workflow_status` for one workflow: `Load`, then the
listener's own commits (`UpdateTimestamp`, `ActivateRules`, then for CPU and disk
`ReadWorkflow`/`WriteWorkflow` and `ReadUser`/`WriteUser`), then `CommitStatus`.
An ORM update is an UPDATE by primary key of the changed columns: reading and
writing are two actions and the write does not look at what the row holds by
then. The INSERT of a row that appeared in between fails (`InsertFails`), after
which the session refuses everything (`broken`) until it is rolled back. Any
other error of a quota update is `QuotaError`. `Crash` can follow any commit.
The process `Cron` is `reana-db quota resource-usage-update` over all workflows
and users.

Simplifications: the time is a counter that moves when something is stamped; a
workflow has one retention rule (`RetentionRules` has many); a workspace belongs to
one workflow; users have no CPU quota period (in `QuotaPeriods` they do); the row of a
user is read and the rows of the workflows are summed at one moment.

### RetentionRules

A rule is a row with a status and the day it is due. A process that calls
`update_workspace_retention_rules` holds three things: the rules its query picked
(`picked`), the whole table as the query saw it (`view`) and the rows it is going
to write (`want`). The commit (`Flushed`) inserts the rules of a new workflow and
updates, by primary key, the columns that differ from what was loaded. Workers end
runs (`Activate`, committed by itself) and restart them: `CheckPending`, then
`Inactivate` in a transaction of the caller, then `Commit` or `Rollback`. The
caller is in reana-workflow-controller, so the restart may set its own rules before it
inactivates those of its family (`Stage`) or after, any time until the commit inserts
them. `staged` keeps the ones set before: the session does not autoflush, and unless the
helper flushes them its query misses them and they come into force with the commit, which
`RestartInactivates` forbids. The cronjob is in
reana-server; it calls the same helper (`CronTake`, `CronSettle`), deletes files in
between, and dies when the helper raises (`CronRaises`).

### RunNumbers

`Construct` is `Workflow.__init__` as far as numbers go: it reads the last run or
restart (`Candidates`, `Latest`: the two queries of `_get_last_workflow`) and
derives the number (`Numbered`: `get_new_run_number`). The row is written later, by
`Insert` and `Commit`, or not at all (`Clash` when the unique constraint is violated,
`Rollback`); PostgreSQL lets an insert wait for another of the same key (`Waits`).
A text that a user types is the sequence of its parts between dots, words or numbers;
`Found` is `_get_workflow_with_uuid_or_name` with its two queries `ByNumber` and
`ByName`, over the workflows that a user may see (`Visible`). Shares end with the day
of `valid_until`, compared by date in Python (`IsActive`) and by time in SQL
(`IsActiveInSql`).

`given` and `quiet` are history variables: whether a restart said which run it
restarts, and whether nobody committed a run of the same name since the number was
read. They are what `NoNeedlessClash` needs: a restart without a run number
continues from the last original run, so that the second such restart always
clashes; callers pass the number.

### QuotaPeriods

A date is a month and a day, the length of each month is a constant, CPU time is
counted in days. `_add_months` clamps as the code does, and `Window` says without
recursion what the loop of `get_current_quota_period_start_at` can arrive at: k
periods after the creation of the account, in its day or the last day of the
shortest month on the way. The loop itself is an action (`Advance`), because the code
runs it twice, with a clock of its own each time: once for the start it stores
(`_advance_user_cpu_quota_period_if_needed`), once for the start it accounts from
(`Settle` is between the two).

An update reads a row (`LoadRow`), looks at the clock (`ReadClock`), advances, sums the
runs (`SumRuns`) and commits (`CommitRow`). The session has no autoflush, so that the start and the sum are written
together, each only if it differs from what was read, over whatever the row holds by
then. A worker does that for the owner of a run that has ended (`Finish`), the
periodic command for everybody (`StartCron`), unless the disk quotas before it raise
(`Healthy`). Deployments create the resources (`ReadResources`, `InsertResources`,
`RecheckResources`: a clash on the unique name ends well only if all resources are
there); an account gets a row for each resource it sees. `quota init-default-period`
selects the rows without a period (`SelectRows`), waits for the operator, computes their
windows one row at a time, each with the clock of that moment (`AssignWindow`), and commits
them together (`InitDefaultPeriod`); at any time before that it may end (`Abort`). Days,
boundaries and commits of others pass between any two of these steps, so that a window
computed before a boundary can be committed over the newer one that an update has stored
meanwhile. `OnlyOvertakenMoveBack` says that nothing else moves a window back: whoever
commits the older start, an update or this command, computed it (`storeAt`, `assigned`)
before the window it overwrites had opened. What other packages do is external: the configuration is changed, an
administrator gives one account a period, time passes.

Simplifications: one `init-default-period` runs at a time; a window starts on the day its account is created; the lifetime usage
of an account without a period is taken from the runs and not from the rows of the
workflows, which `WorkflowStatus` has.

### Revisions and Migrations

`Revisions` is a table: for each revision the statements of its `upgrade()` and its
`downgrade()`, with the schema objects they take away and add, the tables they lock and
what the rows must satisfy. `Migrations` executes them. A command (`Start`) takes the
revisions between the stamp of the database and its target; each statement is one
action (`Alter`, `CreateTheCheck`, `Repair`, `PassCheck`, `RewriteRows`, `Fetch`,
`Convert` for one row at a time); `Stamp` ends a revision and `Commit` the command, for
`env.py` opens one transaction for all of them. An error (`Fail`) or the death of the
process (`Killed`) undoes everything since `Start`. One command runs at a time.

`saved` is the committed database and `db` what the transaction sees. DDL locks its
table until the end of the transaction, an UPDATE its row, a SELECT nothing; beneath
that, servers of the release that matches the committed stamp go on (`Servers`): they
write secrets with that release's cipher, identities, jobs, pending rules and restarts,
to `saved` and, at isolation level READ COMMITTED, also to what the transaction reads
next. `raced` marks the rows they write after a conversion has fetched them. A secret
that they generate is new: none that a row or the running command still holds (`InUse`).

A CHECK constraint has a name and the number of `ck_<table>_` prefixes before it: the
naming convention puts one in front of whatever name it is given, which is what the
repair revision `3f6c0d2a1b7e` exists for. `CreateTheCheck` also has the names under
which earlier releases may have created it (`Earlier`), since an upgraded database may
have run another text of the same revision.

Every database starts as `b92fe567be5b` left it, with any contiguous run numbers that
the releases of that time could have given, tenth restarts that spilled over included.
`constraints` and what is built on it are the list of `2461610e9698` in full: a wrong
name in it is the bug to look for.

## What is checked

| run | instance | checks |
|---|---|---|
| `rotation` | 2 users, 1 session, 1 rotation, 2 servers, 4 secrets | `TypeOK`, `DigestMatches`, `RotationKeepsSecrets`, `RotationComplete`, `FailureLeavesNothing`, `AnswersAgree`, `StoreSpec` |
| `rotators` | 2 users, 2 rotations, 1 server, 2 secrets | `RotationEnds` (fair) |
| `quotas` | 2 workflows of one user, 1 worker and the periodic update, 2 events | `TypeOK`, `RulesActive`, `Timestamped`, `QuotasCatchUp` (fair) |
| `status_lost` | 1 workflow, 2 workers | refutes `QuotaErrorsAreContinuable` |
| `stopped_cpu` | 1 workflow, 1 worker | refutes `StoppedIsCharged` |
| `retention` | a run and 2 restarts of it, 2 workers, the cronjob, 3 days | `TypeOK`, `RestartsWhole`, `RestartInactivates` |
| `retention_race` | the same | refutes `TransitionsAllowed` |
| `run_numbers` | 2 users, 1 name, 2 clients, 2 runs with 2 restarts each, 1 share | `TypeOK`, `NoGaps`, `NoNeedlessClash`, `FullNameFinds`, `ActiveAgrees`, `NumbersAscend` |
| `shared_number` | the same | refutes `NumberIdentifies` |
| `periods` | 1 account, 2 deployments, 1 worker and the periodic update, months of 2, 1 and 2 days, 1 run | `TypeOK`, `StartsAgree`, `Initialised`, `OnlyOvertakenMoveBack`, `PeriodsCatchUp` (fair) |
| `migrations` | 2 users, 1 session, 2 secrets, 1 job, 1 rule, 2 workflows restarted once or 11 times, 2 writes of servers | `TypeOK`, `SecretsKept`, `SecretsReadable`, `WebhookUpgradeNotRaced`, `ChecksConverge`, `IdentitiesComplete`, `RestartsKeepTheirPlace`, `JobsBelong`, `PendingIsKnown`, `UpgradeFailsForItsRows` |
| `downgrade` | 1 user, 1 session, 1 workflow, no servers | refutes `DowngradeFindsWhatItDrops` |

Bounds. `rotation` starts from every assignment of keys and secrets to three
rows (both tables, a row before and a row behind the rotation); two servers race
with each other on one row and with the rotation on another, and four secrets
are one more than the rows hold. Deadlocks need two rotations and two rows, which
`rotators` has. In `quotas` one workflow can run and finish, or both can start, while
the rows are being summed: workflows start as pending (`Initial`), which leaves the two
stamps (`MaxTime`) for running and its end. Two workers on one workflow are in
`status_lost`, and in the proofs, which have any number of them. In `retention` a rule that is activated on the first day can be taken
on the third, and the two restarts can be created at the same time. In `run_numbers`
two clients can race for the same number, for neighbouring ones, and for a run while
its restart is created; two users run the same name; a day has two hours (`DayLength`),
and a share that ends in the first (`Untils`) must last through the second and be over in
the third (`MaxHour`). In `periods` an account created on the second day of the first
month has its window clamped to the only day of the second, and the window stays clamped
in the third; a deployment takes less than a day (`Tick` waits for it, and for an
account that is being created), and no two runs of an account are on the same days. In
`migrations` a command may stop at five of the twenty positions (`Targets`), those before
and after the two conversions of secrets among them; two writes are enough for one beneath a
conversion and one after it, 11 restarts spill into the next run number, and a
check may have been shipped with no name or with two (`Earlier`). Secrets, users, workers,
rotations, servers and clients are interchangeable in the safety runs, hence the symmetry;
the liveness runs use none.

Deadlock is checked where the system never stops; in `status_lost` and `stopped_cpu` it
may: all workflows deleted, or the bound on time reached; so it may in the `retention`
runs, when all is restarted and the last day has come, in those of `RunNumbers` at the
bounds on numbers and hours, and in `periods` when time is up.

Fairness. A process that is not blocked goes on (weak fairness of each
`RotationStep(p)`, `ServerStep(p)`, `WorkerStep(p)`): Python code that runs, or
dies, which is a step too. PostgreSQL queues waiters for a row lock, so a
rotation that waits for one gets it in the end even if servers keep taking it:
strong fairness of `SelectForUpdate`. A new request, a new status and a crash are
never forced. The cronjob is started again and again (weak fairness of
`CronStep`, and of `StartCron` in `QuotaPeriods`, where its death is left out: a command
that dies every time never catches up). `PeriodsCatchUp` speaks of the end, when time and
runs stand still; how far behind a row may be before that is up to how often the cronjob
runs.

## What is proved

All for any sets of rows, processes, secrets, workflows and users, from the named
assumptions on the constants alone (disjointness of processes and of tables,
null values outside the sets they extend, finitely many workflows where
they are summed).

* `KeyRotationProofs`: `TypeCorrect`, `NoLostSecret`, `Completeness`,
  `CleanFailure`, `DigestCorrect`, `Agreement`, and `Refinement`
  (`Spec => StoreSpec`). All follow from the inductive invariant `IInv`.
  Its parts, proved inductive one lemma each: `LocksOK` (a staged write is under a lock of its
  transaction), `KeysOK` (the old key is in force only while a row is being read
  with it, so nothing staged is under it), `ReadsOK` (a plaintext read under a lock
  is still what the row holds), `CoverageOK` (a row that is not under the new
  key is still to visit, being visited, or staged), `DigestsOK` and `FreshOK`.
  `RotationKeepsSecrets` is not inductive without the locks, `RotationComplete`
  not without the coverage, and the refinement needs both and freshness.
* `SecretStore`: `Resurrection` and `SecretsUnshared` about the abstract
  store, which by `Refinement` hold of the system.
* `WorkflowStatusProofs`: `StatusTypeCorrect`, `RulesBeforeStatus`,
  `TimeBeforeStatus`. `RulesActive` and `Timestamped` speak of committed
  statuses only; the invariant `ListenerOK` adds what each worker has committed by
  the time it is at each step. `QuotasTypeCorrect` is about the quota rows. A sum over
  rows is a number by induction on the number of rows, done by hand on its recursive
  function (`SumsExist`, `SumsUnique`, `TotalIsNat`): the sums of n rows extend to those
  of n + 1, and of the numbers for which something fails there would be a least. `PlanOK`
  adds that a process that reads or writes a row has a kind of quota left.
* `QuotaPeriodsProofs`: `PeriodsTyped`, `WindowsAgree`, `ResourcesInitialised`,
  `WindowsMoveOn`, for any lengths of months. `StartsAgree` is not inductive alone: an
  update stores what it has computed from an older row, and `init-default-period` what it
  computed some time ago, so `PeriodInv` adds that every start an update holds
  (`UpdatersOK`), or that command (`BackfillOK`), is itself counted from the creation of the
  account and not in the future, and that no account is created in the future
  (`AccountsOK`). Both also say that a computed start was that of the window open by the
  clock it was computed with (`OpenAt`): a start that is older than the one it overwrites
  was therefore computed before the latter had opened, which is `WindowsMoveOn`. They rest on the arithmetic of clamped months: adding a period to the
  k-th window gives the next one (`NextStart`), windows are ordered as their indices
  (`Multiples`), and the loop ends in the latest window before its clock
  (`CurrentIsLatest`).
* `MigrationsProofs`: `Typed` and `NoSecretLost`, for any rows, targets and writes. The
  invariant `MigrationInv` adds to `SecretsKept` that what a conversion has fetched and
  not yet converted is what the row holds, unless it was raced (`FetchedCurrent`).
  About the nineteen revisions of `Chain`: `ServersRead`, `WebhookNotRaced`,
  `OneCheckLeft`, `NoHalfIdentity`, `EveryRestartInPlace`, `EveryJobBelongs`,
  `NoUnknownStatus`, for any rows, any number of restarts, any targets, writes and check
  names shipped earlier. The properties speak of the committed database, but a statement
  changes the transaction's (`db`), and only a commit makes the one the other.
  `ChainInv` therefore says of both what the stamp of each promises, and of `db` inside
  a script what the statements so far have made true (`Past(dir, rev, n)`: behind the
  n-th statement). Servers write between two statements to both, so that each such fact
  needs the lock that keeps them away until the commit, or the check that refuses their
  row: the lock of the first statement of `8ae7b67c2d41` (`WebhookLocked`); a check, or
  the table lock of the statement that creates it (`IdentitiesInv`); the table lock of a
  deletion whose foreign key is not there yet (`JobsInv`); the lock on the rules in a
  downgrade (`PendingInv`). `RunsInv` has the three encodings of a run's number,
  `10n+k-1` (`Tenths`), that over ten (`Halves`) and n.k (`Pairs`), and where
  `b85c3e601de4` passes from one to the next. `ReadableInv` says with which cipher each
  row is readable at each statement (`Engine`), the rows that a conversion has fetched
  and not yet written excepted, and that a conversion only runs while its table is
  marked as read. `UpScripts` and `DownScripts` are the facts about the data of
  `Revisions` that all of this rests on: which statement of which script rewrites what.
  All parts of `ChainInv` were checked by TLC as invariants of the `migrations` instance
  too.
* `UpgradeProofs`: `UpgradesFailForTheirRows`, from any databases and names of checks
  shipped earlier, through any upgrades and downgrades. Statements fail for objects that
  are missing or exist already, for equal values under a unique constraint, and for what
  they ask of the rows; the theorem excludes the first two. `UpgradeInv` adds four parts
  to `ChainInv`. `CatalogInv` says of every schema object when it is there: `Born` and
  `Dies` give the statements of the upgrades that add it and take it away, `Leaves` and
  `Returns` those of the downgrades, `Is` and `IsDown` what follows for each position in
  a script; `UpChanges` and `DownChanges` compare that with the data of `Revisions`
  statement by statement. `AbsentInv` is about the checks, whose names vary: the name
  that a revision gives one is free until then. `DigestInv` follows the digests of
  webhook secrets through `8ae7b67c2d41`, where the lock on `user_` keeps servers from
  writing between their conversion and the check; `SecretsInv` says that the secrets of
  different rows differ, in the two databases and among the fetched ones, and that a
  fetched one is under AES-CBC unless raced. What remains are the rows: `UpAsks` lists
  what the upgrades ask of them, and `FailsExcused` goes through the kinds of
  statements. These parts, too, were checked by TLC first.
* `RetentionRulesProofs`: `RetentionTypeCorrect`, `RestartsAreWhole`,
  `RestartsInactivate`. The inductive invariant `Inv` adds that a restart being
  created is nowhere else (`FreshIsNew`), that what a session holds is in the
  database or flushed by itself (`PickedExist`), that the query of a restart saw what it
  had staged (`StagedSeen`), and which rules a restart picked (`RestartPicked`).
* `RunNumbersProofs`: `RunsTypeCorrect`, `RunsHaveNoGaps`, `ClashesAreDeserved`,
  `NumbersAreOrdered`, `FullNamesFind`, `SharesEndAtOnce`. The inductive invariant
  `Inv` adds the uniqueness of numbers, committed and inserted ones alike
  (`NumbersUnique`), and that the number a client holds continues one that is
  committed (`RowsGrounded`). That `Latest` exists for any set of runs follows
  from the well-foundedness of `<` on the numbers below a bound.

Only model-checked: the three liveness properties, `RotationEnds`, `QuotasCatchUp` and
`PeriodsCatchUp`, since liveness under fairness is out of the prover's reach. Every
invariant and every action property that a run checks is stated by a theorem.

The bounds `MaxMajor`, `MaxMinor`, `MaxHour` and `MaxShares` limit the guards of
`RunNumbers`; the proofs take them to be any natural numbers.

## Disagreements found

* A clash on a quota row is logged with "Continuing...", yet the session is left
  unusable and the change of status is lost (`status_lost`).
* The CPU time of a stopped workflow is taken from a stale `run_finished_at`
  (`stopped_cpu`).
* The check of `update_workspace_retention_rules` does not hold of what is
  committed: a restart and the cronjob that load the same active rule both pass it,
  and the rule goes from inactive to pending (`retention_race`).
* The lookup by name and run number takes them for a key, although `owner_id` is
  part of it: with shared workflows two can match, and the lookup raises
  (`shared_number`).
* The downgrade of `06dbbeef6d9b` drops a check by the doubled prefix under which its own
  upgrade created it; once `3f6c0d2a1b7e` has repaired that name, no downgrade gets past
  that revision (`downgrade`), although a test says that every name a downgrade drops
  must exist.

Noted without a run:

* The docstring of `_get_workflow_with_uuid_or_name` lets a name have dots and the last
  part be the run number, but the code cuts at the first dot; and its message for an
  unknown restart (`name.1.2`) cannot be built, since `int("1.2")` raises a `ValueError`
  of its own.
* The help of `migrate-secret-key` (`cli.py:64-67`) says that a secret already under the
  new key makes it fail loudly; the code skips it, as the docstring of the function says.
* The comment on `WORKFLOW_TERMINATION_QUOTA_UPDATE_POLICY` in `config.py` says that all
  quotas are calculated when it is not specified; not specified, it is the empty list.
* A comment in `update_users_cpu_quota` says that every account has a row of
  `user_resource`; one created before the default resources has none, and the update of
  the disk quotas then raises before any CPU quota is updated (`Healthy`).
* The naming convention applies to the revisions before `2461610e9698` too when they are
  run today from an empty database, while that revision renames constraints from the
  names of the time before; and the downgrade of `c912d4f1e1cc` leaves its enum types
  behind.

## Not modelled

* Increments of the disk quota by `bytes_to_sum`, and workspaces shared by restarts: they
  change what is recorded between two recalculations, by callers in
  reana-workflow-controller.
* Quota limits, quota health, scheduling priority: functions of numbers read from the
  database, rounded as floating point, without a state of their own.
* The seven revisions before `b92fe567be5b`, which create the tables the others start from.
* `Workflow(run_number=X)` without `restart`: nothing in the repository, its tests
  included, constructs an original run with a number of the caller's choice.
* Lookup by UUID, empty and non-ASCII names, and names that look like numbers.
* The audit log of retention rules outside of the migrations; jobs, job cache and
  interactive sessions outside of them (one listener stamps a time when the status of a
  job changes); tables without behaviour, configuration, engine and sessions, fixtures,
  the pass-through wrappers of alembic.

## Possible next steps

1. A ledger of increments and recalculations for shared workspaces.
2. The composition of `RetentionRules` with the status listener, and the audit log.
