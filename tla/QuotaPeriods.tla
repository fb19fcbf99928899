---------------------------- MODULE QuotaPeriods ----------------------------
(***************************************************************************)
(* CPU quotas with a period: who has a row for them at all (the default    *)
(* resources that deployments create, the rows of a new account, "reana-db *)
(* quota init-default-period") and update_users_cpu_quota, which moves the *)
(* window of a row on and accounts the runs inside it. The updates that    *)
(* follow the end of a run and the periodic one run side by side; a row is *)
(* read in one step, the clock in another, and written in a later one.     *)
(*                                                                         *)
(* A date is <<month, day>>, months counted on from the first one, times   *)
(* of day left out. CPU time is counted in days.                           *)
(***************************************************************************)
EXTENDS Integers, FiniteSets

CONSTANTS
  Users,
  Workers,      \* processes that update the quota of the owner of a run
  Cron,         \* "reana-db quota resource-usage-update"
  Deployers,    \* deployments that create the default resources
  Length,       \* the number of days of each month
  Period,       \* DEFAULT_QUOTA_CPU_PERIOD_RESET_MONTHS, where it is set
  MaxMonth,     \* bound: time ends with this month
  MaxRuns,      \* bound: runs of a user, no two of them on the same days
  NoDate,       \* a date that is NULL
  Nobody

Updaters == Workers \cup {Cron}

ASSUME ProcessAssumption == Cron \notin Workers /\ Nobody \notin Users
ASSUME CalendarAssumption ==
  /\ Period \in Nat \ {0} /\ MaxMonth \in Nat /\ MaxRuns \in Nat
  /\ Length \in [0..(MaxMonth + Period) -> 1..31]
  /\ NoDate \notin Nat \X Nat

VARIABLES
  now,
  configured,   \* the configured period, 0 when there is none
  resources,    \* the rows of resource
  account,      \* per user: how far it is, user_.created, kinds of its rows
  cpu,          \* per user: the row of user_resource for the CPU
  finished,     \* per user: first day and end of its terminated runs
  deployer,     \* per deployment: where it is, the resources it has read
  chosen,       \* the rows init-default-period has selected
  assigned,     \* and the window it has given a row, with the clock it looked at
  updater       \* per update: where it is, and what it has read

deployment == <<configured, resources, deployer>>
backfill   == <<chosen, assigned>>
accounts   == <<account, backfill>>
vars == <<now, deployment, accounts, cpu, finished, updater>>

(***************************************************************************)
(* The calendar                                                            *)
(***************************************************************************)
Days  == {t \in (0..MaxMonth) \X (1..31) : t[2] <= Length[t[1]]}

Before(a, b) == a[1] < b[1] \/ (a[1] = b[1] /\ a[2] < b[2])

_add_months(t) ==
  LET m == t[1] + Period
  IN <<m, IF t[2] <= Length[m] THEN t[2] ELSE Length[m]>>

\* The k-th window after r: k periods on, in the day of r or, if a month on
\* the way is shorter, on the last day of the shortest.
Window(x, r, k) ==
  /\ x[1] = r[1] + k * Period
  /\ x[2] <= r[2]
  /\ \A j \in 1..k : x[2] <= Length[r[1] + j * Period]
  /\ x[2] = r[2] \/ \E j \in 1..k : x[2] = Length[r[1] + j * Period]

\* What get_current_quota_period_start_at returns for the reference r.
Starts(x, r) == \E k \in 0..(MaxMonth + Period) : Window(x, r, k)
IsCurrent(x, r) ==
  Starts(x, r) /\ ~ Before(now, x) /\ Before(now, _add_months(x))

Later(a, b) == IF Before(a, b) THEN b ELSE a

\* Mutated: a run is accounted from its start, whatever the window.
Accounted_Lifetime(runs, from) ==
  Cardinality({c \in runs \X Days :
    ~ Before(c[2], c[1][1]) /\ Before(c[2], c[1][2])})

\* The days of the runs, of one that started before the window from there on.
Accounted(runs, from) ==
  Cardinality({c \in runs \X Days :
    ~ Before(c[2], Later(c[1][1], from)) /\ Before(c[2], c[1][2])})

Always == <<0, 1>>

(***************************************************************************)
(* Resources and accounts                                                  *)
(***************************************************************************)
DEFAULT_QUOTA_RESOURCES == {"cpu", "disk"}
NoRow == [months |-> 0, start |-> NoDate, used |-> 0]

\* Mutated: any row means that the resources have been created.
ReadResources_Any(d) ==
  /\ deployer[d].pc = "read"
  /\ deployer' = [deployer EXCEPT ![d] =
       IF resources # {}
       THEN [pc |-> "ok", existing |-> {}]
       ELSE [pc |-> "insert", existing |-> resources]]
  /\ UNCHANGED <<now, configured, resources, accounts, cpu, finished, updater>>

\* initialise_default_resources: what is missing is looked up ...
ReadResources(d) ==
  /\ deployer[d].pc = "read"
  /\ deployer' = [deployer EXCEPT ![d] =
       IF DEFAULT_QUOTA_RESOURCES \subseteq resources
       THEN [pc |-> "ok", existing |-> {}]
       ELSE [pc |-> "insert", existing |-> resources]]
  /\ UNCHANGED <<now, configured, resources, accounts, cpu, finished, updater>>

\* ... and inserted in one transaction, unless another deployment has done so:
\* then it is rolled back.
InsertResources(d) ==
  LET missing == DEFAULT_QUOTA_RESOURCES \ deployer[d].existing
      clash   == missing \cap resources # {}
  IN /\ deployer[d].pc = "insert"
     /\ resources' = IF clash THEN resources ELSE resources \cup missing
     /\ deployer' = [deployer EXCEPT ![d] =
          [pc |-> IF clash THEN "recheck" ELSE "ok", existing |-> {}]]
     /\ UNCHANGED <<now, configured, accounts, cpu, finished, updater>>

\* The other deployment must have created all of them.
RecheckResources(d) ==
  /\ deployer[d].pc = "recheck"
  /\ deployer' = [deployer EXCEPT ![d].pc =
       IF DEFAULT_QUOTA_RESOURCES \subseteq resources THEN "ok" ELSE "raised"]
  /\ UNCHANGED <<now, configured, resources, accounts, cpu, finished, updater>>

\* The deployment is configured to reset CPU quotas.
Configure ==
  /\ configured = 0
  /\ configured' = Period
  /\ UNCHANGED <<now, resources, deployer, accounts, cpu, finished, updater>>

\* Mutated: a window starts without a period.
CreateUser_StartAlways(u) ==
  /\ account[u].at = "none"
  /\ account' = [account EXCEPT ![u] =
       [at |-> "loading", created |-> now, kinds |-> resources]]
  /\ cpu' = [cpu EXCEPT ![u] = [months |-> configured, used |-> 0, start |-> now]]
  /\ UNCHANGED <<now, deployment, backfill, finished, updater>>

\* User.__init__: a row for every resource there is, the CPU's with the
\* configured period and a window that starts now.
CreateUser(u) ==
  /\ account[u].at = "none"
  /\ account' = [account EXCEPT ![u] =
       [at |-> "loading", created |-> now, kinds |-> resources]]
  /\ cpu' = [cpu EXCEPT ![u] =
       [months |-> configured, used |-> 0,
        start |-> IF configured = 0 THEN NoDate ELSE now]]
  /\ UNCHANGED <<now, deployment, backfill, finished, updater>>

\* The caller commits the account and its rows.
CommitUser(u) ==
  /\ account[u].at = "loading"
  /\ account' = [account EXCEPT ![u].at = "open"]
  /\ UNCHANGED <<now, deployment, backfill, cpu, finished, updater>>

Open(u) == account[u].at = "open"
HasCpu(u) == Open(u) /\ "cpu" \in account[u].kinds

\* An administrator gives one account a period, without a start.
SetPeriod(u) ==
  /\ HasCpu(u) /\ cpu[u].months = 0
  /\ cpu' = [cpu EXCEPT ![u].months = Period]
  /\ UNCHANGED <<now, deployment, accounts, finished, updater>>

NoWindow   == [start |-> NoDate, at |-> NoDate]
Unassigned == [u \in Users |-> NoWindow]

\* init-default-period: the rows without a period ...
SelectRows ==
  /\ configured # 0 /\ "cpu" \in resources
  /\ chosen = {}
  /\ chosen' = {u \in Users : HasCpu(u) /\ cpu[u].months = 0}
  /\ UNCHANGED <<now, deployment, account, assigned, cpu, finished, updater>>

\* The operator does not confirm, or the command dies before it commits.
Abort ==
  /\ chosen # {}
  /\ chosen' = {}
  /\ assigned' = Unassigned
  /\ UNCHANGED <<now, deployment, account, cpu, finished, updater>>

\* Mutated: the period starts with the account, however long ago that is.
AssignWindow_Created(u) ==
  /\ u \in chosen /\ assigned[u] = NoWindow
  /\ assigned' = [assigned EXCEPT ![u] = [start |-> account[u].created, at |-> now]]
  /\ UNCHANGED <<now, deployment, account, chosen, cpu, finished, updater>>

\* Mutated: the period starts with the command.
AssignWindow_Today(u) ==
  /\ u \in chosen /\ assigned[u] = NoWindow
  /\ assigned' = [assigned EXCEPT ![u] = [start |-> now, at |-> now]]
  /\ UNCHANGED <<now, deployment, account, chosen, cpu, finished, updater>>

\* ... get one after the other, once the operator has confirmed, the window since
\* their account was created that is open when they are looked at ...
AssignWindow(u) ==
  /\ u \in chosen /\ assigned[u] = NoWindow
  /\ \E x \in Days :
       /\ IsCurrent(x, account[u].created)
       /\ assigned' = [assigned EXCEPT ![u] = [start |-> x, at |-> now]]
  /\ UNCHANGED <<now, deployment, account, chosen, cpu, finished, updater>>

\* ... and are committed together. What has become of the rows, or of the time,
\* since then is not looked at.
InitDefaultPeriod ==
  /\ chosen # {}
  /\ \A u \in chosen : assigned[u] # NoWindow
  /\ cpu' = [u \in Users |-> IF u \in chosen
       THEN [months |-> configured, start |-> assigned[u].start, used |-> cpu[u].used]
       ELSE cpu[u]]
  /\ chosen' = {}
  /\ assigned' = Unassigned
  /\ UNCHANGED <<now, deployment, account, finished, updater>>

(***************************************************************************)
(* update_users_cpu_quota                                                  *)
(***************************************************************************)
\* read: the row; at: the clock; store: the start to be stored, and storeAt the
\* clock it was computed by; start: of the window that is accounted.
Resting == [pc |-> "idle", todo |-> {}, user |-> Nobody, read |-> NoRow, at |-> NoDate,
            store |-> NoDate, storeAt |-> NoDate, start |-> NoDate, sum |-> 0]

\* A run of u terminates, and the worker goes on to the quota of its owner.
Finish(p, u, first) ==
  /\ updater[p].pc = "idle"
  /\ HasCpu(u)
  /\ Before(first, now) /\ ~ Before(first, account[u].created)
  /\ Cardinality(finished[u]) < MaxRuns /\ <<first, now>> \notin finished[u]
  /\ finished' = [finished EXCEPT ![u] = @ \cup {<<first, now>>}]
  /\ updater' = [updater EXCEPT ![p].pc = "next", ![p].todo = {u}]
  /\ UNCHANGED <<now, deployment, accounts, cpu>>

\* The rows of all users; the disk quotas before them end the command if a
\* resource, or a row of an account, is missing.
Healthy ==
  /\ DEFAULT_QUOTA_RESOURCES \subseteq resources
  /\ \A u \in Users : Open(u) => "disk" \in account[u].kinds

StartCron ==
  /\ updater[Cron].pc = "idle"
  /\ Healthy
  /\ {u \in Users : HasCpu(u)} # {}
  /\ updater' = [updater EXCEPT ![Cron].pc = "next",
                                ![Cron].todo = {u \in Users : HasCpu(u)}]
  /\ UNCHANGED <<now, deployment, accounts, cpu, finished>>

\* A row without a stored start refers to the creation of the account.
LoadRow(p, u) ==
  LET row  == cpu[u]
      from == IF row.start # NoDate THEN row.start ELSE account[u].created
  IN /\ updater[p].pc = "next"
     /\ u \in updater[p].todo
     /\ updater' = [updater EXCEPT ![p] =
          [Resting EXCEPT !.pc = IF row.months = 0 THEN "sum" ELSE "clock",
                          !.todo = updater[p].todo, !.user = u, !.read = row,
                          !.store = row.start,
                          !.start = IF row.months = 0 THEN NoDate ELSE from]]
     /\ UNCHANGED <<now, deployment, accounts, cpu, finished>>

\* _advance_user_cpu_quota_period_if_needed looks at the clock.
ReadClock(p) ==
  /\ updater[p].pc = "clock"
  /\ updater' = [updater EXCEPT ![p].pc = "advance", ![p].at = now]
  /\ UNCHANGED <<now, deployment, accounts, cpu, finished>>

\* The loop of get_current_quota_period_start_at.
Advance(p) ==
  /\ updater[p].pc \in {"advance", "again"}
  /\ ~ Before(updater[p].at, _add_months(updater[p].start))
  /\ updater' = [updater EXCEPT ![p].start = _add_months(@)]
  /\ UNCHANGED <<now, deployment, accounts, cpu, finished>>

\* _advance_user_cpu_quota_period_if_needed is done; the window to account is
\* computed once more, from the start it leaves and the clock as it is by then.
Settle(p) ==
  /\ updater[p].pc = "advance"
  /\ Before(updater[p].at, _add_months(updater[p].start))
  /\ updater' = [updater EXCEPT ![p].pc = "again", ![p].at = now,
                                ![p].store = updater[p].start,
                                ![p].storeAt = updater[p].at]
  /\ UNCHANGED <<now, deployment, accounts, cpu, finished>>

Moved(p) == updater[p].store # updater[p].read.start

\* The query of the runs. The session has no autoflush: a new start is not
\* written before the commit. Clock and window are forgotten.
SumRuns(p) ==
  LET me == updater[p]
  IN /\ \/ me.pc = "sum"
        \/ me.pc = "again" /\ Before(me.at, _add_months(me.start))
     /\ updater' = [updater EXCEPT ![p].pc = "commit",
          ![p].at = NoDate, ![p].start = NoDate,
          ![p].sum = Accounted(finished[me.user],
                               IF me.start = NoDate THEN Always ELSE me.start)]
     /\ UNCHANGED <<now, deployment, accounts, cpu, finished>>

\* What differs from what was read is written, over whatever the row holds by
\* now, and committed.
CommitRow(p) ==
  LET me == updater[p]
      u  == me.user
      rest == me.todo \ {u}
  IN /\ me.pc = "commit"
     /\ cpu' = [cpu EXCEPT ![u].start = IF Moved(p) THEN me.store ELSE @,
                           ![u].used = IF me.sum # me.read.used THEN me.sum ELSE @]
     /\ updater' = [updater EXCEPT ![p] =
          IF rest = {} THEN Resting ELSE [Resting EXCEPT !.pc = "next", !.todo = rest]]
     /\ UNCHANGED <<now, deployment, accounts, finished>>

\* The update fails or its process dies: the transaction is rolled back.
Crash(p) ==
  /\ updater[p].pc # "idle"
  /\ updater' = [updater EXCEPT ![p] = Resting]
  /\ UNCHANGED <<now, deployment, accounts, cpu, finished>>

\* Bound: deployments and the creation of accounts take less than a day.
Tick ==
  /\ \A d \in Deployers : deployer[d].pc \in {"ok", "raised"}
  /\ \A u \in Users : account[u].at # "loading"
  /\ now' = IF now[2] < Length[now[1]] THEN <<now[1], now[2] + 1>>
            ELSE <<now[1] + 1, 1>>
  /\ now' \in Days
  /\ UNCHANGED <<deployment, accounts, cpu, finished, updater>>

Init ==
  /\ now \in {t \in Days : t[1] = 0}
  /\ configured \in {0, Period}
  /\ resources \in SUBSET DEFAULT_QUOTA_RESOURCES
  /\ account = [u \in Users |-> [at |-> "none", created |-> NoDate, kinds |-> {}]]
  /\ cpu = [u \in Users |-> NoRow]
  /\ finished = [u \in Users |-> {}]
  /\ deployer = [d \in Deployers |-> [pc |-> "read", existing |-> {}]]
  /\ chosen = {}
  /\ assigned = Unassigned
  /\ updater = [p \in Updaters |-> Resting]

UpdaterStep(p) ==
  \/ \E u \in Users : LoadRow(p, u)
  \/ ReadClock(p) \/ Advance(p) \/ Settle(p) \/ SumRuns(p) \/ CommitRow(p)

Next ==
  \/ \E d \in Deployers : ReadResources(d) \/ InsertResources(d) \/ RecheckResources(d)
  \/ Configure
  \/ \E u \in Users :
       CreateUser(u) \/ CommitUser(u) \/ SetPeriod(u) \/ AssignWindow(u)
  \/ SelectRows \/ Abort \/ InitDefaultPeriod
  \/ \E p \in Workers : Crash(p) \/ \E u \in Users, t \in Days : Finish(p, u, t)
  \/ StartCron
  \/ \E p \in Updaters : UpdaterStep(p)
  \/ Tick

\* The cron job runs again and again, and an update that has started goes on or
\* dies.
Fairness ==
  /\ WF_vars(StartCron)
  /\ \A p \in Updaters : WF_vars(UpdaterStep(p))

Spec == Init /\ [][Next]_vars /\ Fairness

(***************************************************************************)
(* Properties                                                              *)
(***************************************************************************)
\* Without a period a row has no start.
Rows == {r \in [months : {0, Period}, start : Days \cup {NoDate}, used : Nat] :
           r.months = 0 => r.start = NoDate}

Updates == [pc : {"idle", "next", "clock", "advance", "again", "sum", "commit"},
            todo : SUBSET Users, user : Users \cup {Nobody}, read : Rows,
            at : Days \cup {NoDate}, store : Days \cup {NoDate},
            storeAt : Days \cup {NoDate}, start : Days \cup {NoDate}, sum : Nat]

TypeOK ==
  /\ now \in Days
  /\ configured \in {0, Period}
  /\ resources \subseteq DEFAULT_QUOTA_RESOURCES
  /\ account \in [Users -> [at : {"none", "loading", "open"},
                            created : Days \cup {NoDate},
                            kinds : SUBSET DEFAULT_QUOTA_RESOURCES]]
  /\ cpu \in [Users -> Rows]
  /\ finished \in [Users -> SUBSET (Days \X Days)]
  /\ deployer \in [Deployers -> [pc : {"read", "insert", "recheck", "ok", "raised"},
                                 existing : SUBSET DEFAULT_QUOTA_RESOURCES]]
  /\ chosen \subseteq Users
  /\ assigned \in [Users -> [start : Days \cup {NoDate}, at : Days \cup {NoDate}]]
  /\ updater \in [Updaters -> Updates]

\* However the windows of an account came to move (at its creation, by the
\* command, by updates that overwrite each other or skip several periods), they
\* are the windows counted from its creation, and none starts in the future
\* (_add_months, get_current_quota_period_start_at).
StartsAgree ==
  \A u \in Users : cpu[u].start # NoDate =>
    Starts(cpu[u].start, account[u].created) /\ ~ Before(now, cpu[u].start)

\* Deployments that race for the default resources, and find rows of earlier
\* ones: whoever reports success has left all of them behind, so that every
\* account created from then on has all its rows.
Initialised ==
  (\E d \in Deployers : deployer[d].pc = "ok") =>
    DEFAULT_QUOTA_RESOURCES \subseteq resources

\* A window moves back only beneath a process that was overtaken: an update, or
\* init-default-period, that commits the window it computed before the one it
\* overwrites had opened.
OnlyOvertakenMoveBack ==
  [][\A u \in Users :
       cpu[u].start # NoDate /\ Before(cpu'[u].start, cpu[u].start) =>
         \/ \E p \in Updaters : /\ updater[p].pc = "commit" /\ updater[p].user = u
                                /\ updater[p].store = cpu'[u].start
                                /\ Before(updater[p].storeAt, cpu[u].start)
         \/ /\ u \in chosen /\ assigned[u].start = cpu'[u].start
            /\ Before(assigned[u].at, cpu[u].start)]_vars

\* The days that the runs of u have been, those before a date left out.
Usage(u, from) ==
  Cardinality({c \in finished[u] \X Days :
    ~ Before(c[2], c[1][1]) /\ Before(c[2], c[1][2]) /\ ~ Before(c[2], from)})

\* Whatever updates overwrite for each other: once time and runs stand still,
\* every row has the window that is open, and the usage of that window.
PeriodsCatchUp ==
  <>[](Healthy => \A u \in Users : HasCpu(u) =>
         IF cpu[u].months = 0 THEN cpu[u].used = Usage(u, Always)
         ELSE /\ cpu[u].start # NoDate
              /\ IsCurrent(cpu[u].start, account[u].created)
              /\ cpu[u].used = Usage(u, cpu[u].start))
=============================================================================
