------------------------- MODULE QuotaPeriodsProofs -------------------------
(***************************************************************************)
(* Proofs about the windows of CPU quotas and the default resources, for   *)
(* any calendar, period, accounts, updates and deployments.                *)
(***************************************************************************)
EXTENDS QuotaPeriods, FiniteSetTheorems, TLAPS

Created(u) == account[u].at # "none"

\* A start that a row of u may get.
GoodStart(x, u) ==
  x \in Days /\ Starts(x, account[u].created) /\ ~ Before(now, x)

AccountsOK ==
  \A u \in Users :
    /\ Created(u) => account[u].created \in Days /\ ~ Before(now, account[u].created)
    /\ cpu[u].start # NoDate => Created(u)
    /\ u \in chosen => Created(u) /\ configured # 0

\* A window that was open by the clock `at`.
OpenAt(x, at) == at \in Days /\ Before(at, _add_months(x))

\* The windows that init-default-period has not committed yet.
BackfillOK ==
  \A u \in Users : assigned[u] # NoWindow =>
    /\ u \in chosen
    /\ GoodStart(assigned[u].start, u)
    /\ OpenAt(assigned[u].start, assigned[u].at)

Busy == {"clock", "advance", "again", "sum", "commit"}

\* What an update holds is about an account that exists; the window it computes
\* and the one it will store are windows of that account, which has a period, and
\* the one to store was open when it was computed.
UpdatersOK ==
  \A p \in Updaters :
    /\ \A u \in updater[p].todo : Created(u)
    /\ updater[p].pc \in Busy => updater[p].user \in updater[p].todo
    /\ updater[p].pc \in {"clock", "advance", "again"} =>
         /\ GoodStart(updater[p].start, updater[p].user)
         /\ cpu[updater[p].user].months # 0
    /\ updater[p].pc \in {"advance", "again"} =>
         updater[p].at \in Days /\ ~ Before(now, updater[p].at)
    /\ updater[p].store # NoDate =>
         /\ updater[p].pc \in Busy
         /\ GoodStart(updater[p].store, updater[p].user)
         /\ cpu[updater[p].user].months # 0
         /\ updater[p].pc \notin {"clock", "advance"} =>
              OpenAt(updater[p].store, updater[p].storeAt)
    /\ updater[p].store = NoDate => updater[p].read.start = NoDate

PeriodInv == TypeOK /\ StartsAgree /\ AccountsOK /\ BackfillOK /\ UpdatersOK

(***************************************************************************)
(* The calendar                                                            *)
(***************************************************************************)
LEMMA DayFields ==
  ASSUME NEW t \in Days
  PROVE  /\ t[1] \in 0..MaxMonth /\ t[2] \in 1..31 /\ t[1] \in Nat /\ t[2] \in Nat
         /\ t[1] <= MaxMonth /\ t = <<t[1], t[2]>>
<1>1. t[1] \in 0..MaxMonth /\ t[2] \in 1..31 /\ t = <<t[1], t[2]>>
  BY DEF Days
<1>2. MaxMonth \in Nat
  BY CalendarAssumption
<1>. QED BY <1>1, <1>2

LEMMA LengthType ==
  ASSUME NEW m \in 0..(MaxMonth + Period)
  PROVE  Length[m] \in 1..31
<1>1. Length \in [0..(MaxMonth + Period) -> 1..31]
  BY CalendarAssumption
<1>. QED BY <1>1

LEMMA DaysOrdered ==
  /\ NoDate \notin Days
  /\ \A a \in Days : ~ Before(a, a)
  /\ \A a, b, c \in Days : ~ Before(b, a) /\ ~ Before(c, b) => ~ Before(c, a)
<1>1. \A a \in Days : a[1] \in Nat /\ a[2] \in Nat
  BY DayFields
<1>2. NoDate \notin Days
  BY CalendarAssumption DEF Days
<1>. QED BY <1>1, <1>2 DEF Before

LEMMA FirstStart == ASSUME NEW r \in Days PROVE Starts(r, r)
<1>. USE CalendarAssumption
<1>1. r[1] \in Nat /\ r[2] \in Nat
  BY DayFields
<1>2. 0 \in 0..(MaxMonth + Period)
  OBVIOUS
<1>3. Window(r, r, 0)
  BY <1>1 DEF Window
<1>. QED BY <1>2, <1>3 DEF Starts

LEMMA Multiples ==
  ASSUME NEW k \in Nat
  PROVE  /\ (k + 1) * Period = k * Period + Period
         /\ k <= k * Period
         /\ k * Period \in Nat
<1>. USE CalendarAssumption
<1>1. (k + 1) * Period = k * Period + Period
  BY SMT
<1>2. k <= k * Period /\ k * Period \in Nat
  BY SMT
<1>. QED BY <1>1, <1>2

\* One more period leads from a window to the next one.
LEMMA NextStart ==
  ASSUME NEW r \in Days, NEW x \in Days, NEW at \in Days, Starts(x, r),
         ~ Before(at, _add_months(x))
  PROVE  _add_months(x) \in Days /\ Starts(_add_months(x), r)
<1>0. MaxMonth \in Nat /\ Period \in Nat /\ Period > 0
  BY CalendarAssumption
<1>. DEFINE m == x[1] + Period
            y == _add_months(x)
<1>1. PICK k \in 0..(MaxMonth + Period) : Window(x, r, k)
  BY DEF Starts
<1>2. /\ x[1] \in Nat /\ x[2] \in 1..31 /\ r[1] \in Nat /\ r[2] \in 1..31
      /\ at[1] \in 0..MaxMonth /\ at[2] \in 1..31 /\ x[1] <= MaxMonth
  BY DayFields
<1>3. m \in 0..(MaxMonth + Period) /\ Length[m] \in 1..31
  <2>1. m \in 0..(MaxMonth + Period)
    BY <1>0, <1>2
  <2>. QED BY <2>1, LengthType
<1>4. /\ y = <<m, IF x[2] <= Length[m] THEN x[2] ELSE Length[m]>>
      /\ y[1] = m
      /\ y[2] = IF x[2] <= Length[m] THEN x[2] ELSE Length[m]
  BY DEF _add_months
<1>5. m <= MaxMonth
  BY <1>0, <1>2, <1>3, <1>4 DEF Before
<1>6. y \in Days
  <2>. DEFINE d == IF x[2] <= Length[m] THEN x[2] ELSE Length[m]
  <2>1. m \in 0..MaxMonth /\ d \in 1..31 /\ d <= Length[m]
    BY <1>0, <1>2, <1>3, <1>5
  <2>2. y = <<m, d>>
    BY <1>4
  <2>. HIDE DEF m, d, y
  <2>. QED BY <2>1, <2>2 DEF Days
<1>7. /\ (k + 1) * Period = k * Period + Period /\ k * Period \in Nat
      /\ k + 1 <= (k + 1) * Period
  BY Multiples
<1>8. m = r[1] + (k + 1) * Period
  <2>1. x[1] = r[1] + k * Period
    BY <1>1 DEF Window
  <2>. QED BY <1>0, <1>2, <1>7, <2>1
<1>9. k + 1 \in 0..(MaxMonth + Period)
  <2>. DEFINE n == (k + 1) * Period
  <2>1. n \in Int /\ k + 1 <= n
    BY <1>0, <1>7
  <2>2. m = r[1] + n
    BY <1>8
  <2>3. m \in Int
    BY <1>3
  <2>. HIDE DEF n, m
  <2>. QED BY <1>0, <1>2, <1>5, <2>1, <2>2, <2>3
<1>10. \A j \in 1..(k + 1) : j \in 1..k \/ j = k + 1
  OBVIOUS
<1>11. \A j \in 1..k : r[1] + j * Period \in 0..(MaxMonth + Period)
  <2>. TAKE j \in 1..k
  <2>0. Period \in Nat
    BY <1>0
  <2>1. k * Period = j * Period + (k - j) * Period /\ k - j \in Nat /\ j \in Nat
    BY <2>0, SMT
  <2>2. j * Period \in Nat /\ (k - j) * Period \in Nat
    BY <2>1, Multiples
  <2>3. x[1] = r[1] + k * Period
    BY <1>1 DEF Window
  <2>. QED BY <1>0, <1>2, <2>1, <2>2, <2>3
<1>12. \A j \in 1..k : Length[r[1] + j * Period] \in 1..31
  BY <1>11, LengthType
<1>13. y[2] <= x[2] /\ y[2] <= Length[m] /\ (y[2] = x[2] \/ y[2] = Length[m])
  <2>1. x[2] \in Int /\ Length[m] \in Int
    BY <1>2, <1>3
  <2>. HIDE DEF m
  <2>. QED BY <1>4, <2>1
<1>14. \A j \in 1..(k + 1) : y[2] <= Length[r[1] + j * Period]
  <2>. TAKE j \in 1..(k + 1)
  <2>1. CASE j = k + 1
    BY <2>1, <1>8, <1>13
  <2>2. CASE j \in 1..k
    <3>1. x[2] <= Length[r[1] + j * Period]
      BY <1>1, <2>2 DEF Window
    <3>2. Length[r[1] + j * Period] \in 1..31
      BY <1>12, <2>2
    <3>3. y[2] \in Int
      BY <1>2, <1>3, <1>13
    <3>. QED BY <3>1, <3>2, <3>3, <1>2, <1>13
  <2>. QED BY <1>10, <2>1, <2>2
<1>15. y[2] = r[2] \/ \E j \in 1..(k + 1) : y[2] = Length[r[1] + j * Period]
  <2>1. CASE y[2] = Length[m]
    <3>1. k + 1 \in 1..(k + 1)
      OBVIOUS
    <3>. QED BY <2>1, <3>1, <1>8
  <2>2. CASE y[2] = x[2]
    <3>1. x[2] = r[2] \/ \E j \in 1..k : x[2] = Length[r[1] + j * Period]
      BY <1>1 DEF Window
    <3>2. \A j \in 1..k : j \in 1..(k + 1)
      OBVIOUS
    <3>. QED BY <2>2, <3>1, <3>2
  <2>. QED BY <1>13, <2>1, <2>2
<1>16. y[2] <= r[2]
  <2>1. x[2] <= r[2]
    BY <1>1 DEF Window
  <2>2. y[2] \in Int
    BY <1>2, <1>3, <1>13
  <2>. QED BY <2>1, <2>2, <1>2, <1>13
<1>17. Window(y, r, k + 1)
  BY <1>4, <1>8, <1>14, <1>15, <1>16 DEF Window
<1>. QED BY <1>6, <1>9, <1>17 DEF Starts

\* A window that is open is not before any that has started.
LEMMA CurrentIsLatest ==
  ASSUME NEW r \in Days, NEW x \in Days, NEW y \in Days, NEW n \in Days,
         Starts(x, r), Starts(y, r), ~ Before(n, x), Before(n, _add_months(y))
  PROVE  ~ Before(y, x)
<1>. SUFFICES ASSUME Before(y, x) PROVE FALSE
  OBVIOUS
<1>. DEFINE m == y[1] + Period
            d == IF y[2] <= Length[m] THEN y[2] ELSE Length[m]
<1>0. MaxMonth \in Nat /\ Period \in Nat /\ Period > 0
  BY CalendarAssumption
<1>1. PICK i \in 0..(MaxMonth + Period) : Window(x, r, i)
  BY DEF Starts
<1>2. PICK j \in 0..(MaxMonth + Period) : Window(y, r, j)
  BY DEF Starts
<1>3. /\ x[1] \in 0..MaxMonth /\ x[2] \in 1..31 /\ y[1] \in 0..MaxMonth /\ y[2] \in 1..31
      /\ n[1] \in Nat /\ n[2] \in Nat /\ r[1] \in Nat /\ r[2] \in Nat
  BY DayFields
<1>4. i \in Nat /\ j \in Nat
  OBVIOUS
<1>5. x[1] = r[1] + i * Period /\ y[1] = r[1] + j * Period
  BY <1>1, <1>2 DEF Window
<1>6. m \in 0..(MaxMonth + Period) /\ Length[m] \in 1..31
  <2>1. m \in 0..(MaxMonth + Period)
    BY <1>0, <1>3
  <2>. QED BY <2>1, LengthType
<1>7. _add_months(y) = <<m, d>>
  BY DEF _add_months
<1>8. Before(n, <<m, d>>)
  BY <1>7
<1>9. CASE i < j
  <2>1. j * Period = i * Period + (j - i) * Period /\ j - i \in Nat /\ j - i >= 1
    BY <1>0, <1>4, <1>9, SMT
  <2>2. i * Period \in Nat /\ (j - i) * Period \in Nat /\ j - i <= (j - i) * Period
    BY <1>4, <2>1, Multiples
  <2>3. x[1] < y[1]
    BY <1>3, <1>5, <2>1, <2>2
  <2>. QED BY <2>3, <1>3 DEF Before
<1>10. CASE i = j
  <2>1. x[1] = y[1]
    BY <1>5, <1>10
  <2>2. x[2] <= y[2]
    BY <1>1, <1>2, <1>10 DEF Window
  <2>. QED BY <2>1, <2>2, <1>3 DEF Before
<1>11. CASE i = j + 1
  <2>1. x[1] = m
    <3>1. i * Period = j * Period + Period /\ j * Period \in Nat
      BY <1>4, <1>11, Multiples
    <3>. QED BY <1>0, <1>3, <1>5, <3>1
  <2>2. d <= x[2]
    <3>1. d <= y[2] /\ d <= Length[m] /\ d \in Nat
      BY <1>3, <1>6
    <3>. HIDE DEF d
    <3>2. CASE x[2] = r[2]
      <4>1. y[2] <= r[2]
        BY <1>2 DEF Window
      <4>. QED BY <3>1, <3>2, <4>1, <1>3
    <3>3. ASSUME NEW l \in 1..i, x[2] = Length[r[1] + l * Period] PROVE d <= x[2]
      <4>1. CASE l = i
        <5>1. r[1] + l * Period = m
          BY <4>1, <2>1, <1>5
        <5>. QED BY <5>1, <3>1, <3>3
      <4>2. CASE l \in 1..j
        <5>1. y[2] <= x[2]
          BY <1>2, <3>3, <4>2 DEF Window
        <5>. QED BY <5>1, <3>1, <1>3
      <4>3. l = i \/ l \in 1..j
        BY <1>4, <1>11
      <4>. QED BY <4>1, <4>2, <4>3
    <3>. QED BY <3>2, <3>3, <1>1 DEF Window
  <2>3. d \in Nat
    BY <1>3, <1>6
  <2>. HIDE DEF d, m
  <2>. QED BY <2>1, <2>2, <2>3, <1>3, <1>8 DEF Before
<1>12. CASE i > j + 1
  <2>1. i * Period = (j + 1) * Period + (i - j - 1) * Period /\ i - j - 1 \in Nat
        /\ i - j - 1 >= 1
    BY <1>0, <1>4, <1>12, SMT
  <2>2. /\ (j + 1) * Period = j * Period + Period /\ j * Period \in Nat
        /\ (i - j - 1) * Period \in Nat /\ i - j - 1 <= (i - j - 1) * Period
    BY <1>4, <2>1, Multiples
  <2>3. m < x[1]
    BY <1>0, <1>3, <1>5, <2>1, <2>2
  <2>4. n[1] <= m
    <3>1. m \in Nat
      BY <1>6
    <3>. HIDE DEF m, d
    <3>. QED BY <3>1, <1>3, <1>8 DEF Before
  <2>. QED BY <2>3, <2>4, <1>3, <1>6 DEF Before
<1>. QED BY <1>4, <1>9, <1>10, <1>11, <1>12

LEMMA DaysFinite == IsFiniteSet(Days)
<1>1. 0 \in Int /\ MaxMonth \in Int /\ 1 \in Int /\ 31 \in Int
  BY CalendarAssumption
<1>3. IsFiniteSet(0..MaxMonth) /\ IsFiniteSet(1..31)
  BY <1>1, FS_Interval, Zenon
<1>2. IsFiniteSet((0..MaxMonth) \X (1..31))
  BY <1>3, FS_Product
<1>. QED BY <1>2, FS_Subset DEF Days

LEMMA AccountedType ==
  ASSUME NEW runs \in SUBSET (Days \X Days), NEW from
  PROVE  Accounted(runs, from) \in Nat
<1>1. IsFiniteSet(Days \X Days)
  BY DaysFinite, FS_Product
<1>2. IsFiniteSet(runs)
  BY <1>1, FS_Subset
<1>3. IsFiniteSet(runs \X Days)
  BY <1>2, DaysFinite, FS_Product
<1>4. {c \in runs \X Days : ~ Before(c[2], Later(c[1][1], from))
                            /\ Before(c[2], c[1][2])} \subseteq runs \X Days
  OBVIOUS
<1>. QED BY <1>3, <1>4, FS_Subset, FS_CardinalityType DEF Accounted

(***************************************************************************)
(* The invariant                                                           *)
(***************************************************************************)
LEMMA PeriodInit == Init => PeriodInv
<1>. SUFFICES ASSUME Init PROVE PeriodInv
  OBVIOUS
<1>. USE ProcessAssumption, CalendarAssumption DEF Init
<1>1. TypeOK
  BY DEF TypeOK, NoRow, NoWindow, Unassigned, Resting, Rows, Updates, Updaters
<1>2. StartsAgree /\ AccountsOK
  BY DEF StartsAgree, AccountsOK, NoRow, Created
<1>3. BackfillOK /\ UpdatersOK
  BY DEF BackfillOK, Unassigned, UpdatersOK, Resting, NoRow, Busy
<1>. QED BY <1>1, <1>2, <1>3 DEF PeriodInv

\* Deployments and the configuration leave accounts and updates alone.
LEMMA DeploymentInv ==
  ASSUME PeriodInv,
         \/ \E d \in Deployers :
              ReadResources(d) \/ InsertResources(d) \/ RecheckResources(d)
         \/ Configure
  PROVE  PeriodInv'
<1>1. UNCHANGED <<now, account, cpu, chosen, assigned, finished, updater>>
  BY DEF ReadResources, InsertResources, RecheckResources, Configure, accounts, backfill
<1>2. /\ configured' \in {0, Period}
      /\ resources' \subseteq DEFAULT_QUOTA_RESOURCES
      /\ deployer' \in [Deployers -> [pc : {"read", "insert", "recheck", "ok", "raised"},
                                     existing : SUBSET DEFAULT_QUOTA_RESOURCES]]
  <2>. USE DEF PeriodInv, TypeOK
  <2>1. CASE Configure
    BY <2>1 DEF Configure
  <2>2. ASSUME NEW d \in Deployers, ReadResources(d)
        PROVE  /\ UNCHANGED <<configured, resources>>
               /\ deployer' \in [Deployers ->
                    [pc : {"read", "insert", "recheck", "ok", "raised"},
                     existing : SUBSET DEFAULT_QUOTA_RESOURCES]]
    BY <2>2 DEF ReadResources
  <2>3. ASSUME NEW d \in Deployers, InsertResources(d)
        PROVE  /\ configured' = configured
               /\ resources' \subseteq DEFAULT_QUOTA_RESOURCES
               /\ deployer' \in [Deployers ->
                    [pc : {"read", "insert", "recheck", "ok", "raised"},
                     existing : SUBSET DEFAULT_QUOTA_RESOURCES]]
    BY <2>3 DEF InsertResources
  <2>4. ASSUME NEW d \in Deployers, RecheckResources(d)
        PROVE  /\ UNCHANGED <<configured, resources>>
               /\ deployer' \in [Deployers ->
                    [pc : {"read", "insert", "recheck", "ok", "raised"},
                     existing : SUBSET DEFAULT_QUOTA_RESOURCES]]
    BY <2>4 DEF RecheckResources
  <2>. QED BY <2>1, <2>2, <2>3, <2>4
<1>3. TypeOK'
  BY <1>1, <1>2 DEF PeriodInv, TypeOK
<1>4. StartsAgree'
  BY <1>1 DEF PeriodInv, StartsAgree
<1>5. AccountsOK'
  <2>1. configured # 0 => configured' # 0
    BY CalendarAssumption DEF ReadResources, InsertResources, RecheckResources, Configure
  <2>. QED BY <1>1, <2>1 DEF PeriodInv, AccountsOK, Created
<1>6. UpdatersOK'
  BY <1>1 DEF PeriodInv, UpdatersOK, Created, GoodStart, OpenAt
<1>7. BackfillOK'
  BY <1>1 DEF PeriodInv, BackfillOK, GoodStart, OpenAt
<1>. QED BY <1>3, <1>4, <1>5, <1>6, <1>7 DEF PeriodInv

\* A new account has no update under way, and its first window starts with it.
LEMMA CreateUserInv ==
  ASSUME PeriodInv, NEW u \in Users, CreateUser(u)
  PROVE  PeriodInv'
<1>. USE DEF CreateUser, deployment, backfill
<1>1. now \in Days /\ ~ Before(now, now) /\ Starts(now, now)
  BY DaysOrdered, FirstStart DEF PeriodInv, TypeOK
<1>2. TypeOK'
  BY CalendarAssumption, <1>1 DEF PeriodInv, TypeOK, Rows
<1>3. /\ account'[u].created = now /\ account'[u].at = "loading"
      /\ cpu'[u].start \in {NoDate, now}
      /\ \A v \in Users \ {u} : account'[v] = account[v] /\ cpu'[v] = cpu[v]
  BY DEF PeriodInv, TypeOK
<1>4. StartsAgree'
  BY <1>1, <1>3 DEF PeriodInv, StartsAgree
<1>5. AccountsOK'
  BY <1>1, <1>3 DEF PeriodInv, AccountsOK, Created
<1>6. UpdatersOK'
  <2>. SUFFICES ASSUME NEW p \in Updaters PROVE UpdatersOK!(p)'
    BY DEF UpdatersOK
  <2>1. updater' = updater /\ now' = now
    OBVIOUS
  <2>2. \A v \in updater[p].todo : v \in Users /\ v # u
    BY DEF PeriodInv, UpdatersOK, Created, TypeOK, Updates, CreateUser
  <2>3. updater[p].pc \in Busy => updater[p].user \in updater[p].todo
    BY DEF PeriodInv, UpdatersOK
  <2>. QED BY <1>3, <2>1, <2>2, <2>3
           DEF PeriodInv, UpdatersOK, Created, GoodStart, OpenAt, Busy
<1>7. BackfillOK'
  <2>1. \A v \in Users : assigned[v] # NoWindow => v # u
    BY DEF PeriodInv, BackfillOK, AccountsOK, Created
  <2>. QED BY <1>3, <2>1 DEF PeriodInv, BackfillOK, GoodStart, OpenAt
<1>. QED BY <1>2, <1>4, <1>5, <1>6, <1>7 DEF PeriodInv

LEMMA CommitUserInv ==
  ASSUME PeriodInv, NEW u \in Users, CommitUser(u)
  PROVE  PeriodInv'
<1>. USE DEF CommitUser, deployment, backfill
<1>1. TypeOK'
  BY DEF PeriodInv, TypeOK
<1>2. /\ \A v \in Users : account'[v].created = account[v].created
      /\ \A v \in Users : Created(v)' <=> Created(v)
  BY DEF PeriodInv, TypeOK, Created
<1>3. StartsAgree'
  BY <1>2 DEF PeriodInv, StartsAgree
<1>4. AccountsOK'
  BY <1>2 DEF PeriodInv, AccountsOK
<1>5. UpdatersOK' /\ BackfillOK'
  BY <1>2 DEF PeriodInv, UpdatersOK, BackfillOK, TypeOK, Updates, GoodStart, OpenAt
<1>. QED BY <1>1, <1>3, <1>4, <1>5 DEF PeriodInv

LEMMA SetPeriodInv ==
  ASSUME PeriodInv, NEW u \in Users, SetPeriod(u)
  PROVE  PeriodInv'
<1>. USE DEF SetPeriod, deployment, accounts, backfill
<1>0. Period # 0 /\ Period \in Nat
  BY CalendarAssumption
<1>1. TypeOK'
  BY <1>0 DEF PeriodInv, TypeOK, Rows
<1>2. \A v \in Users : /\ cpu'[v].start = cpu[v].start
                       /\ cpu[v].months # 0 => cpu'[v].months # 0
  BY <1>0 DEF PeriodInv, TypeOK, Rows
<1>3. StartsAgree'
  BY <1>2 DEF PeriodInv, StartsAgree
<1>4. AccountsOK'
  BY <1>2 DEF PeriodInv, AccountsOK, Created
<1>5. UpdatersOK' /\ BackfillOK'
  BY <1>2 DEF PeriodInv, UpdatersOK, BackfillOK, TypeOK, Updates, Created, GoodStart,
              OpenAt
<1>. QED BY <1>1, <1>3, <1>4, <1>5 DEF PeriodInv

\* What init-default-period has not committed touches no row.
LEMMA BackfillFrame ==
  ASSUME PeriodInv,
         UNCHANGED <<now, configured, resources, deployer, account, cpu, finished, updater>>,
         chosen' \subseteq Users,
         assigned' \in [Users -> [start : Days \cup {NoDate}, at : Days \cup {NoDate}]],
         \A u \in chosen' : Created(u) /\ configured # 0,
         \A u \in Users : assigned'[u] # NoWindow =>
           /\ u \in chosen' /\ GoodStart(assigned'[u].start, u)
           /\ OpenAt(assigned'[u].start, assigned'[u].at)
  PROVE  PeriodInv'
<1>1. TypeOK'
  BY DEF PeriodInv, TypeOK
<1>2. StartsAgree'
  BY DEF PeriodInv, StartsAgree
<1>3. AccountsOK'
  BY DEF PeriodInv, AccountsOK, Created
<1>4. BackfillOK'
  BY DEF BackfillOK, GoodStart, OpenAt
<1>5. UpdatersOK'
  BY DEF PeriodInv, UpdatersOK, Created, GoodStart, OpenAt
<1>. QED BY <1>1, <1>2, <1>3, <1>4, <1>5 DEF PeriodInv

LEMMA UnassignedType ==
  /\ Unassigned \in [Users -> [start : Days \cup {NoDate}, at : Days \cup {NoDate}]]
  /\ \A u \in Users : Unassigned[u] = NoWindow
BY DEF Unassigned, NoWindow

LEMMA SelectInv ==
  ASSUME PeriodInv, SelectRows \/ Abort
  PROVE  PeriodInv'
<1>1. CASE Abort
  BY <1>1, UnassignedType, BackfillFrame DEF Abort, deployment
<1>2. CASE SelectRows
  <2>1. /\ UNCHANGED <<now, configured, resources, deployer, account, cpu, finished,
                       updater, assigned>>
        /\ chosen = {} /\ configured # 0 /\ chosen' = {u \in Users : HasCpu(u) /\ cpu[u].months = 0}
    BY <1>2 DEF SelectRows, deployment
  <2>2. \A u \in chosen' : u \in Users /\ Created(u)
    BY <2>1 DEF HasCpu, Open, Created
  <2>3. /\ \A u \in Users : assigned[u] = NoWindow
        /\ assigned \in [Users -> [start : Days \cup {NoDate}, at : Days \cup {NoDate}]]
    BY <2>1 DEF PeriodInv, BackfillOK, TypeOK
  <2>. QED BY <2>1, <2>2, <2>3, BackfillFrame
<1>. QED BY <1>1, <1>2

LEMMA AssignInv ==
  ASSUME PeriodInv, NEW u \in Users, AssignWindow(u)
  PROVE  PeriodInv'
<1>1. PICK x \in Days :
        /\ IsCurrent(x, account[u].created)
        /\ assigned' = [assigned EXCEPT ![u] = [start |-> x, at |-> now]]
  BY DEF AssignWindow
<1>2. /\ UNCHANGED <<now, configured, resources, deployer, account, cpu, finished,
                     updater, chosen>>
      /\ u \in chosen
  BY DEF AssignWindow, deployment
<1>3. now \in Days /\ chosen \subseteq Users
      /\ assigned \in [Users -> [start : Days \cup {NoDate}, at : Days \cup {NoDate}]]
  BY DEF PeriodInv, TypeOK
<1>4. /\ assigned'[u] = [start |-> x, at |-> now]
      /\ \A v \in Users \ {u} : assigned'[v] = assigned[v]
      /\ assigned' \in [Users -> [start : Days \cup {NoDate}, at : Days \cup {NoDate}]]
  BY <1>1, <1>3
<1>5. GoodStart(x, u) /\ OpenAt(x, now)
  BY <1>1, <1>3 DEF IsCurrent, GoodStart, OpenAt
<1>6. \A v \in chosen : Created(v) /\ configured # 0
  BY <1>3 DEF PeriodInv, AccountsOK
<1>7. \A v \in Users : assigned'[v] # NoWindow =>
        /\ v \in chosen /\ GoodStart(assigned'[v].start, v)
        /\ OpenAt(assigned'[v].start, assigned'[v].at)
  <2>. TAKE v \in Users
  <2>1. CASE v = u
    BY <2>1, <1>2, <1>4, <1>5
  <2>2. CASE v # u
    BY <2>2, <1>4 DEF PeriodInv, BackfillOK
  <2>. QED BY <2>1, <2>2
<1>. QED BY <1>2, <1>3, <1>4, <1>6, <1>7, BackfillFrame

LEMMA InitDefaultInv ==
  ASSUME PeriodInv, InitDefaultPeriod
  PROVE  PeriodInv'
<1>0. /\ UNCHANGED <<now, configured, resources, deployer, account, finished, updater>>
      /\ chosen' = {} /\ assigned' = Unassigned
      /\ cpu' = [u \in Users |-> IF u \in chosen
           THEN [months |-> configured, start |-> assigned[u].start, used |-> cpu[u].used]
           ELSE cpu[u]]
  BY DEF InitDefaultPeriod, deployment
<1>2. /\ chosen \subseteq Users /\ chosen # {}
      /\ \A u \in chosen : Created(u) /\ configured # 0 /\ assigned[u] # NoWindow
  BY DEF InitDefaultPeriod, PeriodInv, TypeOK, AccountsOK
<1>3. configured = Period /\ Period # 0
  BY <1>2, CalendarAssumption DEF PeriodInv, TypeOK
<1>4. \A u \in chosen : GoodStart(assigned[u].start, u)
  BY <1>2 DEF PeriodInv, BackfillOK
<1>5. /\ \A u \in chosen : cpu'[u] = [months |-> Period, start |-> assigned[u].start,
                                       used |-> cpu[u].used]
      /\ \A u \in Users : u \notin chosen => cpu'[u] = cpu[u]
  BY <1>0, <1>2, <1>3
<1>6. \A u \in chosen : cpu'[u].months = Period /\ cpu'[u].start = assigned[u].start
  <2>. TAKE u \in chosen
  <2>1. cpu'[u] = [months |-> Period, start |-> assigned[u].start, used |-> cpu[u].used]
    BY <1>5
  <2>. QED BY <2>1
<1>7. TypeOK'
  <2>1. \A u \in Users : cpu[u] \in Rows
    BY DEF PeriodInv, TypeOK
  <2>2. \A u \in Users : cpu'[u] \in Rows
    <3>. TAKE u \in Users
    <3>1. CASE u \in chosen
      <4>1. cpu[u].used \in Nat /\ assigned[u].start \in Days
        BY <2>1, <3>1, <1>4 DEF Rows, GoodStart
      <4>2. [months |-> Period, start |-> assigned[u].start, used |-> cpu[u].used] \in Rows
        BY <1>3, <4>1 DEF Rows
      <4>. QED BY <3>1, <4>2, <1>5
    <3>2. CASE u \notin chosen
      BY <3>2, <1>5, <2>1
    <3>. QED BY <3>1, <3>2
  <2>3. cpu' \in [Users -> Rows]
    BY <1>0, <2>2
  <2>. QED BY <1>0, <2>3, UnassignedType DEF PeriodInv, TypeOK
<1>8. StartsAgree'
  <2>. SUFFICES ASSUME NEW u \in Users, cpu'[u].start # NoDate
                PROVE  /\ Starts(cpu'[u].start, account[u].created)
                       /\ ~ Before(now, cpu'[u].start)
    BY <1>0 DEF StartsAgree
  <2>1. CASE u \in chosen
    BY <2>1, <1>4, <1>6 DEF GoodStart
  <2>2. CASE u \notin chosen
    BY <2>2, <1>5 DEF PeriodInv, StartsAgree
  <2>. QED BY <2>1, <2>2
<1>9. AccountsOK' /\ BackfillOK'
  BY <1>0, <1>2, <1>5, UnassignedType DEF PeriodInv, AccountsOK, BackfillOK, Created
<1>10. UpdatersOK'
  <2>1. \A u \in Users : cpu[u].months # 0 => cpu'[u].months # 0
    BY <1>3, <1>5, <1>6
  <2>. SUFFICES ASSUME NEW p \in Updaters PROVE UpdatersOK!(p)'
    BY DEF UpdatersOK
  <2>2. UpdatersOK!(p)
    BY DEF PeriodInv, UpdatersOK
  <2>3. \A u \in updater[p].todo : u \in Users
    BY DEF PeriodInv, TypeOK, Updates
  <2>. QED BY <1>0, <2>1, <2>2, <2>3 DEF Created, GoodStart, OpenAt, Busy
<1>. QED BY <1>7, <1>8, <1>9, <1>10 DEF PeriodInv

(***************************************************************************)
(* Updates                                                                 *)
(***************************************************************************)
\* A step that changes one update, and rows only within their type, keeps the
\* invariant if what the update then holds is right.
LEMMA UpdaterFrame ==
  ASSUME PeriodInv,
         UNCHANGED <<now, configured, resources, deployer, account, chosen, assigned, cpu>>,
         NEW p \in Updaters, NEW me,
         updater' = [updater EXCEPT ![p] = me],
         finished' \in [Users -> SUBSET (Days \X Days)],
         me \in Updates,
         \A u \in me.todo : Created(u),
         me.pc \in Busy => me.user \in me.todo,
         me.pc \in {"clock", "advance", "again"} =>
           GoodStart(me.start, me.user) /\ cpu[me.user].months # 0,
         me.pc \in {"advance", "again"} => me.at \in Days /\ ~ Before(now, me.at),
         me.store # NoDate =>
           /\ me.pc \in Busy /\ GoodStart(me.store, me.user) /\ cpu[me.user].months # 0
           /\ me.pc \notin {"clock", "advance"} => OpenAt(me.store, me.storeAt),
         me.store = NoDate => me.read.start = NoDate
  PROVE  PeriodInv'
<1>1. TypeOK'
  BY DEF PeriodInv, TypeOK
<1>2. StartsAgree'
  BY DEF PeriodInv, StartsAgree
<1>3. AccountsOK'
  BY DEF PeriodInv, AccountsOK, Created
<1>4. UpdatersOK'
  <2>. SUFFICES ASSUME NEW q \in Updaters PROVE UpdatersOK!(q)'
    BY DEF UpdatersOK
  <2>1. CASE q = p
    <3>1. updater'[q] = me
      BY <2>1 DEF PeriodInv, TypeOK
    <3>. QED BY <3>1 DEF Created, GoodStart, OpenAt
  <2>2. CASE q # p
    <3>1. updater'[q] = updater[q]
      BY <2>2 DEF PeriodInv, TypeOK
    <3>2. UpdatersOK!(q)
      BY DEF PeriodInv, UpdatersOK
    <3>. QED BY <3>1, <3>2 DEF Created, GoodStart, OpenAt
  <2>. QED BY <2>1, <2>2
<1>5. BackfillOK'
  BY DEF PeriodInv, BackfillOK, GoodStart, OpenAt
<1>. QED BY <1>1, <1>2, <1>3, <1>4, <1>5 DEF PeriodInv

LEMMA UpdaterTypes ==
  ASSUME PeriodInv, NEW p \in Updaters
  PROVE  /\ updater[p] \in Updates
         /\ UpdatersOK!(p)
         /\ finished \in [Users -> SUBSET (Days \X Days)]
BY DEF PeriodInv, TypeOK, UpdatersOK

LEMMA RestingType ==
  /\ Resting.pc = "idle" /\ Resting.todo = {} /\ Resting.store = NoDate
  /\ Resting.read.start = NoDate
  /\ Resting \in Updates
<1>1. NoRow \in Rows
  BY CalendarAssumption DEF NoRow, Rows
<1>. QED BY <1>1 DEF Resting, Updates, NoRow

LEMMA FinishInv ==
  ASSUME PeriodInv, NEW p \in Workers, NEW u \in Users, NEW first \in Days,
         Finish(p, u, first)
  PROVE  PeriodInv'
<1>. DEFINE me == [updater[p] EXCEPT !.pc = "next", !.todo = {u}]
<1>0. p \in Updaters
  BY DEF Updaters
<1>1. /\ UNCHANGED <<now, configured, resources, deployer, account, chosen,
                     assigned, cpu>>
      /\ updater' = [updater EXCEPT ![p] = me]
      /\ updater[p].pc = "idle" /\ Created(u)
  BY <1>0, UpdaterTypes DEF Finish, deployment, accounts, backfill, HasCpu, Open, Created
<1>2. finished' \in [Users -> SUBSET (Days \X Days)]
  BY DEF Finish, PeriodInv, TypeOK
<1>3. /\ me \in Updates
      /\ me.pc = "next" /\ me.todo = {u} /\ me.store = updater[p].store
      /\ me.read = updater[p].read
  BY <1>0, UpdaterTypes DEF Updates
<1>4. me.store = NoDate
  BY <1>0, <1>1, <1>3, UpdaterTypes DEF Busy
<1>5. /\ me.pc \notin Busy /\ \A v \in me.todo : Created(v)
      /\ me.read.start = NoDate
  BY <1>0, <1>1, <1>3, <1>4, UpdaterTypes DEF Busy
<1>. HIDE DEF me
<1>. QED BY <1>0, <1>1, <1>2, <1>3, <1>4, <1>5, UpdaterFrame DEF Busy

LEMMA StartCronInv == ASSUME PeriodInv, StartCron PROVE PeriodInv'
<1>. DEFINE me == [updater[Cron] EXCEPT !.pc = "next", !.todo = {u \in Users : HasCpu(u)}]
<1>0. Cron \in Updaters
  BY DEF Updaters
<1>1. /\ UNCHANGED <<now, configured, resources, deployer, account, chosen,
                     assigned, cpu, finished>>
      /\ updater' = [updater EXCEPT ![Cron] = me]
      /\ updater[Cron].pc = "idle"
  BY <1>0, UpdaterTypes DEF StartCron, deployment, accounts, backfill
<1>3. /\ me \in Updates
      /\ me.pc = "next" /\ me.store = updater[Cron].store
      /\ me.read = updater[Cron].read
      /\ \A u \in me.todo : Created(u)
  BY <1>0, UpdaterTypes DEF Updates, HasCpu, Open, Created
<1>4. me.store = NoDate
  BY <1>0, <1>1, <1>3, UpdaterTypes DEF Busy
<1>. HIDE DEF me
<1>. QED BY <1>0, <1>1, <1>3, <1>4, UpdaterTypes, UpdaterFrame DEF Busy
LEMMA LoadRowInv ==
  ASSUME PeriodInv, NEW p \in Updaters, NEW u \in Users, LoadRow(p, u)
  PROVE  PeriodInv'
<1>. DEFINE from == IF cpu[u].start # NoDate THEN cpu[u].start ELSE account[u].created
<1>1. /\ UNCHANGED <<now, configured, resources, deployer, account, chosen,
                     assigned, cpu, finished>>
      /\ u \in updater[p].todo
  BY DEF LoadRow, deployment, accounts, backfill
<1>2. /\ cpu[u] \in Rows /\ now \in Days /\ ~ Before(now, now)
      /\ \A v \in updater[p].todo : Created(v)
      /\ updater[p].todo \in SUBSET Users
  BY <1>1, UpdaterTypes, DaysOrdered DEF PeriodInv, TypeOK, Updates
<1>3. GoodStart(from, u) /\ (cpu[u].start # NoDate => GoodStart(cpu[u].start, u))
  <2>1. CASE cpu[u].start # NoDate
    BY <2>1, <1>2 DEF GoodStart, PeriodInv, StartsAgree, Rows
  <2>2. CASE cpu[u].start = NoDate
    BY <2>2, <1>1, <1>2, FirstStart DEF GoodStart, PeriodInv, AccountsOK
  <2>. QED BY <2>1, <2>2
<1>. DEFINE me == [Resting EXCEPT !.pc = IF cpu[u].months = 0 THEN "sum" ELSE "clock",
                      !.todo = updater[p].todo, !.user = u, !.read = cpu[u],
                      !.store = cpu[u].start,
                      !.start = IF cpu[u].months = 0 THEN NoDate ELSE from]
<1>4. updater' = [updater EXCEPT ![p] = me]
  BY DEF LoadRow
<1>5. /\ me.todo = updater[p].todo /\ me.user = u /\ me.store = cpu[u].start
      /\ me.read = cpu[u] /\ me.pc = IF cpu[u].months = 0 THEN "sum" ELSE "clock"
      /\ me.start = IF cpu[u].months = 0 THEN NoDate ELSE from
      /\ me \in Updates
  BY <1>2, <1>3, RestingType DEF Updates, Rows, GoodStart, Resting
<1>6. cpu[u].months = 0 => cpu[u].start = NoDate
  BY <1>2 DEF Rows
<1>. HIDE DEF me, from
<1>. QED BY <1>1, <1>2, <1>3, <1>4, <1>5, <1>6, UpdaterTypes, UpdaterFrame DEF Busy

LEMMA ReadClockInv ==
  ASSUME PeriodInv, NEW p \in Updaters, ReadClock(p)
  PROVE  PeriodInv'
<1>. DEFINE me == [updater[p] EXCEPT !.pc = "advance", !.at = now]
<1>1. /\ UNCHANGED <<now, configured, resources, deployer, account, chosen,
                     assigned, cpu, finished>>
      /\ updater' = [updater EXCEPT ![p] = me]
      /\ updater[p].pc = "clock"
  BY UpdaterTypes DEF ReadClock, deployment, accounts, backfill, Updates
<1>2. now \in Days /\ ~ Before(now, now)
  BY DaysOrdered DEF PeriodInv, TypeOK
<1>3. /\ me \in Updates /\ me.pc = "advance" /\ me.todo = updater[p].todo
      /\ me.user = updater[p].user /\ me.at = now /\ me.store = updater[p].store
      /\ me.start = updater[p].start /\ me.read = updater[p].read
  BY <1>2, UpdaterTypes DEF Updates
<1>. HIDE DEF me
<1>. QED BY <1>1, <1>2, <1>3, UpdaterTypes, UpdaterFrame DEF Busy

LEMMA AdvanceInv ==
  ASSUME PeriodInv, NEW p \in Updaters, Advance(p)
  PROVE  PeriodInv'
<1>. DEFINE me == [updater[p] EXCEPT !.start = _add_months(updater[p].start)]
            u  == updater[p].user
<1>1. /\ UNCHANGED <<now, configured, resources, deployer, account, chosen,
                     assigned, cpu, finished>>
      /\ updater' = [updater EXCEPT ![p] = me]
      /\ updater[p].pc \in {"advance", "again"}
      /\ ~ Before(updater[p].at, _add_months(updater[p].start))
  BY UpdaterTypes DEF Advance, deployment, accounts, backfill, Updates
<1>2. /\ UpdatersOK!(p) /\ u \in Users /\ Created(u)
      /\ updater[p].at \in Days /\ GoodStart(updater[p].start, u)
  BY <1>1, UpdaterTypes DEF Busy, Updates
<1>3. account[u].created \in Days /\ now \in Days
  BY <1>2 DEF PeriodInv, AccountsOK, TypeOK
<1>4. /\ _add_months(updater[p].start) \in Days
      /\ Starts(_add_months(updater[p].start), account[u].created)
  BY <1>1, <1>2, <1>3, NextStart DEF GoodStart
<1>5. GoodStart(_add_months(updater[p].start), u)
  BY <1>1, <1>2, <1>3, <1>4, DaysOrdered DEF GoodStart
<1>6. /\ me \in Updates /\ me.pc = updater[p].pc /\ me.todo = updater[p].todo
      /\ me.user = u /\ me.at = updater[p].at /\ me.store = updater[p].store
      /\ me.storeAt = updater[p].storeAt /\ me.read = updater[p].read
      /\ me.start = _add_months(updater[p].start)
  BY <1>4, UpdaterTypes DEF Updates
<1>. HIDE DEF me
<1>. QED BY <1>1, <1>2, <1>5, <1>6, UpdaterTypes, UpdaterFrame

LEMMA SettleInv ==
  ASSUME PeriodInv, NEW p \in Updaters, Settle(p)
  PROVE  PeriodInv'
<1>. DEFINE me == [updater[p] EXCEPT !.pc = "again", !.at = now,
                                     !.store = updater[p].start,
                                     !.storeAt = updater[p].at]
            u  == updater[p].user
<1>1. /\ UNCHANGED <<now, configured, resources, deployer, account, chosen,
                     assigned, cpu, finished>>
      /\ updater' = [updater EXCEPT ![p] = me]
      /\ updater[p].pc = "advance"
      /\ Before(updater[p].at, _add_months(updater[p].start))
  BY UpdaterTypes DEF Settle, deployment, accounts, backfill, Updates
<1>2. /\ UpdatersOK!(p) /\ GoodStart(updater[p].start, u) /\ cpu[u].months # 0
      /\ OpenAt(updater[p].start, updater[p].at)
  BY <1>1, UpdaterTypes DEF OpenAt
<1>3. now \in Days /\ ~ Before(now, now) /\ NoDate \notin Days
  BY DaysOrdered DEF PeriodInv, TypeOK
<1>4. /\ me \in Updates /\ me.pc = "again" /\ me.todo = updater[p].todo
      /\ me.user = u /\ me.at = now /\ me.store = updater[p].start
      /\ me.storeAt = updater[p].at /\ me.start = updater[p].start
      /\ me.store \in Days
  BY <1>2, <1>3, UpdaterTypes DEF Updates, OpenAt, GoodStart
<1>. HIDE DEF me
<1>. QED BY <1>1, <1>2, <1>3, <1>4, UpdaterTypes, UpdaterFrame DEF Busy

LEMMA SumRunsInv ==
  ASSUME PeriodInv, NEW p \in Updaters, SumRuns(p)
  PROVE  PeriodInv'
<1>. DEFINE u    == updater[p].user
            from == IF updater[p].start = NoDate THEN Always ELSE updater[p].start
            me   == [updater[p] EXCEPT !.pc = "commit", !.at = NoDate, !.start = NoDate,
                                       !.sum = Accounted(finished[u], from)]
<1>1. /\ UNCHANGED <<now, configured, resources, deployer, account, chosen,
                     assigned, cpu, finished>>
      /\ updater' = [updater EXCEPT ![p] = me]
      /\ updater[p].pc \in {"again", "sum"}
  BY UpdaterTypes DEF SumRuns, deployment, accounts, backfill, Updates
<1>2. /\ UpdatersOK!(p) /\ u \in Users
      /\ finished[u] \in SUBSET (Days \X Days)
  BY <1>1, UpdaterTypes DEF Busy, Updates
<1>3. Accounted(finished[u], from) \in Nat
  BY <1>2, AccountedType
<1>4. /\ me \in Updates /\ me.pc = "commit" /\ me.todo = updater[p].todo
      /\ me.user = u /\ me.store = updater[p].store /\ me.read = updater[p].read
      /\ me.storeAt = updater[p].storeAt
  BY <1>3, UpdaterTypes DEF Updates
<1>. HIDE DEF me, from
<1>. QED BY <1>1, <1>2, <1>4, UpdaterTypes, UpdaterFrame DEF Busy

LEMMA CrashInv ==
  ASSUME PeriodInv, NEW p \in Updaters, Crash(p)
  PROVE  PeriodInv'
<1>1. /\ UNCHANGED <<now, configured, resources, deployer, account, chosen,
                     assigned, cpu, finished>>
      /\ updater' = [updater EXCEPT ![p] = Resting]
  BY UpdaterTypes DEF Crash, deployment, accounts, backfill
<1>2. Resting.pc \notin Busy /\ \A v \in Resting.todo : Created(v)
  BY RestingType DEF Busy
<1>. QED BY <1>1, <1>2, RestingType, UpdaterTypes, UpdaterFrame DEF Busy
LEMMA CommitRowInv ==
  ASSUME PeriodInv, NEW p \in Updaters, CommitRow(p)
  PROVE  PeriodInv'
<1>. DEFINE u    == updater[p].user
            rest == updater[p].todo \ {u}
            me   == IF rest = {} THEN Resting ELSE [Resting EXCEPT !.pc = "next", !.todo = rest]
            row  == [cpu[u] EXCEPT
                       !.start = IF Moved(p) THEN updater[p].store ELSE @,
                       !.used = IF updater[p].sum # updater[p].read.used
                                THEN updater[p].sum ELSE @]
<1>1. /\ UpdatersOK!(p) /\ updater[p].pc = "commit" /\ u \in Users /\ Created(u)
      /\ updater[p] \in Updates
  BY UpdaterTypes DEF CommitRow, Busy, Updates
<1>2. cpu \in [Users -> Rows]
  BY DEF PeriodInv, TypeOK
<1>3. /\ UNCHANGED <<now, configured, resources, deployer, account, chosen,
                     assigned, finished>>
      /\ updater' = [updater EXCEPT ![p] = me]
      /\ cpu' = [cpu EXCEPT ![u] = row]
  BY <1>1, <1>2 DEF CommitRow, deployment, accounts, backfill
<1>4. me \in Updates /\ me.pc \in {"idle", "next"} /\ me.store = NoDate
      /\ me.read.start = NoDate /\ me.todo \subseteq updater[p].todo
  BY <1>1, RestingType DEF Updates
<1>5. /\ row.start \in {cpu[u].start, updater[p].store}
      /\ row.months = cpu[u].months /\ row.used \in Nat
      /\ row \in [months : {0, Period}, start : Days \cup {NoDate}, used : Nat]
  <2>1. cpu[u] \in Rows /\ updater[p].sum \in Nat
        /\ updater[p].store \in Days \cup {NoDate}
    BY <1>1, <1>2 DEF Updates
  <2>2. cpu[u] \in [months : {0, Period}, start : Days \cup {NoDate}, used : Nat]
    BY <2>1 DEF Rows
  <2>3. /\ row.start \in {cpu[u].start, updater[p].store}
        /\ row.months = cpu[u].months /\ row.used \in Nat
    BY <2>1, <2>2
  <2>4. row \in [months : {0, Period}, start : Days \cup {NoDate}, used : Nat]
    BY <2>1, <2>2
  <2>. QED BY <2>3, <2>4
<1>6. row.start # NoDate => GoodStart(row.start, u)
  <2>1. CASE row.start = cpu[u].start
    <3>1. row.start # NoDate => row.start \in Days
      BY <2>1, <1>1, <1>2 DEF Rows
    <3>. QED BY <2>1, <3>1, <1>1 DEF GoodStart, PeriodInv, StartsAgree
  <2>2. CASE row.start = updater[p].store
    BY <2>2, <1>1
  <2>. HIDE DEF row
  <2>. QED BY <2>1, <2>2, <1>5
<1>7. row \in Rows
  <2>1. row.months = 0 => row.start = NoDate
    BY <1>1, <1>2, <1>5 DEF Rows
  <2>. HIDE DEF row
  <2>. QED BY <2>1, <1>5 DEF Rows
<1>. HIDE DEF row, me
<1>8. /\ cpu'[u] = row /\ \A v \in Users \ {u} : cpu'[v] = cpu[v]
      /\ \A v \in Users : cpu'[v].months = cpu[v].months
  BY <1>1, <1>2, <1>3, <1>5
<1>9. TypeOK'
  BY <1>1, <1>2, <1>3, <1>4, <1>7 DEF PeriodInv, TypeOK
<1>10. StartsAgree'
  BY <1>3, <1>6, <1>8 DEF PeriodInv, StartsAgree, GoodStart
<1>11. AccountsOK'
  BY <1>1, <1>3, <1>8 DEF PeriodInv, AccountsOK, Created
<1>12. UpdatersOK'
  <2>. SUFFICES ASSUME NEW q \in Updaters PROVE UpdatersOK!(q)'
    BY DEF UpdatersOK
  <2>1. CASE q = p
    <3>1. updater'[q] = me
      BY <2>1, <1>3 DEF PeriodInv, TypeOK
    <3>. QED BY <3>1, <1>1, <1>3, <1>4 DEF Created, Busy
  <2>2. CASE q # p
    <3>1. updater'[q] = updater[q] /\ UpdatersOK!(q)
      BY <2>2, <1>3, UpdaterTypes DEF PeriodInv, TypeOK
    <3>2. updater[q].pc \in Busy => updater[q].user \in Users
      BY <3>1, UpdaterTypes DEF Updates
    <3>. QED BY <3>1, <3>2, <1>3, <1>8 DEF Created, GoodStart, OpenAt, Busy
  <2>. QED BY <2>1, <2>2
<1>13. BackfillOK'
  BY <1>3 DEF PeriodInv, BackfillOK, GoodStart, OpenAt
<1>. QED BY <1>9, <1>10, <1>11, <1>12, <1>13 DEF PeriodInv

\* Time goes on: what was not in the future is not.
LEMMA TickInv == ASSUME PeriodInv, Tick PROVE PeriodInv'
<1>1. /\ UNCHANGED <<configured, resources, deployer, account, chosen, assigned, cpu,
                     finished, updater>>
      /\ now' \in Days /\ now \in Days
  BY DEF Tick, deployment, accounts, backfill, PeriodInv, TypeOK
<1>2. ~ Before(now', now)
  <2>1. now[1] \in Nat /\ now[2] \in Nat
    BY <1>1, DayFields
  <2>2. CASE now[2] < Length[now[1]]
    BY <2>1, <2>2 DEF Tick, Before
  <2>3. CASE ~ (now[2] < Length[now[1]])
    BY <2>1, <2>3 DEF Tick, Before
  <2>. QED BY <2>2, <2>3
<1>3. \A x \in Days : ~ Before(now, x) => ~ Before(now', x)
  BY <1>1, <1>2, DaysOrdered
<1>4. TypeOK'
  BY <1>1 DEF PeriodInv, TypeOK
<1>5. StartsAgree'
  BY <1>1, <1>3 DEF PeriodInv, StartsAgree, TypeOK, Rows
<1>6. AccountsOK'
  BY <1>1, <1>3 DEF PeriodInv, AccountsOK, Created
<1>7. UpdatersOK'
  <2>. SUFFICES ASSUME NEW p \in Updaters PROVE UpdatersOK!(p)'
    BY DEF UpdatersOK
  <2>1. UpdatersOK!(p)
    BY UpdaterTypes
  <2>. QED BY <2>1, <1>1, <1>3 DEF Created, GoodStart, OpenAt
<1>8. BackfillOK'
  BY <1>1, <1>3 DEF PeriodInv, BackfillOK, GoodStart, OpenAt
<1>. QED BY <1>4, <1>5, <1>6, <1>7, <1>8 DEF PeriodInv

LEMMA PeriodNext == ASSUME PeriodInv, [Next]_vars PROVE PeriodInv'
<1>1. CASE UNCHANGED vars
  <2>. USE <1>1 DEF vars, deployment, accounts, backfill
  <2>1. TypeOK' /\ StartsAgree' /\ AccountsOK'
    BY DEF PeriodInv, TypeOK, StartsAgree, AccountsOK, Created
  <2>2. UpdatersOK' /\ BackfillOK'
    BY DEF PeriodInv, UpdatersOK, BackfillOK, Created, GoodStart, OpenAt
  <2>. QED BY <2>1, <2>2 DEF PeriodInv
<1>2. CASE Next
  <2>1. ASSUME NEW p \in Updaters, UpdaterStep(p) PROVE PeriodInv'
    BY <2>1, LoadRowInv, ReadClockInv, AdvanceInv, SettleInv, SumRunsInv,
       CommitRowInv DEF UpdaterStep
  <2>2. ASSUME NEW p \in Workers, Crash(p) PROVE PeriodInv'
    BY <2>2, CrashInv DEF Updaters
  <2>3. ASSUME NEW p \in Workers, NEW u \in Users, NEW t \in Days, Finish(p, u, t)
        PROVE  PeriodInv'
    BY <2>3, FinishInv
  <2>4. ASSUME NEW u \in Users,
               CreateUser(u) \/ CommitUser(u) \/ SetPeriod(u) \/ AssignWindow(u)
        PROVE  PeriodInv'
    BY <2>4, CreateUserInv, CommitUserInv, SetPeriodInv, AssignInv
  <2>. QED BY <1>2, <2>1, <2>2, <2>3, <2>4, DeploymentInv, SelectInv, InitDefaultInv,
              StartCronInv, TickInv DEF Next
<1>. QED BY <1>1, <1>2

LEMMA PeriodsHold == Spec => []PeriodInv
<1>1. PeriodInv /\ [Next]_vars => PeriodInv'
  BY PeriodNext
<1>. QED BY PeriodInit, <1>1, PTL DEF Spec

(***************************************************************************)
(* Theorems                                                                *)
(***************************************************************************)
\* Rows, windows and what updates hold keep their types, a row without a period
\* has no window, and no window starts beyond the end of time (models.py,
\* User.__init__; utils.py, update_users_cpu_quota).
THEOREM PeriodsTyped == Spec => []TypeOK
BY PeriodsHold, PTL DEF PeriodInv

\* However updates, the backfill and new accounts interleave, the windows of an
\* account are those counted from its creation, and none is in the future
\* (utils.py, _add_months and get_current_quota_period_start_at).
THEOREM WindowsAgree == Spec => []StartsAgree
BY PeriodsHold, PTL DEF PeriodInv

\* However many deployments create the default resources, from whatever is
\* there: one that reports success has left all of them (models.py,
\* Resource.initialise_default_resources).
THEOREM ResourcesInitialised == Spec => []Initialised
<1>. DEFINE Known == \A d \in Deployers :
              /\ deployer[d].pc = "insert" => deployer[d].existing \subseteq resources
              /\ deployer[d].pc = "ok" => DEFAULT_QUOTA_RESOURCES \subseteq resources
<1>1. Init => Known
  BY DEF Init
<1>2. TypeOK /\ Known /\ [Next]_vars => Known'
  <2>. SUFFICES ASSUME TypeOK, Known, [Next]_vars PROVE Known'
    OBVIOUS
  <2>1. CASE UNCHANGED <<resources, deployer>>
    BY <2>1
  <2>2. ASSUME NEW d \in Deployers, ReadResources(d) PROVE Known'
    BY <2>2 DEF ReadResources, TypeOK
  <2>3. ASSUME NEW d \in Deployers, InsertResources(d) PROVE Known'
    BY <2>3 DEF InsertResources, TypeOK
  <2>4. ASSUME NEW d \in Deployers, RecheckResources(d) PROVE Known'
    BY <2>4 DEF RecheckResources, TypeOK
  <2>5. CASE UNCHANGED vars
    BY <2>1, <2>5 DEF vars, deployment
  <2>. QED BY <2>1, <2>2, <2>3, <2>4, <2>5 DEF Next, UpdaterStep, Configure, CreateUser,
         CommitUser, SetPeriod, SelectRows, Abort, AssignWindow, InitDefaultPeriod, Crash,
         Finish, StartCron, LoadRow, ReadClock, Advance, Settle, SumRuns, CommitRow, Tick, deployment
<1>3. Known => Initialised
  BY DEF Initialised
<1>. QED BY <1>1, <1>2, <1>3, PeriodsTyped, PTL DEF Spec

\* Of two windows that have started by now, one that was open at the time `at`
\* precedes the other only if that had not opened by then.
LEMMA OvertakenSince ==
  ASSUME PeriodInv, NEW u \in Users, cpu[u].start # NoDate,
         NEW y, NEW at, GoodStart(y, u), OpenAt(y, at), Before(y, cpu[u].start)
  PROVE  Before(at, cpu[u].start)
<1>1. cpu[u].start \in Days /\ Starts(cpu[u].start, account[u].created)
  BY DEF PeriodInv, TypeOK, StartsAgree, Rows
<1>2. account[u].created \in Days
  BY DEF PeriodInv, AccountsOK
<1>. QED BY <1>1, <1>2, CurrentIsLatest DEF GoodStart, OpenAt

LEMMA StartsMoveOn ==
  ASSUME PeriodInv, [Next]_vars, NEW u \in Users,
         cpu[u].start # NoDate, Before(cpu'[u].start, cpu[u].start)
  PROVE  \/ \E p \in Updaters : /\ updater[p].pc = "commit" /\ updater[p].user = u
                                /\ updater[p].store = cpu'[u].start
                                /\ Before(updater[p].storeAt, cpu[u].start)
         \/ /\ u \in chosen /\ assigned[u].start = cpu'[u].start
            /\ Before(assigned[u].at, cpu[u].start)
<1>1. cpu[u] \in Rows /\ cpu[u].start \in Days
  BY DEF PeriodInv, TypeOK, Rows
<1>2. cpu'[u].start # cpu[u].start
  BY <1>1, DaysOrdered
<1>3. ASSUME NEW v \in Users, CreateUser(v) PROVE FALSE
  BY <1>2, <1>3 DEF CreateUser, PeriodInv, AccountsOK, Created, TypeOK
<1>4. ASSUME NEW v \in Users, SetPeriod(v) PROVE FALSE
  BY <1>2, <1>4 DEF SetPeriod, PeriodInv, TypeOK, Rows
<1>5. CASE InitDefaultPeriod
  <2>1. u \in chosen /\ cpu'[u].start = assigned[u].start /\ assigned[u] # NoWindow
    BY <1>2, <1>5 DEF InitDefaultPeriod
  <2>2. GoodStart(assigned[u].start, u) /\ OpenAt(assigned[u].start, assigned[u].at)
    BY <2>1 DEF PeriodInv, BackfillOK
  <2>. QED BY <2>1, <2>2, OvertakenSince
<1>6. ASSUME NEW p \in Updaters, CommitRow(p)
      PROVE  /\ updater[p].pc = "commit" /\ updater[p].user = u
             /\ updater[p].store = cpu'[u].start
             /\ Before(updater[p].storeAt, cpu[u].start)
  <2>1. updater[p].pc = "commit" /\ updater[p].user \in Users
    BY <1>6, UpdaterTypes DEF CommitRow, Busy, Updates
  <2>2. updater[p].user = u /\ Moved(p) /\ cpu'[u].start = updater[p].store
    BY <1>2, <1>6, <2>1 DEF CommitRow, PeriodInv, TypeOK, Rows
  <2>3. updater[p].store # NoDate
    BY <2>2, UpdaterTypes DEF Moved
  <2>4. GoodStart(updater[p].store, u) /\ OpenAt(updater[p].store, updater[p].storeAt)
    BY <2>1, <2>2, <2>3, UpdaterTypes
  <2>. QED BY <2>1, <2>2, <2>4, OvertakenSince
<1>7. CASE UNCHANGED cpu
  BY <1>2, <1>7
<1>. QED BY <1>3, <1>4, <1>5, <1>6, <1>7
       DEF vars, deployment, accounts, backfill, Next, UpdaterStep, ReadResources,
           InsertResources, RecheckResources, Configure, CommitUser, SelectRows, Abort,
           AssignWindow, Crash, Finish, StartCron, LoadRow, ReadClock, Advance, Settle,
           SumRuns, Tick

\* A window moves back only if the update or the backfill that commits it computed
\* it before the overwritten one had opened (utils.py,
\* _advance_user_cpu_quota_period_if_needed; cli.py, init_default_period).
THEOREM WindowsMoveOn == Spec => OnlyOvertakenMoveBack
<1>1. PeriodInv /\ [Next]_vars =>
        [\A u \in Users :
           cpu[u].start # NoDate /\ Before(cpu'[u].start, cpu[u].start) =>
             \/ \E p \in Updaters : /\ updater[p].pc = "commit" /\ updater[p].user = u
                                    /\ updater[p].store = cpu'[u].start
                                    /\ Before(updater[p].storeAt, cpu[u].start)
             \/ /\ u \in chosen /\ assigned[u].start = cpu'[u].start
                /\ Before(assigned[u].at, cpu[u].start)]_vars
  BY StartsMoveOn
<1>. QED BY <1>1, PeriodsHold, PTL DEF Spec, OnlyOvertakenMoveBack
=============================================================================
