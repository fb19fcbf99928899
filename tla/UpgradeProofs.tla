--------------------------- MODULE UpgradeProofs ---------------------------
(***************************************************************************)
(* Proof that an upgrade fails only for rows it cannot keep: every object  *)
(* that a statement takes away is there and none that it adds, whatever    *)
(* upgrades, downgrades and failures came before.                          *)
(***************************************************************************)
EXTENDS MigrationsProofs

(***************************************************************************)
(* The life of a schema object                                             *)
(***************************************************************************)
Never == 1000

\* What the statements of the chain name more than once.
Pending        == <<"type", "pending">>
NameUnique     == On("workflow", {"uq_workflow_name"})
RunNumber      == On("workflow", {"run_number"})
OwnerUnique    == On("workflow", {"uq_workflow_owner_id"})
JobIndex       == On("job", {"ix___reana_job_workflow_uuid"})
StatusIndex    == On("workflow", {"ix___reana_workflow_status"})
CacheKey       == On("job_cache", {"fk_job_cache_job_id_job"})
JobKey         == On("job", {"fk_job_workflow_uuid_workflow"})
Sharing        == {<<"user_workflow">>, <<"type", "accesstype">>}
Services       == {<<"service">>, <<"type", "servicestatus">>,
                   <<"type", "servicetype">>}
PeriodMonths   == On("user_resource", {"quota_period_months"})
PeriodStart    == On("user_resource", {"quota_period_start_at"})
IdpColumns     == On("user_", {"idp_issuer", "idp_subject", "uq_user__idp_identity"})
SessionColumn  == On("interactive_session", {"session_secret"})
WebhookColumns == On("user_", {"gitlab_webhook_secret",
                               "uq_user__gitlab_webhook_secret"})
ExpiryColumn   == On("user_", {"gitlab_webhook_secret_expires_at"})
ResourceIndex  == On("user_resource", {"ix___reana_user_resource_resource_id"})
Backends       == On("workflow", {"compute_backends"})
UserToken      == {<<"user_token">>} \cup TokenTypes

\* 10 * i + j, if the j-th statement of the i-th upgrade adds o; 0, if the
\* first database has it.
Born(o) ==
  CASE o \in FirstCatalog -> 0
    [] o = Pending -> 11
    [] o \in MajorMinor -> 21
    [] o \in NewNames -> 31
    [] o \in OwnerUnique -> 41
    [] o \in JobIndex -> 42
    [] o \in StatusIndex -> 43
    [] o \in JobKey -> 56
    [] o \in Sharing -> 61
    [] o \in Services -> 71
    [] o = <<"workflow_service">> -> 72
    [] o = <<"service_logs">> -> 81
    [] o \in PeriodMonths -> 91
    [] o \in PeriodStart -> 93
    [] o \in IdpColumns -> 101
    [] o \in SessionColumn -> 111
    [] o \in WebhookColumns -> 112
    [] o \in ExpiryColumn -> 131
    [] o \in ResourceIndex -> 141
    [] o \in WebhookDigest -> 151
    [] o \in UniqueDigest -> 154
    [] o \in Backends -> 191
    [] OTHER -> Never

\* The same for the upgrade that takes o away for good.
Dies(o) ==
  CASE o \in RunNumber -> 24
    [] o \in OldNames -> 31
    [] o \in NameUnique -> 41
    [] o \in UniqueCiphertext -> 154
    [] o \in UserToken \/ (o[1] = "user_token" /\ o \in NewNames) -> 181
    [] OTHER -> Never

\* The statements of their downgrades that take away what was born, and bring
\* back what had died.
Leaves(o) ==
  CASE o = Pending -> 4
    [] o \in MajorMinor -> 5
    [] o \in OwnerUnique -> 3
    [] o \in JobIndex -> 2
    [] o \in Services -> 2
    [] o \in PeriodMonths -> 3
    [] o \in SessionColumn -> 3
    [] o \in WebhookDigest -> 5
    [] o \in UniqueDigest -> 4
    [] OTHER -> 1
Returns(o) ==
  CASE o \in RunNumber -> 2
    [] o \in NameUnique -> 3
    [] o \in UniqueCiphertext -> 4
    [] OTHER -> 1

\* The object is there before the statement p = 10 * i + j of the upgrades.
\* The constraint on run numbers is away while they are split.
Is(o, p) ==
  /\ Born(o) < p /\ p <= Dies(o)
  /\ ~ (o \in RunNumberConstraint /\ p \in {24, 25})

\* It is there before the j-th statement of the downgrade of revision i.
IsDown(o, i, j) ==
  /\ Born(o) < 10 * i + 10 /\ 10 * i < Dies(o)
  /\ Born(o) > 10 * i => j <= Leaves(o)
  /\ Dies(o) < 10 * i + 10 => j > Returns(o)
  /\ ~ (o \in RunNumberConstraint /\ i = 2 /\ j \in 2..6)

\* The checks, whose names vary.
CheckObjects ==
  Variants("user_resource", Months, 0..2) \cup Variants("user_", Identity, 0..2)
    \cup {<<"user_", Webhook, 1>>}

\* At rest at a stamp the first statement of the next upgrade is to come.
AtRest(stamp) == 10 * stamp + 11

Has(o) ==
  IF mig.dir = "down" /\ db.stamp # mig.target
  THEN IsDown(o, db.stamp, mig.pos)
  ELSE Is(o, 10 * db.stamp + 10 + mig.pos)

CatalogInv ==
  /\ \A o : o \notin CheckObjects =>
       /\ (o \in saved.catalog) <=> Is(o, AtRest(saved.stamp))
       /\ (o \in db.catalog) <=> Has(o)
  /\ mig.dir = "idle" => mig.pos = 1
  /\ ~ Past("down", 18, 1)

\* The check o of the revision rev is not there before the n-th statement of
\* its upgrade, nor behind the m-th of its downgrade.
Absent(o, rev, n, m) ==
  /\ saved.stamp < rev => o \notin saved.catalog
  /\ db.stamp < rev /\ ~ Past("up", rev, n) => o \notin db.catalog
  /\ Past("down", rev, m) => o \notin db.catalog

AbsentInv ==
  /\ Absent(<<"user_resource", Months, 2>>, 9, 2, 2)
  /\ Absent(<<"user_", Identity, 1>>, 12, 2, 1)
  /\ Absent(<<"user_", Webhook, 1>>, 15, 5, 3)

(***************************************************************************)
(* The digests of webhook secrets                                          *)
(***************************************************************************)
NoDigests(d) == \A u \in Users : d.digest[u] = NoText

DigestInv ==
  /\ saved.stamp < 15 => NoDigests(saved)
  /\ db.stamp < 15 /\ ~ Past("up", 15, 2) => NoDigests(db)
  /\ Past("down", 15, 6) => NoDigests(db)
  /\ Past("up", 15, 2) => \A u \in Users :
       IF u \in DOMAIN mig.fetched THEN db.digest[u] = NoText
       ELSE /\ db.secret[u] = NoSecret <=> db.digest[u] = NoText
            /\ db.digest[u] \in {NoText, db.secret[u].text}
  /\ Past("down", 15, 3) => "user_" \in mig.locks
  /\ db.stamp < 15 /\ saved.stamp >= 15 => "user_" \in mig.locks

\* The secrets that h holds, has held when they were fetched, or will again
\* if the command is rolled back.
Held(h) ==
  {saved.secret[h].text, db.secret[h].text}
    \cup IF h \in DOMAIN mig.fetched THEN {mig.fetched[h].text} ELSE {}

SecretsInv ==
  /\ \A g, h \in Holders : g # h => Held(g) \cap Held(h) \subseteq {NoText}
  /\ mig.dir = "up" => \A h \in DOMAIN mig.fetched :
       ~ Raced(db, h) => mig.fetched[h].engine = "cbc"

(***************************************************************************)
(* The scripts, statement by statement                                     *)
(***************************************************************************)
\* The objects that s takes away and adds, checks that it creates or repairs
\* apart.
Drops(s) == IF s.op \in {"ddl", "drop_or_refuse"} THEN s.drops ELSE {}
Adds(s)  == IF s.op \in {"ddl", "drop_or_refuse"} THEN s.adds ELSE {}

Touches(s, drops, adds) == Drops(s) = drops /\ Adds(s) = adds

\* The statement p of the upgrades finds what it drops and not what it adds,
\* and leaves what is there before the next.
UpChange(p, drops, adds) ==
  /\ (drops \cup adds) \cap CheckObjects = {}
  /\ \A o \in drops : Is(o, p)
  /\ \A o \in adds \ drops : ~ Is(o, p)
  /\ \A o : o \notin CheckObjects =>
       (Is(o, p + 1) <=> \/ o \in adds
                         \/ Is(o, p) /\ o \notin drops /\ <<o[1]>> \notin drops)

\* The j-th statement of the downgrade of i leaves what is there before the next.
DownChange(i, j, drops, adds) ==
  /\ adds \cap CheckObjects = {}
  /\ \A o : o \notin CheckObjects =>
       (IsDown(o, i, j + 1) <=>
          \/ o \in adds
          \/ IsDown(o, i, j) /\ o \notin drops /\ <<o[1]>> \notin drops)

\* Statement by statement: the objects each names are where Is and IsDown say.
LEMMA UpChanges ==
  ASSUME NEW i \in 1..19, NEW j \in DOMAIN Chain[i].up
  PROVE  LET s == Chain[i].up[j] IN
         UpChange(10 * i + j, Drops(s), Adds(s))
<1>. USE DEF UpChange, Is, Born, Dies, Never, CheckObjects, Variants, Expanded,
             Pending, UserToken, TokenTypes, MajorMinor, NameUnique, RunNumber,
             OwnerUnique, JobIndex, StatusIndex, CacheKey, JobKey, Sharing,
             Services, PeriodMonths, PeriodStart, IdpColumns, SessionColumn,
             WebhookColumns, ExpiryColumn, ResourceIndex, Backends,
             RunNumberConstraint, FirstCatalog, OldNames, NewNames,
             constraints, WebhookDigest, UniqueDigest, UniqueCiphertext, On,
             Identity, Months, Webhook, Drops, Adds, Statement, Create, Drop,
             Validated, Swap, Rows, CreateCheck, DropCheck
<1>1. CASE i = 1
  <2>1. DOMAIN PendingStatus.up = 1..2
    BY DEF PendingStatus
  <2>2. /\ Touches(PendingStatus.up[1], {}, {Pending})
        /\ Touches(PendingStatus.up[2], {}, {})
    BY DEF Touches, PendingStatus, Pending
  <2>3. UpChange(11, {}, {Pending})
    OBVIOUS
  <2>4. UpChange(12, {}, {})
    OBVIOUS
  <2>. HIDE DEF UpChange, Drops, Adds, On, OldNames, NewNames, constraints
  <2>. QED BY <1>1, <2>1, <2>2, <2>3, <2>4, ChainIs DEF Touches
<1>2. CASE i = 2
  <2>1. DOMAIN SplitRunNumber.up = 1..6
    BY DEF SplitRunNumber
  <2>2. /\ Touches(SplitRunNumber.up[1], {}, MajorMinor)
        /\ Touches(SplitRunNumber.up[2], {}, {})
        /\ Touches(SplitRunNumber.up[3], RunNumberConstraint, {})
        /\ Touches(SplitRunNumber.up[4], RunNumber, {})
        /\ Touches(SplitRunNumber.up[5], {}, RunNumberConstraint)
        /\ Touches(SplitRunNumber.up[6], {}, {})
    BY DEF Touches, SplitRunNumber
  <2>3. UpChange(21, {}, MajorMinor)
    OBVIOUS
  <2>4. UpChange(22, {}, {})
    OBVIOUS
  <2>5. UpChange(23, RunNumberConstraint, {})
    OBVIOUS
  <2>6. UpChange(24, RunNumber, {})
    OBVIOUS
  <2>7. UpChange(25, {}, RunNumberConstraint)
    OBVIOUS
  <2>8. UpChange(26, {}, {})
    OBVIOUS
  <2>. HIDE DEF UpChange, Drops, Adds, On, OldNames, NewNames, constraints
  <2>. QED BY <1>2, <2>1, <2>2, <2>3, <2>4, <2>5, <2>6, <2>7, <2>8, ChainIs DEF Touches
<1>3. CASE i = 3
  <2>1. DOMAIN EnforceNamingConvention.up = 1..1
    BY DEF EnforceNamingConvention
  <2>2. /\ Touches(EnforceNamingConvention.up[1], OldNames, NewNames)
    BY DEF Touches, EnforceNamingConvention
  <2>3. UpChange(31, OldNames, NewNames)
    OBVIOUS
  <2>. HIDE DEF UpChange, Drops, Adds, On, OldNames, NewNames, constraints
  <2>. QED BY <1>3, <2>1, <2>2, <2>3, ChainIs DEF Touches
<1>4. CASE i = 4
  <2>1. DOMAIN ImproveIndexesUsage.up = 1..3
    BY DEF ImproveIndexesUsage
  <2>2. /\ Touches(ImproveIndexesUsage.up[1], NameUnique, OwnerUnique)
        /\ Touches(ImproveIndexesUsage.up[2], {}, JobIndex)
        /\ Touches(ImproveIndexesUsage.up[3], {}, StatusIndex)
    BY DEF Touches, ImproveIndexesUsage
  <2>3. UpChange(41, NameUnique, OwnerUnique)
    OBVIOUS
  <2>4. UpChange(42, {}, JobIndex)
    OBVIOUS
  <2>5. UpChange(43, {}, StatusIndex)
    OBVIOUS
  <2>. HIDE DEF UpChange, Drops, Adds, On, OldNames, NewNames, constraints
  <2>. QED BY <1>4, <2>1, <2>2, <2>3, <2>4, <2>5, ChainIs DEF Touches
<1>5. CASE i = 5
  <2>1. DOMAIN JobForeignKey.up = 1..6
    BY DEF JobForeignKey
  <2>2. /\ Touches(JobForeignKey.up[1], CacheKey, CacheKey)
        /\ Touches(JobForeignKey.up[2], {}, {})
        /\ Touches(JobForeignKey.up[3], {}, {})
        /\ Touches(JobForeignKey.up[4], CacheKey, CacheKey)
        /\ Touches(JobForeignKey.up[5], {}, {})
        /\ Touches(JobForeignKey.up[6], {}, JobKey)
    BY DEF Touches, JobForeignKey
  <2>3. UpChange(51, CacheKey, CacheKey)
    OBVIOUS
  <2>4. UpChange(52, {}, {})
    OBVIOUS
  <2>5. UpChange(53, {}, {})
    OBVIOUS
  <2>6. UpChange(54, CacheKey, CacheKey)
    OBVIOUS
  <2>7. UpChange(55, {}, {})
    OBVIOUS
  <2>8. UpChange(56, {}, JobKey)
    OBVIOUS
  <2>. HIDE DEF UpChange, Drops, Adds, On, OldNames, NewNames, constraints
  <2>. QED BY <1>5, <2>1, <2>2, <2>3, <2>4, <2>5, <2>6, <2>7, <2>8, ChainIs DEF Touches
<1>6. CASE i = 6
  <2>1. DOMAIN WorkflowSharing.up = 1..1
    BY DEF WorkflowSharing
  <2>2. /\ Touches(WorkflowSharing.up[1], {}, Sharing)
    BY DEF Touches, WorkflowSharing
  <2>3. UpChange(61, {}, Sharing)
    OBVIOUS
  <2>. HIDE DEF UpChange, Drops, Adds, On, OldNames, NewNames, constraints
  <2>. QED BY <1>6, <2>1, <2>2, <2>3, ChainIs DEF Touches
<1>7. CASE i = 7
  <2>1. DOMAIN ServiceTables.up = 1..2
    BY DEF ServiceTables
  <2>2. /\ Touches(ServiceTables.up[1], {}, Services)
        /\ Touches(ServiceTables.up[2], {}, {<<"workflow_service">>})
    BY DEF Touches, ServiceTables
  <2>3. UpChange(71, {}, Services)
    OBVIOUS
  <2>4. UpChange(72, {}, {<<"workflow_service">>})
    OBVIOUS
  <2>. HIDE DEF UpChange, Drops, Adds, On, OldNames, NewNames, constraints
  <2>. QED BY <1>7, <2>1, <2>2, <2>3, <2>4, ChainIs DEF Touches
<1>8. CASE i = 8
  <2>1. DOMAIN ServiceLogs.up = 1..1
    BY DEF ServiceLogs
  <2>2. /\ Touches(ServiceLogs.up[1], {}, {<<"service_logs">>})
    BY DEF Touches, ServiceLogs
  <2>3. UpChange(81, {}, {<<"service_logs">>})
    OBVIOUS
  <2>. HIDE DEF UpChange, Drops, Adds, On, OldNames, NewNames, constraints
  <2>. QED BY <1>8, <2>1, <2>2, <2>3, ChainIs DEF Touches
<1>9. CASE i = 9
  <2>1. DOMAIN QuotaPeriods.up = 1..3
    BY DEF QuotaPeriods
  <2>2. /\ Touches(QuotaPeriods.up[1], {}, PeriodMonths)
        /\ Touches(QuotaPeriods.up[2], {}, {})
        /\ Touches(QuotaPeriods.up[3], {}, PeriodStart)
    BY DEF Touches, QuotaPeriods
  <2>3. UpChange(91, {}, PeriodMonths)
    OBVIOUS
  <2>4. UpChange(92, {}, {})
    OBVIOUS
  <2>5. UpChange(93, {}, PeriodStart)
    OBVIOUS
  <2>. HIDE DEF UpChange, Drops, Adds, On, OldNames, NewNames, constraints
  <2>. QED BY <1>9, <2>1, <2>2, <2>3, <2>4, <2>5, ChainIs DEF Touches
<1>10. CASE i = 10
  <2>1. DOMAIN IdpIdentity.up = 1..1
    BY DEF IdpIdentity
  <2>2. /\ Touches(IdpIdentity.up[1], {}, IdpColumns)
    BY DEF Touches, IdpIdentity
  <2>3. UpChange(101, {}, IdpColumns)
    OBVIOUS
  <2>. HIDE DEF UpChange, Drops, Adds, On, OldNames, NewNames, constraints
  <2>. QED BY <1>10, <2>1, <2>2, <2>3, ChainIs DEF Touches
<1>11. CASE i = 11
  <2>1. DOMAIN SessionAndWebhookSecrets.up = 1..2
    BY DEF SessionAndWebhookSecrets
  <2>2. /\ Touches(SessionAndWebhookSecrets.up[1], {}, SessionColumn)
        /\ Touches(SessionAndWebhookSecrets.up[2], {}, WebhookColumns)
    BY DEF Touches, SessionAndWebhookSecrets
  <2>3. UpChange(111, {}, SessionColumn)
    OBVIOUS
  <2>4. UpChange(112, {}, WebhookColumns)
    OBVIOUS
  <2>. HIDE DEF UpChange, Drops, Adds, On, OldNames, NewNames, constraints
  <2>. QED BY <1>11, <2>1, <2>2, <2>3, <2>4, ChainIs DEF Touches
<1>12. CASE i = 12
  <2>1. DOMAIN RequireCompleteIdentity.up = 1..2
    BY DEF RequireCompleteIdentity
  <2>2. /\ Touches(RequireCompleteIdentity.up[1], {}, {})
        /\ Touches(RequireCompleteIdentity.up[2], {}, {})
    BY DEF Touches, RequireCompleteIdentity
  <2>3. UpChange(121, {}, {})
    OBVIOUS
  <2>4. UpChange(122, {}, {})
    OBVIOUS
  <2>. HIDE DEF UpChange, Drops, Adds, On, OldNames, NewNames, constraints
  <2>. QED BY <1>12, <2>1, <2>2, <2>3, <2>4, ChainIs DEF Touches
<1>13. CASE i = 13
  <2>1. DOMAIN ExpireWebhookSecrets.up = 1..1
    BY DEF ExpireWebhookSecrets
  <2>2. /\ Touches(ExpireWebhookSecrets.up[1], {}, ExpiryColumn)
    BY DEF Touches, ExpireWebhookSecrets
  <2>3. UpChange(131, {}, ExpiryColumn)
    OBVIOUS
  <2>. HIDE DEF UpChange, Drops, Adds, On, OldNames, NewNames, constraints
  <2>. QED BY <1>13, <2>1, <2>2, <2>3, ChainIs DEF Touches
<1>14. CASE i = 14
  <2>1. DOMAIN UserResourceIndex.up = 1..1
    BY DEF UserResourceIndex
  <2>2. /\ Touches(UserResourceIndex.up[1], {}, ResourceIndex)
    BY DEF Touches, UserResourceIndex
  <2>3. UpChange(141, {}, ResourceIndex)
    OBVIOUS
  <2>. HIDE DEF UpChange, Drops, Adds, On, OldNames, NewNames, constraints
  <2>. QED BY <1>14, <2>1, <2>2, <2>3, ChainIs DEF Touches
<1>15. CASE i = 15
  <2>1. DOMAIN WebhookSecretStorage.up = 1..5
    BY DEF WebhookSecretStorage, HardenWebhookSecrets, RestoreWebhookSecrets
  <2>2. /\ Touches(WebhookSecretStorage.up[1], {}, WebhookDigest)
        /\ Touches(WebhookSecretStorage.up[2], {}, {})
        /\ Touches(WebhookSecretStorage.up[3], {}, {})
        /\ Touches(WebhookSecretStorage.up[4], UniqueCiphertext, UniqueDigest)
        /\ Touches(WebhookSecretStorage.up[5], {}, {})
    BY DEF Touches, WebhookSecretStorage, HardenWebhookSecrets, RestoreWebhookSecrets
  <2>3. UpChange(151, {}, WebhookDigest)
    OBVIOUS
  <2>4. UpChange(152, {}, {})
    OBVIOUS
  <2>5. UpChange(153, {}, {})
    OBVIOUS
  <2>6. UpChange(154, UniqueCiphertext, UniqueDigest)
    OBVIOUS
  <2>7. UpChange(155, {}, {})
    OBVIOUS
  <2>. HIDE DEF UpChange, Drops, Adds, On, OldNames, NewNames, constraints
  <2>. QED BY <1>15, <2>1, <2>2, <2>3, <2>4, <2>5, <2>6, <2>7, ChainIs DEF Touches
<1>16. CASE i = 16
  <2>1. DOMAIN RepairChecks.up = 1..2
    BY DEF RepairChecks
  <2>2. /\ Touches(RepairChecks.up[1], {}, {})
        /\ Touches(RepairChecks.up[2], {}, {})
    BY DEF Touches, RepairChecks
  <2>3. UpChange(161, {}, {})
    OBVIOUS
  <2>4. UpChange(162, {}, {})
    OBVIOUS
  <2>. HIDE DEF UpChange, Drops, Adds, On, OldNames, NewNames, constraints
  <2>. QED BY <1>16, <2>1, <2>2, <2>3, <2>4, ChainIs DEF Touches
<1>17. CASE i = 17
  <2>1. DOMAIN ConvertSessionSecrets.up = 1..2
    BY DEF ConvertSessionSecrets
  <2>2. /\ Touches(ConvertSessionSecrets.up[1], {}, {})
        /\ Touches(ConvertSessionSecrets.up[2], {}, {})
    BY DEF Touches, ConvertSessionSecrets
  <2>3. UpChange(171, {}, {})
    OBVIOUS
  <2>4. UpChange(172, {}, {})
    OBVIOUS
  <2>. HIDE DEF UpChange, Drops, Adds, On, OldNames, NewNames, constraints
  <2>. QED BY <1>17, <2>1, <2>2, <2>3, <2>4, ChainIs DEF Touches
<1>18. CASE i = 18
  <2>1. DOMAIN DropUserToken.up = 1..1
    BY DEF DropUserToken
  <2>2. /\ Touches(DropUserToken.up[1], UserToken, {})
    BY DEF Touches, DropUserToken, UserToken
  <2>3. UpChange(181, UserToken, {})
    OBVIOUS
  <2>. HIDE DEF UpChange, Drops, Adds, On, OldNames, NewNames, constraints
  <2>. QED BY <1>18, <2>1, <2>2, <2>3, ChainIs DEF Touches
<1>19. CASE i = 19
  <2>1. DOMAIN ComputeBackends.up = 1..1
    BY DEF ComputeBackends
  <2>2. /\ Touches(ComputeBackends.up[1], {}, Backends)
    BY DEF Touches, ComputeBackends
  <2>3. UpChange(191, {}, Backends)
    OBVIOUS
  <2>. HIDE DEF UpChange, Drops, Adds, On, OldNames, NewNames, constraints
  <2>. QED BY <1>19, <2>1, <2>2, <2>3, ChainIs DEF Touches
<1>. HIDE DEF UpChange, Drops, Adds
<1>. QED BY <1>1, <1>2, <1>3, <1>4, <1>5, <1>6, <1>7, <1>8, <1>9, <1>10, <1>11,
            <1>12, <1>13, <1>14, <1>15, <1>16, <1>17, <1>18, <1>19

LEMMA DownChanges ==
  ASSUME NEW i \in 1..19, NEW j \in DOMAIN Chain[i].down, i # 18
  PROVE  LET s == Chain[i].down[j] IN
         DownChange(i, j, Drops(s), Adds(s))
<1>. USE DEF DownChange, IsDown, Leaves, Returns, Born, Dies, Never,
             CheckObjects, Variants, Expanded, Pending, UserToken, TokenTypes,
             MajorMinor, NameUnique, RunNumber, OwnerUnique, JobIndex,
             StatusIndex, CacheKey, JobKey, Sharing, Services, PeriodMonths,
             PeriodStart, IdpColumns, SessionColumn, WebhookColumns,
             ExpiryColumn, ResourceIndex, Backends, RunNumberConstraint,
             FirstCatalog, OldNames, NewNames, constraints, WebhookDigest,
             UniqueDigest, UniqueCiphertext, On, Identity, Months, Webhook,
             Drops, Adds, Statement, Create, Drop, Validated, Swap, Rows,
             CreateCheck, DropCheck
<1>1. CASE i = 1
  <2>1. DOMAIN PendingStatus.down = 1..4
    BY DEF PendingStatus
  <2>2. /\ Touches(PendingStatus.down[1], {}, {})
        /\ Touches(PendingStatus.down[2], {}, {})
        /\ Touches(PendingStatus.down[3], {}, {})
        /\ Touches(PendingStatus.down[4], {Pending}, {})
    BY DEF Touches, PendingStatus, Pending
  <2>3. DownChange(1, 1, {}, {})
    OBVIOUS
  <2>4. DownChange(1, 2, {}, {})
    OBVIOUS
  <2>5. DownChange(1, 3, {}, {})
    OBVIOUS
  <2>6. DownChange(1, 4, {Pending}, {})
    OBVIOUS
  <2>. HIDE DEF DownChange, Drops, Adds, On, OldNames, NewNames, constraints
  <2>. QED BY <1>1, <2>1, <2>2, <2>3, <2>4, <2>5, <2>6, ChainIs DEF Touches
<1>2. CASE i = 2
  <2>1. DOMAIN SplitRunNumber.down = 1..6
    BY DEF SplitRunNumber
  <2>2. /\ Touches(SplitRunNumber.down[1], RunNumberConstraint, {})
        /\ Touches(SplitRunNumber.down[2], {}, RunNumber)
        /\ Touches(SplitRunNumber.down[3], {}, {})
        /\ Touches(SplitRunNumber.down[4], {}, {})
        /\ Touches(SplitRunNumber.down[5], MajorMinor, {})
        /\ Touches(SplitRunNumber.down[6], {}, RunNumberConstraint)
    BY DEF Touches, SplitRunNumber
  <2>3. DownChange(2, 1, RunNumberConstraint, {})
    OBVIOUS
  <2>4. DownChange(2, 2, {}, RunNumber)
    OBVIOUS
  <2>5. DownChange(2, 3, {}, {})
    OBVIOUS
  <2>6. DownChange(2, 4, {}, {})
    OBVIOUS
  <2>7. DownChange(2, 5, MajorMinor, {})
    OBVIOUS
  <2>8. DownChange(2, 6, {}, RunNumberConstraint)
    OBVIOUS
  <2>. HIDE DEF DownChange, Drops, Adds, On, OldNames, NewNames, constraints
  <2>. QED BY <1>2, <2>1, <2>2, <2>3, <2>4, <2>5, <2>6, <2>7, <2>8, ChainIs DEF Touches
<1>3. CASE i = 3
  <2>1. DOMAIN EnforceNamingConvention.down = 1..1
    BY DEF EnforceNamingConvention
  <2>2. /\ Touches(EnforceNamingConvention.down[1], NewNames, OldNames)
    BY DEF Touches, EnforceNamingConvention
  <2>3. DownChange(3, 1, NewNames, OldNames)
    OBVIOUS
  <2>. HIDE DEF DownChange, Drops, Adds, On, OldNames, NewNames, constraints
  <2>. QED BY <1>3, <2>1, <2>2, <2>3, ChainIs DEF Touches
<1>4. CASE i = 4
  <2>1. DOMAIN ImproveIndexesUsage.down = 1..3
    BY DEF ImproveIndexesUsage
  <2>2. /\ Touches(ImproveIndexesUsage.down[1], StatusIndex, {})
        /\ Touches(ImproveIndexesUsage.down[2], JobIndex, {})
        /\ Touches(ImproveIndexesUsage.down[3], OwnerUnique, NameUnique)
    BY DEF Touches, ImproveIndexesUsage
  <2>3. DownChange(4, 1, StatusIndex, {})
    OBVIOUS
  <2>4. DownChange(4, 2, JobIndex, {})
    OBVIOUS
  <2>5. DownChange(4, 3, OwnerUnique, NameUnique)
    OBVIOUS
  <2>. HIDE DEF DownChange, Drops, Adds, On, OldNames, NewNames, constraints
  <2>. QED BY <1>4, <2>1, <2>2, <2>3, <2>4, <2>5, ChainIs DEF Touches
<1>5. CASE i = 5
  <2>1. DOMAIN JobForeignKey.down = 1..2
    BY DEF JobForeignKey
  <2>2. /\ Touches(JobForeignKey.down[1], JobKey, {})
        /\ Touches(JobForeignKey.down[2], {}, {})
    BY DEF Touches, JobForeignKey
  <2>3. DownChange(5, 1, JobKey, {})
    OBVIOUS
  <2>4. DownChange(5, 2, {}, {})
    OBVIOUS
  <2>. HIDE DEF DownChange, Drops, Adds, On, OldNames, NewNames, constraints
  <2>. QED BY <1>5, <2>1, <2>2, <2>3, <2>4, ChainIs DEF Touches
<1>6. CASE i = 6
  <2>1. DOMAIN WorkflowSharing.down = 1..1
    BY DEF WorkflowSharing
  <2>2. /\ Touches(WorkflowSharing.down[1], Sharing, {})
    BY DEF Touches, WorkflowSharing
  <2>3. DownChange(6, 1, Sharing, {})
    OBVIOUS
  <2>. HIDE DEF DownChange, Drops, Adds, On, OldNames, NewNames, constraints
  <2>. QED BY <1>6, <2>1, <2>2, <2>3, ChainIs DEF Touches
<1>7. CASE i = 7
  <2>1. DOMAIN ServiceTables.down = 1..2
    BY DEF ServiceTables
  <2>2. /\ Touches(ServiceTables.down[1], {<<"workflow_service">>}, {})
        /\ Touches(ServiceTables.down[2], Services, {})
    BY DEF Touches, ServiceTables
  <2>3. DownChange(7, 1, {<<"workflow_service">>}, {})
    OBVIOUS
  <2>4. DownChange(7, 2, Services, {})
    OBVIOUS
  <2>. HIDE DEF DownChange, Drops, Adds, On, OldNames, NewNames, constraints
  <2>. QED BY <1>7, <2>1, <2>2, <2>3, <2>4, ChainIs DEF Touches
<1>8. CASE i = 8
  <2>1. DOMAIN ServiceLogs.down = 1..1
    BY DEF ServiceLogs
  <2>2. /\ Touches(ServiceLogs.down[1], {<<"service_logs">>}, {})
    BY DEF Touches, ServiceLogs
  <2>3. DownChange(8, 1, {<<"service_logs">>}, {})
    OBVIOUS
  <2>. HIDE DEF DownChange, Drops, Adds, On, OldNames, NewNames, constraints
  <2>. QED BY <1>8, <2>1, <2>2, <2>3, ChainIs DEF Touches
<1>9. CASE i = 9
  <2>1. DOMAIN QuotaPeriods.down = 1..3
    BY DEF QuotaPeriods
  <2>2. /\ Touches(QuotaPeriods.down[1], PeriodStart, {})
        /\ Touches(QuotaPeriods.down[2], {<<"user_resource", Months, 2>>}, {})
        /\ Touches(QuotaPeriods.down[3], PeriodMonths, {})
    BY DEF Touches, QuotaPeriods
  <2>3. DownChange(9, 1, PeriodStart, {})
    OBVIOUS
  <2>4. DownChange(9, 2, {<<"user_resource", Months, 2>>}, {})
    OBVIOUS
  <2>5. DownChange(9, 3, PeriodMonths, {})
    OBVIOUS
  <2>. HIDE DEF DownChange, Drops, Adds, On, OldNames, NewNames, constraints
  <2>. QED BY <1>9, <2>1, <2>2, <2>3, <2>4, <2>5, ChainIs DEF Touches
<1>10. CASE i = 10
  <2>1. DOMAIN IdpIdentity.down = 1..2
    BY DEF IdpIdentity
  <2>2. /\ Touches(IdpIdentity.down[1], IdpColumns, {})
        /\ Touches(IdpIdentity.down[2], {}, {})
    BY DEF Touches, IdpIdentity
  <2>3. DownChange(10, 1, IdpColumns, {})
    OBVIOUS
  <2>4. DownChange(10, 2, {}, {})
    OBVIOUS
  <2>. HIDE DEF DownChange, Drops, Adds, On, OldNames, NewNames, constraints
  <2>. QED BY <1>10, <2>1, <2>2, <2>3, <2>4, ChainIs DEF Touches
<1>11. CASE i = 11
  <2>1. DOMAIN SessionAndWebhookSecrets.down = 1..4
    BY DEF SessionAndWebhookSecrets
  <2>2. /\ Touches(SessionAndWebhookSecrets.down[1], WebhookColumns, {})
        /\ Touches(SessionAndWebhookSecrets.down[2], {}, {})
        /\ Touches(SessionAndWebhookSecrets.down[3], SessionColumn, {})
        /\ Touches(SessionAndWebhookSecrets.down[4], {}, {})
    BY DEF Touches, SessionAndWebhookSecrets
  <2>3. DownChange(11, 1, WebhookColumns, {})
    OBVIOUS
  <2>4. DownChange(11, 2, {}, {})
    OBVIOUS
  <2>5. DownChange(11, 3, SessionColumn, {})
    OBVIOUS
  <2>6. DownChange(11, 4, {}, {})
    OBVIOUS
  <2>. HIDE DEF DownChange, Drops, Adds, On, OldNames, NewNames, constraints
  <2>. QED BY <1>11, <2>1, <2>2, <2>3, <2>4, <2>5, <2>6, ChainIs DEF Touches
<1>12. CASE i = 12
  <2>1. DOMAIN RequireCompleteIdentity.down = 1..1
    BY DEF RequireCompleteIdentity
  <2>2. /\ Touches(RequireCompleteIdentity.down[1], {<<"user_", Identity, 1>>}, {})
    BY DEF Touches, RequireCompleteIdentity
  <2>3. DownChange(12, 1, {<<"user_", Identity, 1>>}, {})
    OBVIOUS
  <2>. HIDE DEF DownChange, Drops, Adds, On, OldNames, NewNames, constraints
  <2>. QED BY <1>12, <2>1, <2>2, <2>3, ChainIs DEF Touches
<1>13. CASE i = 13
  <2>1. DOMAIN ExpireWebhookSecrets.down = 1..1
    BY DEF ExpireWebhookSecrets
  <2>2. /\ Touches(ExpireWebhookSecrets.down[1], ExpiryColumn, {})
    BY DEF Touches, ExpireWebhookSecrets
  <2>3. DownChange(13, 1, ExpiryColumn, {})
    OBVIOUS
  <2>. HIDE DEF DownChange, Drops, Adds, On, OldNames, NewNames, constraints
  <2>. QED BY <1>13, <2>1, <2>2, <2>3, ChainIs DEF Touches
<1>14. CASE i = 14
  <2>1. DOMAIN UserResourceIndex.down = 1..1
    BY DEF UserResourceIndex
  <2>2. /\ Touches(UserResourceIndex.down[1], ResourceIndex, {})
    BY DEF Touches, UserResourceIndex
  <2>3. DownChange(14, 1, ResourceIndex, {})
    OBVIOUS
  <2>. HIDE DEF DownChange, Drops, Adds, On, OldNames, NewNames, constraints
  <2>. QED BY <1>14, <2>1, <2>2, <2>3, ChainIs DEF Touches
<1>15. CASE i = 15
  <2>1. DOMAIN WebhookSecretStorage.down = 1..6
    BY DEF WebhookSecretStorage, HardenWebhookSecrets, RestoreWebhookSecrets
  <2>2. /\ Touches(WebhookSecretStorage.down[1], {}, {})
        /\ Touches(WebhookSecretStorage.down[2], {}, {})
        /\ Touches(WebhookSecretStorage.down[3], {Expanded("user_", Webhook, 0)}, {})
        /\ Touches(WebhookSecretStorage.down[4], UniqueDigest, UniqueCiphertext)
        /\ Touches(WebhookSecretStorage.down[5], WebhookDigest, {})
        /\ Touches(WebhookSecretStorage.down[6], {}, {})
    BY DEF Touches, WebhookSecretStorage, HardenWebhookSecrets, RestoreWebhookSecrets
  <2>3. DownChange(15, 1, {}, {})
    OBVIOUS
  <2>4. DownChange(15, 2, {}, {})
    OBVIOUS
  <2>5. DownChange(15, 3, {Expanded("user_", Webhook, 0)}, {})
    OBVIOUS
  <2>6. DownChange(15, 4, UniqueDigest, UniqueCiphertext)
    OBVIOUS
  <2>7. DownChange(15, 5, WebhookDigest, {})
    OBVIOUS
  <2>8. DownChange(15, 6, {}, {})
    OBVIOUS
  <2>. HIDE DEF DownChange, Drops, Adds, On, OldNames, NewNames, constraints
  <2>. QED BY <1>15, <2>1, <2>2, <2>3, <2>4, <2>5, <2>6, <2>7, <2>8, ChainIs DEF Touches
<1>16. CASE i = 16
  <2>1. DOMAIN RepairChecks.down = 1..0
    BY DEF RepairChecks
  <2>. QED BY <1>16, <2>1, ChainIs
<1>17. CASE i = 17
  <2>1. DOMAIN ConvertSessionSecrets.down = 1..2
    BY DEF ConvertSessionSecrets
  <2>2. /\ Touches(ConvertSessionSecrets.down[1], {}, {})
        /\ Touches(ConvertSessionSecrets.down[2], {}, {})
    BY DEF Touches, ConvertSessionSecrets
  <2>3. DownChange(17, 1, {}, {})
    OBVIOUS
  <2>4. DownChange(17, 2, {}, {})
    OBVIOUS
  <2>. HIDE DEF DownChange, Drops, Adds, On, OldNames, NewNames, constraints
  <2>. QED BY <1>17, <2>1, <2>2, <2>3, <2>4, ChainIs DEF Touches
<1>19. CASE i = 19
  <2>1. DOMAIN ComputeBackends.down = 1..1
    BY DEF ComputeBackends
  <2>2. /\ Touches(ComputeBackends.down[1], Backends, {})
    BY DEF Touches, ComputeBackends
  <2>3. DownChange(19, 1, Backends, {})
    OBVIOUS
  <2>. HIDE DEF DownChange, Drops, Adds, On, OldNames, NewNames, constraints
  <2>. QED BY <1>19, <2>1, <2>2, <2>3, ChainIs DEF Touches
<1>. HIDE DEF DownChange, Drops, Adds
<1>. QED BY <1>1, <1>2, <1>3, <1>4, <1>5, <1>6, <1>7, <1>8, <1>9, <1>10, <1>11,
            <1>12, <1>13, <1>14, <1>15, <1>16, <1>17, <1>19

\* An object that leaves, or returns, late is one of few.
LEMMA Lives ==
  ASSUME NEW o
  PROVE  /\ Born(o) \in {0, 11, 21, 31, 41, 42, 43, 56, 61, 71, 72, 81, 91, 93, 101,
                         111, 112, 131, 141, 151, 154, 191, Never}
         /\ Dies(o) \in {24, 31, 41, 154, 181, Never}
         /\ Leaves(o) \in 1..5 /\ Returns(o) \in 1..4
         /\ Leaves(o) > 1 => Born(o) \in {11, 21, 41, 42, 71, 91, 111, 151, 154}
         /\ Leaves(o) > 2 => Born(o) \in {11, 21, 41, 91, 111, 151, 154}
         /\ Leaves(o) > 3 => Born(o) \in {11, 21, 151, 154}
         /\ Leaves(o) > 4 => Born(o) \in {21, 151}
         /\ Returns(o) > 1 => Dies(o) \in {24, 41, 154}
         /\ Returns(o) > 2 => Dies(o) \in {41, 154}
         /\ Returns(o) > 3 => Dies(o) = 154
<1>1. Born(o) \in {0, 11, 21, 31, 41, 42, 43, 56, 61, 71, 72, 81, 91, 93, 101,
                  111, 112, 131, 141, 151, 154, 191, Never}
  BY SMTT(60) DEF Born
<1>2. Dies(o) \in {24, 31, 41, 154, 181, Never}
  BY DEF Dies
<1>3. Leaves(o) \in 1..5 /\ Returns(o) \in 1..4
  BY DEF Leaves, Returns
<1>. USE DEF Pending, UserToken, TokenTypes, MajorMinor, NameUnique, RunNumber,
             OwnerUnique, JobIndex, StatusIndex, CacheKey, JobKey, Sharing,
             Services, PeriodMonths, PeriodStart, IdpColumns, SessionColumn,
             WebhookColumns, ExpiryColumn, ResourceIndex, Backends,
             RunNumberConstraint, FirstCatalog, OldNames, NewNames,
             constraints, WebhookDigest, UniqueDigest, UniqueCiphertext, On
<1>4. Leaves(o) > 1 => Born(o) \in {11, 21, 41, 42, 71, 91, 111, 151, 154}
  BY DEF Leaves, Born
<1>5. Leaves(o) > 2 => Born(o) \in {11, 21, 41, 91, 111, 151, 154}
  BY DEF Leaves, Born
<1>6. Leaves(o) > 3 => Born(o) \in {11, 21, 151, 154}
  BY DEF Leaves, Born
<1>7. Leaves(o) > 4 => Born(o) \in {21, 151}
  BY DEF Leaves, Born
<1>8. /\ Returns(o) > 1 => Dies(o) \in {24, 41, 154}
      /\ Returns(o) > 2 => Dies(o) \in {41, 154}
      /\ Returns(o) > 3 => Dies(o) = 154
  BY DEF Returns, Dies, Never
<1>. QED BY ONLY <1>1, <1>2, <1>3, <1>4, <1>5, <1>6, <1>7, <1>8

UpLengths   == <<2, 6, 1, 3, 6, 1, 2, 1, 3, 1, 2, 2, 1, 1, 5, 2, 2, 1, 1>>
DownLengths == <<4, 6, 1, 3, 2, 1, 2, 1, 3, 2, 4, 1, 1, 1, 6, 0, 2, 1, 1>>

LEMMA Lengths ==
  ASSUME NEW i \in 1..19
  PROVE  /\ Len(Chain[i].up) = UpLengths[i]
         /\ Len(Chain[i].down) = DownLengths[i]
<1>. DEFINE Fits(script, k) == /\ Len(script.up) = UpLengths[k]
                              /\ Len(script.down) = DownLengths[k]
<1>1. Fits(PendingStatus, 1)
  BY DEF PendingStatus, UpLengths, DownLengths
<1>2. Fits(SplitRunNumber, 2)
  BY DEF SplitRunNumber, UpLengths, DownLengths
<1>3. Fits(EnforceNamingConvention, 3)
  BY DEF EnforceNamingConvention, UpLengths, DownLengths
<1>4. Fits(ImproveIndexesUsage, 4)
  BY DEF ImproveIndexesUsage, UpLengths, DownLengths
<1>5. Fits(JobForeignKey, 5)
  BY DEF JobForeignKey, UpLengths, DownLengths
<1>6. Fits(WorkflowSharing, 6)
  BY DEF WorkflowSharing, UpLengths, DownLengths
<1>7. Fits(ServiceTables, 7)
  BY DEF ServiceTables, UpLengths, DownLengths
<1>8. Fits(ServiceLogs, 8)
  BY DEF ServiceLogs, UpLengths, DownLengths
<1>9. Fits(QuotaPeriods, 9)
  BY DEF QuotaPeriods, UpLengths, DownLengths
<1>10. Fits(IdpIdentity, 10)
  BY DEF IdpIdentity, UpLengths, DownLengths
<1>11. Fits(SessionAndWebhookSecrets, 11)
  BY DEF SessionAndWebhookSecrets, UpLengths, DownLengths
<1>12. Fits(RequireCompleteIdentity, 12)
  BY DEF RequireCompleteIdentity, UpLengths, DownLengths
<1>13. Fits(ExpireWebhookSecrets, 13)
  BY DEF ExpireWebhookSecrets, UpLengths, DownLengths
<1>14. Fits(UserResourceIndex, 14)
  BY DEF UserResourceIndex, UpLengths, DownLengths
<1>15. Fits(WebhookSecretStorage, 15)
  BY DEF WebhookSecretStorage, HardenWebhookSecrets, RestoreWebhookSecrets,
         UpLengths, DownLengths
<1>16. Fits(RepairChecks, 16)
  BY DEF RepairChecks, UpLengths, DownLengths
<1>17. Fits(ConvertSessionSecrets, 17)
  BY DEF ConvertSessionSecrets, UpLengths, DownLengths
<1>18. Fits(DropUserToken, 18)
  BY DEF DropUserToken, UpLengths, DownLengths
<1>19. Fits(ComputeBackends, 19)
  BY DEF ComputeBackends, UpLengths, DownLengths
<1>. HIDE DEF Fits
<1>20. Fits(Chain[i], i)
  BY <1>1, <1>2, <1>3, <1>4, <1>5, <1>6, <1>7, <1>8, <1>9, <1>10, <1>11,
     <1>12, <1>13, <1>14, <1>15, <1>16, <1>17, <1>18, <1>19, ChainIs
<1>. QED BY <1>20 DEF Fits

\* Between two scripts Is and IsDown agree.
LEMMA UpEnds ==
  ASSUME NEW i \in 1..19, NEW o
  PROVE  Is(o, 10 * i + UpLengths[i] + 1) <=> Is(o, 10 * i + 11)
<1>1. UpLengths[i] \in 1..6
  BY DEF UpLengths
<1>. QED BY Lives DEF Is, UpLengths, Never

LEMMA DownEnds ==
  ASSUME NEW i \in 1..19, NEW o
  PROVE  /\ IsDown(o, i, DownLengths[i] + 1) <=> Is(o, 10 * i + 1)
         /\ IsDown(o, i, 1) <=> Is(o, 10 * i + 11)
BY Lives DEF Is, IsDown, DownLengths, Never

\* What the j-th statement of the i-th upgrade may ask of the rows.
AsksFor(i, j, s) ==
  /\ s.op = "ddl" => \/ s.about \in {"nothing", "numbers unique"}
                     \/ i = 5 /\ j = 4 /\ s.about = "cached jobs exist"
                     \/ s.about \in {"no null workflow", "workflows exist"}
                     \/ i = 15 /\ j = 4 /\ s.about = "digests unique"
  /\ s.op = "check" => \/ s.about \in {"nothing", "identities complete"}
                       \/ i = 15 /\ j = 5 /\ s.about = "digests complete"
  /\ s.op = "repair" => s.about \in {"nothing", "identities complete"}
  /\ s.op = "refuse_if" => s.about = "partial identity"

LEMMA UpAsks ==
  ASSUME NEW i \in 1..19, NEW j \in DOMAIN Chain[i].up
  PROVE  AsksFor(i, j, Chain[i].up[j])
<1>. USE DEF Statement, Create, Drop, Validated, Swap, Rows, CreateCheck
<1>1. CASE i = 1
  <2>1. DOMAIN PendingStatus.up = 1..2
    BY DEF PendingStatus
  <2>2. /\ AsksFor(1, 1, PendingStatus.up[1])
        /\ AsksFor(1, 2, PendingStatus.up[2])
    BY DEF AsksFor, PendingStatus
  <2>. QED BY <1>1, <2>1, <2>2, ChainIs
<1>2. CASE i = 2
  <2>1. DOMAIN SplitRunNumber.up = 1..6
    BY DEF SplitRunNumber
  <2>2. /\ AsksFor(2, 1, SplitRunNumber.up[1])
        /\ AsksFor(2, 2, SplitRunNumber.up[2])
        /\ AsksFor(2, 3, SplitRunNumber.up[3])
        /\ AsksFor(2, 4, SplitRunNumber.up[4])
        /\ AsksFor(2, 5, SplitRunNumber.up[5])
        /\ AsksFor(2, 6, SplitRunNumber.up[6])
    BY DEF AsksFor, SplitRunNumber
  <2>. QED BY <1>2, <2>1, <2>2, ChainIs
<1>3. CASE i = 3
  <2>1. DOMAIN EnforceNamingConvention.up = 1..1
    BY DEF EnforceNamingConvention
  <2>2. /\ AsksFor(3, 1, EnforceNamingConvention.up[1])
    BY DEF AsksFor, EnforceNamingConvention
  <2>. QED BY <1>3, <2>1, <2>2, ChainIs
<1>4. CASE i = 4
  <2>1. DOMAIN ImproveIndexesUsage.up = 1..3
    BY DEF ImproveIndexesUsage
  <2>2. /\ AsksFor(4, 1, ImproveIndexesUsage.up[1])
        /\ AsksFor(4, 2, ImproveIndexesUsage.up[2])
        /\ AsksFor(4, 3, ImproveIndexesUsage.up[3])
    BY DEF AsksFor, ImproveIndexesUsage
  <2>. QED BY <1>4, <2>1, <2>2, ChainIs
<1>5. CASE i = 5
  <2>1. DOMAIN JobForeignKey.up = 1..6
    BY DEF JobForeignKey
  <2>2. /\ AsksFor(5, 1, JobForeignKey.up[1])
        /\ AsksFor(5, 2, JobForeignKey.up[2])
        /\ AsksFor(5, 3, JobForeignKey.up[3])
        /\ AsksFor(5, 4, JobForeignKey.up[4])
        /\ AsksFor(5, 5, JobForeignKey.up[5])
        /\ AsksFor(5, 6, JobForeignKey.up[6])
    BY DEF AsksFor, JobForeignKey
  <2>. QED BY <1>5, <2>1, <2>2, ChainIs
<1>6. CASE i = 6
  <2>1. DOMAIN WorkflowSharing.up = 1..1
    BY DEF WorkflowSharing
  <2>2. /\ AsksFor(6, 1, WorkflowSharing.up[1])
    BY DEF AsksFor, WorkflowSharing
  <2>. QED BY <1>6, <2>1, <2>2, ChainIs
<1>7. CASE i = 7
  <2>1. DOMAIN ServiceTables.up = 1..2
    BY DEF ServiceTables
  <2>2. /\ AsksFor(7, 1, ServiceTables.up[1])
        /\ AsksFor(7, 2, ServiceTables.up[2])
    BY DEF AsksFor, ServiceTables
  <2>. QED BY <1>7, <2>1, <2>2, ChainIs
<1>8. CASE i = 8
  <2>1. DOMAIN ServiceLogs.up = 1..1
    BY DEF ServiceLogs
  <2>2. /\ AsksFor(8, 1, ServiceLogs.up[1])
    BY DEF AsksFor, ServiceLogs
  <2>. QED BY <1>8, <2>1, <2>2, ChainIs
<1>9. CASE i = 9
  <2>1. DOMAIN QuotaPeriods.up = 1..3
    BY DEF QuotaPeriods
  <2>2. /\ AsksFor(9, 1, QuotaPeriods.up[1])
        /\ AsksFor(9, 2, QuotaPeriods.up[2])
        /\ AsksFor(9, 3, QuotaPeriods.up[3])
    BY DEF AsksFor, QuotaPeriods
  <2>. QED BY <1>9, <2>1, <2>2, ChainIs
<1>10. CASE i = 10
  <2>1. DOMAIN IdpIdentity.up = 1..1
    BY DEF IdpIdentity
  <2>2. /\ AsksFor(10, 1, IdpIdentity.up[1])
    BY DEF AsksFor, IdpIdentity
  <2>. QED BY <1>10, <2>1, <2>2, ChainIs
<1>11. CASE i = 11
  <2>1. DOMAIN SessionAndWebhookSecrets.up = 1..2
    BY DEF SessionAndWebhookSecrets
  <2>2. /\ AsksFor(11, 1, SessionAndWebhookSecrets.up[1])
        /\ AsksFor(11, 2, SessionAndWebhookSecrets.up[2])
    BY DEF AsksFor, SessionAndWebhookSecrets
  <2>. QED BY <1>11, <2>1, <2>2, ChainIs
<1>12. CASE i = 12
  <2>1. DOMAIN RequireCompleteIdentity.up = 1..2
    BY DEF RequireCompleteIdentity
  <2>2. /\ AsksFor(12, 1, RequireCompleteIdentity.up[1])
        /\ AsksFor(12, 2, RequireCompleteIdentity.up[2])
    BY DEF AsksFor, RequireCompleteIdentity
  <2>. QED BY <1>12, <2>1, <2>2, ChainIs
<1>13. CASE i = 13
  <2>1. DOMAIN ExpireWebhookSecrets.up = 1..1
    BY DEF ExpireWebhookSecrets
  <2>2. /\ AsksFor(13, 1, ExpireWebhookSecrets.up[1])
    BY DEF AsksFor, ExpireWebhookSecrets
  <2>. QED BY <1>13, <2>1, <2>2, ChainIs
<1>14. CASE i = 14
  <2>1. DOMAIN UserResourceIndex.up = 1..1
    BY DEF UserResourceIndex
  <2>2. /\ AsksFor(14, 1, UserResourceIndex.up[1])
    BY DEF AsksFor, UserResourceIndex
  <2>. QED BY <1>14, <2>1, <2>2, ChainIs
<1>15. CASE i = 15
  <2>1. DOMAIN WebhookSecretStorage.up = 1..5
    BY DEF WebhookSecretStorage, HardenWebhookSecrets
  <2>2. /\ AsksFor(15, 1, WebhookSecretStorage.up[1])
        /\ AsksFor(15, 2, WebhookSecretStorage.up[2])
        /\ AsksFor(15, 3, WebhookSecretStorage.up[3])
        /\ AsksFor(15, 4, WebhookSecretStorage.up[4])
        /\ AsksFor(15, 5, WebhookSecretStorage.up[5])
    BY DEF AsksFor, WebhookSecretStorage, HardenWebhookSecrets
  <2>. QED BY <1>15, <2>1, <2>2, ChainIs
<1>16. CASE i = 16
  <2>1. DOMAIN RepairChecks.up = 1..2
    BY DEF RepairChecks
  <2>2. /\ AsksFor(16, 1, RepairChecks.up[1])
        /\ AsksFor(16, 2, RepairChecks.up[2])
    BY DEF AsksFor, RepairChecks
  <2>. QED BY <1>16, <2>1, <2>2, ChainIs
<1>17. CASE i = 17
  <2>1. DOMAIN ConvertSessionSecrets.up = 1..2
    BY DEF ConvertSessionSecrets
  <2>2. /\ AsksFor(17, 1, ConvertSessionSecrets.up[1])
        /\ AsksFor(17, 2, ConvertSessionSecrets.up[2])
    BY DEF AsksFor, ConvertSessionSecrets
  <2>. QED BY <1>17, <2>1, <2>2, ChainIs
<1>18. CASE i = 18
  <2>1. DOMAIN DropUserToken.up = 1..1
    BY DEF DropUserToken
  <2>2. /\ AsksFor(18, 1, DropUserToken.up[1])
    BY DEF AsksFor, DropUserToken
  <2>. QED BY <1>18, <2>1, <2>2, ChainIs
<1>19. CASE i = 19
  <2>1. DOMAIN ComputeBackends.up = 1..1
    BY DEF ComputeBackends
  <2>2. /\ AsksFor(19, 1, ComputeBackends.up[1])
    BY DEF AsksFor, ComputeBackends
  <2>. QED BY <1>19, <2>1, <2>2, ChainIs
<1>. QED BY <1>1, <1>2, <1>3, <1>4, <1>5, <1>6, <1>7, <1>8, <1>9, <1>10, <1>11,
            <1>12, <1>13, <1>14, <1>15, <1>16, <1>17, <1>18, <1>19

(***************************************************************************)
(* Objects of the catalog, checks apart                                    *)
(***************************************************************************)
LEMMA Variant ==
  ASSUME NEW p \in SUBSET (0..2), NEW adds, NEW t, NEW n, NEW k, adds = {<<t, n, k>>}
  PROVE  UNION {Variants(o[1], o[2], p) : o \in adds} \subseteq Variants(t, n, 0..2)
BY DEF Variants

\* Where a check may appear, and under which names.
LEMMA ChecksAppear ==
  ASSUME MigrationInv, AStatement, Current.op = "check"
  PROVE  /\ db.catalog \subseteq db'.catalog
         /\ \/ /\ At("up", 9, 2)
               /\ db'.catalog \subseteq db.catalog \cup Variants("user_resource", Months, 0..2)
            \/ /\ At("up", 12, 2)
               /\ db'.catalog \subseteq db.catalog \cup Variants("user_", Identity, 0..2)
            \/ /\ At("up", 15, 5)
               /\ db'.catalog \subseteq db.catalog \cup {<<"user_", Webhook, 1>>}
<1>0. DbTyped /\ Executing /\ db.stamp \in Nat
  BY InvTyped, StatementStep DEF DbTyped, Databases
<1>1. PICK names : /\ db'.catalog = db.catalog \cup names
                   /\ \/ names = Current.adds
                      \/ /\ \E o \in Current.adds : o[2] # Webhook
                         /\ \E p \in Earlier :
                              names = UNION {Variants(o[1], o[2], p) : o \in Current.adds}
  BY <1>0, CatalogStep
<1>2. mig.dir = "up" /\ KnownUp(db.stamp + 1, mig.pos, Current)
  BY <1>0, CurrentIs DEF KnownDown
<1>3. \A p \in Earlier : p \in SUBSET (0..2)
  BY BoundsAssumption
<1>4. CASE db.stamp + 1 = 9 /\ mig.pos = 2 /\ Current.adds = {<<"user_resource", Months, 2>>}
  <2>0. Current.adds = {<<"user_resource", Months, 2>>}
    BY <1>4
  <2>1. Current.adds \subseteq Variants("user_resource", Months, 0..2)
    BY <2>0 DEF Variants
  <2>2. names \subseteq Variants("user_resource", Months, 0..2)
    <3>1. \A p \in Earlier :
            UNION {Variants(o[1], o[2], p) : o \in Current.adds}
              \subseteq Variants("user_resource", Months, 0..2)
      BY ONLY <1>3, <2>0, Variant
    <3>. QED BY ONLY <1>1, <2>1, <3>1
  <2>. QED BY <1>0, <1>1, <1>2, <1>4, <2>2 DEF At
<1>5. CASE /\ db.stamp + 1 = 12 /\ mig.pos = 2
           /\ Current = CreateCheck("user_", Identity, 0, "identities complete")
  <2>0. \A rows : CreateCheck("user_", Identity, 0, rows).adds = {<<"user_", Identity, 1>>}
    BY DEF CreateCheck, Statement, Expanded
  <2>1. Current.adds = {<<"user_", Identity, 1>>}
    BY ONLY <1>5, <2>0, Zenon
  <2>2. Current.adds \subseteq Variants("user_", Identity, 0..2)
    BY <2>1 DEF Variants
  <2>3. names \subseteq Variants("user_", Identity, 0..2)
    BY ONLY <1>1, <1>3, <2>1, <2>2, Variant
  <2>4. db.stamp + 1 = 12 /\ mig.pos = 2
    BY ONLY <1>5, Zenon
  <2>. QED BY ONLY <1>0, <1>1, <1>2, <2>3, <2>4 DEF At
<1>6. CASE db.stamp + 1 = 15 /\ mig.pos = 5 /\ Current.adds = {<<"user_", Webhook, 1>>}
  <2>1. \A o \in Current.adds : o[2] = Webhook
    BY <1>6
  <2>. QED BY <1>0, <1>1, <1>2, <1>6, <2>1 DEF At
<1>7. \/ db.stamp + 1 = 9 /\ mig.pos = 2 /\ Current.adds = {<<"user_resource", Months, 2>>}
      \/ /\ db.stamp + 1 = 12 /\ mig.pos = 2
         /\ Current = CreateCheck("user_", Identity, 0, "identities complete")
      \/ db.stamp + 1 = 15 /\ mig.pos = 5 /\ Current.adds = {<<"user_", Webhook, 1>>}
  BY ONLY <1>2, Current.op = "check", Zenon DEF KnownUp
<1>. QED BY ONLY <1>4, <1>5, <1>6, <1>7, Zenon

\* A repair touches nothing but its check.
LEMMA Repairs ==
  ASSUME MigrationInv, AStatement, Current.op = "repair"
  PROVE  /\ mig.dir = "up" /\ db.stamp = 15
         /\ Current.adds \cup Names(Current) \subseteq CheckObjects
<1>0. DbTyped /\ Executing /\ db.stamp \in Nat
  BY InvTyped, StatementStep DEF DbTyped, Databases
<1>1. /\ mig.dir = "up" /\ db.stamp + 1 = 16
      /\ mig.pos \in DOMAIN Chain[16].up /\ Current = Chain[16].up[mig.pos]
  BY <1>0, CurrentIs DEF KnownUp, KnownDown
<1>2. ASSUME NEW t, NEW n, Current.adds = {<<t, n, 1>>}
      PROVE  Names(Current) \subseteq Variants(t, n, 0..2)
  BY <1>2 DEF Names, Variants
<1>3. mig.pos \in 1..2
  BY <1>1, RepairScripts
<1>4. \A s, l, adds, rows : s = Statement("repair", l, {}, adds, rows) => s.adds = adds
  BY DEF Statement
<1>5. \/ Current.adds = {<<"user_resource", Months, 1>>}
      \/ Current.adds = {<<"user_", Identity, 1>>}
  <2>1. \/ Current = Statement("repair", {"user_resource"}, {},
                      {<<"user_resource", Months, 1>>}, "nothing")
        \/ Current = Statement("repair", {"user_"}, {},
                      {<<"user_", Identity, 1>>}, "identities complete")
    <3>1. Current = Chain[16].up[1] \/ Current = Chain[16].up[2]
      BY <1>1, <1>3
    <3>. QED BY ONLY <3>1, Named, Zenon
  <2>. QED BY ONLY <1>4, <2>1, Zenon
<1>6. /\ Variants("user_resource", Months, 0..2) \cup Variants("user_", Identity, 0..2)
           \subseteq CheckObjects
      /\ <<"user_resource", Months, 1>> \in CheckObjects
      /\ <<"user_", Identity, 1>> \in CheckObjects
  BY DEF CheckObjects, Variants
<1>. QED BY <1>0, <1>1, <1>2, <1>5, <1>6

\* Other objects come and go in the statements that name them.
LEMMA ObjectsStep ==
  ASSUME MigrationInv, AStatement, NEW o, o \notin CheckObjects
  PROVE  o \in db'.catalog <=>
           \/ o \in Adds(Current)
           \/ /\ o \in db.catalog /\ o \notin Drops(Current)
              /\ <<o[1]>> \notin Drops(Current)
<1>0. DbTyped
  BY InvTyped
<1>1. CASE Current.op \in {"ddl", "drop_or_refuse"}
  BY <1>0, <1>1, CatalogStep DEF Remaining, Adds, Drops
<1>2. CASE Current.op = "check"
  BY <1>2, ChecksAppear DEF CheckObjects, Adds, Drops
<1>3. CASE Current.op = "repair"
  <2>1. db'.catalog = (db.catalog \ Names(Current)) \cup Current.adds
    BY <1>0, <1>3, CatalogStep
  <2>. QED BY <1>3, <2>1, Repairs DEF Adds, Drops
<1>4. CASE Current.op \notin {"ddl", "drop_or_refuse", "check", "repair"}
  BY <1>0, <1>4, CatalogStep DEF Adds, Drops
<1>. QED BY <1>1, <1>2, <1>3, <1>4

\* The script of the eighteenth revision has no way back.
LEMMA Irreversible ==
  ASSUME Current = Chain[18].down[1]
  PROVE  Error # "none"
<1>1. Chain[18].down[1] = Rows("refuse_if", "irreversible")
  <2>1. DropUserToken.down[1] = Rows("refuse_if", "irreversible")
    BY DEF DropUserToken
  <2>. QED BY ONLY <2>1, ChainIs, Zenon
<1>2. Current.op = "refuse_if" /\ Current.about = "irreversible"
  BY <1>1 DEF Rows, Statement
<1>3. Refused("irreversible")
  BY Zenon DEF Refused
<1>4. Refused(Current.about)
  BY ONLY <1>2, <1>3, Zenon
<1>. QED BY <1>2, <1>4 DEF Error

LEMMA NotBack ==
  ASSUME MigrationInv, CatalogInv, AStatement
  PROVE  ~ (mig.dir = "down" /\ db.stamp = 18)
<1>. SUFFICES ASSUME mig.dir = "down", db.stamp = 18 PROVE FALSE
  OBVIOUS
<1>0. DbTyped /\ mig.pos \in Nat \ {0} /\ Executing /\ Error = "none"
  BY InvTyped, StatementStep DEF DbTyped, Commands
<1>1. mig.pos <= 1 /\ Current = Chain[18].down[mig.pos]
  BY <1>0, CurrentIs DEF CatalogInv, Past
<1>2. mig.pos = 1
  BY <1>0, <1>1
<1>. QED BY <1>0, <1>1, <1>2, Irreversible

LEMMA CatalogInit == Init => CatalogInv
<1>. SUFFICES ASSUME Init PROVE CatalogInv
  OBVIOUS
<1>1. /\ db.stamp = 0 /\ db.catalog = FirstCatalog /\ saved = db
      /\ mig.dir = "idle" /\ mig.pos = 1
  <2>1. PICK runs : db = [stamp |-> 0, catalog |-> FirstCatalog,
                secret |-> [h \in Holders |-> NoSecret],
                digest |-> [u \in Users |-> NoText],
                last |-> [h \in Holders |-> NoText], raced |-> {},
                identity |-> [u \in Users |-> "none"],
                job |-> [j \in Jobs |-> "none"], cached |-> {},
                pending |-> {}, logged |-> {}, runs |-> runs]
    BY Zenon DEF Init
  <2>2. db.stamp = 0 /\ db.catalog = FirstCatalog
    BY <2>1
  <2>. QED BY <2>2 DEF Init, Idle
<1>2. \A o : o \in FirstCatalog <=> Is(o, 11)
  <2>. TAKE o
  <2>1. o \in FirstCatalog <=> Born(o) = 0
    BY DEF Born, Never, Pending, UserToken, TokenTypes, MajorMinor, NameUnique,
           RunNumber, OwnerUnique, JobIndex, StatusIndex, CacheKey, JobKey,
           Sharing, Services, PeriodMonths, PeriodStart, IdpColumns,
           SessionColumn, WebhookColumns, ExpiryColumn, ResourceIndex,
           Backends, FirstCatalog, OldNames, NewNames, constraints,
           WebhookDigest, UniqueDigest, On
  <2>2. Is(o, 11) <=> Born(o) = 0
    BY Lives DEF Is, Never
  <2>. QED BY <2>1, <2>2
<1>. QED BY <1>1, <1>2 DEF CatalogInv, AtRest, Has, Past

LEMMA CatalogStatement ==
  ASSUME MigrationInv, CatalogInv, AStatement
  PROVE  CatalogInv'
<1>0. DbTyped /\ mig.pos \in Nat /\ db.stamp \in Nat
  BY InvTyped DEF DbTyped, Databases, Commands
<1>1. /\ Executing /\ Error = "none" /\ saved' = saved /\ db'.stamp = db.stamp
      /\ mig'.dir = mig.dir /\ mig'.target = mig.target /\ mig'.pos = mig.pos + 1
      /\ db.stamp # mig.target /\ mig.dir # "idle"
  BY <1>0, StatementStep DEF Executing, Running
<1>2. ~ (mig.dir = "down" /\ db.stamp = 18)
  BY NotBack
<1>3. ASSUME NEW o, o \notin CheckObjects
      PROVE  o \in db'.catalog <=> Has(o)'
  <2>1. o \in db.catalog <=> Has(o)
    BY <1>3 DEF CatalogInv
  <2>2. o \in db'.catalog <=>
           \/ o \in Adds(Current)
           \/ /\ o \in db.catalog /\ o \notin Drops(Current)
              /\ <<o[1]>> \notin Drops(Current)
    BY <1>3, ObjectsStep
  <2>3. CASE mig.dir = "up"
    <3>1. /\ db.stamp + 1 \in 1..19 /\ mig.pos \in DOMAIN Chain[db.stamp + 1].up
          /\ Current = Chain[db.stamp + 1].up[mig.pos]
      BY <1>1, <2>3, CurrentIs
    <3>2. UpChange(10 * (db.stamp + 1) + mig.pos, Drops(Current), Adds(Current))
      BY <3>1, UpChanges
    <3>3. /\ Has(o) <=> Is(o, 10 * (db.stamp + 1) + mig.pos)
          /\ Has(o)' <=> Is(o, 10 * (db.stamp + 1) + mig.pos + 1)
      <4>1. /\ 10 * db.stamp + 10 + mig.pos = 10 * (db.stamp + 1) + mig.pos
            /\ 10 * db'.stamp + 10 + mig'.pos = 10 * (db.stamp + 1) + mig.pos + 1
        BY <1>0, <1>1
      <4>. QED BY <1>1, <2>3, <4>1 DEF Has
    <3>. QED BY ONLY <1>3, <2>1, <2>2, <3>2, <3>3 DEF UpChange
  <2>4. CASE mig.dir = "down"
    <3>1. /\ db.stamp \in 1..19 /\ mig.pos \in DOMAIN Chain[db.stamp].down
          /\ Current = Chain[db.stamp].down[mig.pos]
      BY <1>1, <2>4, CurrentIs
    <3>2. DownChange(db.stamp, mig.pos, Drops(Current), Adds(Current))
      BY <1>2, <2>4, <3>1, DownChanges
    <3>3. /\ Has(o) <=> IsDown(o, db.stamp, mig.pos)
          /\ Has(o)' <=> IsDown(o, db.stamp, mig.pos + 1)
      BY <1>1, <2>4 DEF Has
    <3>. QED BY ONLY <1>3, <2>1, <2>2, <3>2, <3>3 DEF DownChange
  <2>. QED BY <1>1, <2>3, <2>4, CurrentIs
<1>4. ~ Past("down", 18, 1)'
  BY <1>1, <1>2 DEF Past
<1>. QED BY <1>1, <1>3, <1>4 DEF CatalogInv

LEMMA CatalogStamp ==
  ASSUME MigrationInv, CatalogInv, Stamp
  PROVE  CatalogInv'
<1>0. DbTyped /\ mig.pos \in Nat /\ db.stamp \in Nat /\ mig.target \in Nat
  BY InvTyped, LenChain DEF DbTyped, Databases, Commands
<1>1. /\ saved' = saved /\ db.stamp # mig.target /\ mig.dir # "idle"
      /\ mig'.dir = mig.dir /\ mig'.target = mig.target /\ mig'.pos = 1
      /\ db'.catalog = db.catalog
      /\ \/ /\ mig.dir = "up" /\ db'.stamp = db.stamp + 1
            /\ db.stamp + 1 \in 1..19
            /\ mig.pos = Len(Chain[db.stamp + 1].up) + 1
         \/ /\ mig.dir = "down" /\ db'.stamp = db.stamp - 1
            /\ db.stamp \in 1..19
            /\ mig.pos = Len(Chain[db.stamp].down) + 1
  BY <1>0, StampStep DEF Running
<1>2. ASSUME NEW o PROVE Has(o)' <=> Has(o)
  <2>1. CASE mig.dir = "up"
    <3>1. /\ db'.stamp = db.stamp + 1 /\ db.stamp + 1 \in 1..19
          /\ mig.pos = UpLengths[db.stamp + 1] + 1
      BY <1>1, <2>1, Lengths
    <3>2. /\ Has(o) <=> Is(o, 10 * (db.stamp + 1) + UpLengths[db.stamp + 1] + 1)
          /\ Has(o)' <=> Is(o, 10 * (db.stamp + 1) + 11)
      <4>1. UpLengths[db.stamp + 1] \in Nat
        BY <3>1 DEF UpLengths
      <4>2. /\ 10 * db.stamp + 10 + mig.pos
                 = 10 * (db.stamp + 1) + UpLengths[db.stamp + 1] + 1
            /\ 10 * db'.stamp + 10 + mig'.pos = 10 * (db.stamp + 1) + 11
        <5>1. mig'.pos = 1
          BY <1>1
        <5>. QED BY ONLY <1>0, <3>1, <4>1, <5>1
      <4>. QED BY <1>1, <2>1, <4>2 DEF Has
    <3>. QED BY <3>1, <3>2, UpEnds
  <2>2. CASE mig.dir = "down"
    <3>1. /\ db'.stamp = db.stamp - 1 /\ db.stamp \in 1..19
          /\ mig.pos = DownLengths[db.stamp] + 1
      BY <1>1, <2>2, Lengths
    <3>2. Has(o) <=> IsDown(o, db.stamp, DownLengths[db.stamp] + 1)
      BY <1>1, <2>2, <3>1 DEF Has
    <3>3. Has(o)' <=> Is(o, 10 * db.stamp + 1)
      <4>1. CASE db'.stamp = mig.target
        <5>1. 10 * db'.stamp + 10 + mig'.pos = 10 * db.stamp + 1
          BY <1>0, <1>1, <3>1
        <5>. QED BY <1>1, <2>2, <4>1, <5>1 DEF Has
      <4>2. CASE db'.stamp # mig.target
        <5>1. db.stamp - 1 \in 1..19
          BY <1>0, <1>1, <2>2, <3>1, <4>2 DEF MigrationInv, Course
        <5>2. Has(o)' <=> IsDown(o, db.stamp - 1, 1)
          BY <1>1, <2>2, <3>1, <4>2 DEF Has
        <5>3. 10 * (db.stamp - 1) + 11 = 10 * db.stamp + 1
          BY <1>0
        <5>4. IsDown(o, db.stamp - 1, 1) <=> Is(o, 10 * (db.stamp - 1) + 11)
          BY ONLY <5>1, DownEnds
        <5>. QED BY <5>2, <5>3, <5>4
      <4>. QED BY <4>1, <4>2
    <3>. QED BY <3>1, <3>2, <3>3, DownEnds
  <2>. QED BY <1>1, <2>1, <2>2
<1>3. ~ Past("down", 18, 1)'
  BY <1>1 DEF Past
<1>. QED BY <1>1, <1>2, <1>3 DEF CatalogInv

LEMMA CatalogInvStep ==
  ASSUME MigrationInv, Resting, CatalogInv, [Next]_vars
  PROVE  CatalogInv'
<1>0. DbTyped /\ db.stamp \in Nat
  BY InvTyped DEF DbTyped, Databases
<1>1. CASE AStatement
  BY <1>1, CatalogStatement
<1>2. CASE \E h \in Holders : Convert(h)
  BY <1>0, <1>2, ConvertStep DEF CatalogInv, Has, Past
<1>3. CASE Stamp
  BY <1>3, CatalogStamp
<1>4. CASE Commit \/ Fail \/ Killed
  <2>1. mig'.dir = "idle" /\ mig'.pos = 1
    BY <1>0, <1>4, EndStep
  <2>2. \A o : Has(o)' <=> Is(o, AtRest(db'.stamp))
    <3>1. db'.stamp \in Nat
      BY <1>0, <1>4, EndStep DEF DbTyped, Databases
    <3>2. 10 * db'.stamp + 10 + mig'.pos = AtRest(db'.stamp)
      BY <2>1, <3>1 DEF AtRest
    <3>. QED BY <2>1, <3>2 DEF Has
  <2>3. CASE db' = saved /\ saved' = saved
    BY <2>1, <2>2, <2>3 DEF CatalogInv, Past
  <2>4. CASE Commit /\ db' = db /\ saved' = db /\ db.stamp = mig.target
    <3>1. mig.pos = 1
      BY <2>4 DEF Resting
    <3>2. 10 * db.stamp + 10 + mig.pos = AtRest(db.stamp)
      BY <1>0, <3>1 DEF AtRest
    <3>3. \A o : Has(o) <=> Is(o, AtRest(db.stamp))
      BY <2>4, <3>2 DEF Has
    <3>. QED BY <2>1, <2>2, <2>4, <3>3 DEF CatalogInv, Past
  <2>. QED BY <1>0, <1>4, <2>3, <2>4, EndStep
<1>5. CASE \E t \in Targets, key \in BOOLEAN : Start(t, key)
  <2>1. PICK t \in Targets, key \in BOOLEAN : Start(t, key)
    BY <1>5
  <2>2. /\ db' = db /\ saved' = saved /\ mig.dir = "idle" /\ mig.pos = 1 /\ mig'.pos = 1
        /\ mig'.dir \in {"up", "down"} /\ mig'.target = t
        /\ db.stamp # t
    BY <1>0, <2>1, StartStep DEF CatalogInv
  <2>3. ASSUME NEW o PROVE Has(o)' <=> Has(o)
    <3>1. CASE mig'.dir = "up"
      BY <2>2, <3>1 DEF Has
    <3>2. CASE mig'.dir = "down"
      <4>1. MigrationInv'
        BY NextInv
      <4>2. t < db.stamp /\ t \in 0..19 /\ db.stamp \in 0..19
        BY <1>0, <2>2, <3>2, <4>1, ChainIs, BoundsAssumption
           DEF MigrationInv, Course, DbTyped, Databases
      <4>3. db.stamp \in 1..19
        BY <4>2
      <4>4. Has(o)' <=> IsDown(o, db.stamp, 1)
        BY <2>2, <3>2 DEF Has
      <4>5. Has(o) <=> Is(o, 10 * db.stamp + 11)
        <5>1. 10 * db.stamp + 10 + mig.pos = 10 * db.stamp + 11
          BY <1>0, <2>2
        <5>. QED BY <2>2, <5>1 DEF Has
      <4>. QED BY <4>3, <4>4, <4>5, DownEnds
    <3>. QED BY <2>2, <3>1, <3>2
  <2>. QED BY <2>2, <2>3 DEF CatalogInv, Past
<1>6. CASE Servers
  BY <1>0, <1>6, ServersStep DEF CatalogInv, Has, Past
<1>7. CASE UNCHANGED vars
  BY <1>7 DEF CatalogInv, Has, Past, vars
<1>. QED BY <1>1, <1>2, <1>3, <1>4, <1>5, <1>6, <1>7, Steps

(***************************************************************************)
(* Checks are absent until they are created                                *)
(***************************************************************************)
\* A check appears in the statement that creates it, or is repaired.
LEMMA AppearsIn ==
  ASSUME MigrationInv, CatalogInv, AStatement,
         NEW o \in CheckObjects, o \in db'.catalog, o \notin db.catalog
  PROVE  \/ mig.dir = "up" /\ db.stamp = 15
         \/ At("up", 9, 2) /\ o \in Variants("user_resource", Months, 0..2)
         \/ At("up", 12, 2) /\ o \in Variants("user_", Identity, 0..2)
         \/ At("up", 15, 5) /\ o = <<"user_", Webhook, 1>>
<1>0. DbTyped /\ Executing
  BY InvTyped, StatementStep
<1>1. CASE Current.op \in {"ddl", "drop_or_refuse"}
  <2>1. o \in Adds(Current)
    BY <1>0, <1>1, CatalogStep DEF Remaining, Adds
  <2>2. Adds(Current) \cap CheckObjects = {}
    <3>1. CASE mig.dir = "up"
      BY <1>0, <3>1, CurrentIs, UpChanges DEF UpChange
    <3>2. CASE mig.dir = "down"
      BY <1>0, <3>2, CurrentIs, DownChanges, NotBack DEF DownChange
    <3>. QED BY <1>0, <3>1, <3>2, CurrentIs
  <2>. QED BY <2>1, <2>2
<1>2. CASE Current.op = "check"
  BY <1>2, ChecksAppear
<1>3. CASE Current.op = "repair"
  BY <1>3, Repairs
<1>4. CASE Current.op \notin {"ddl", "drop_or_refuse", "check", "repair"}
  BY <1>0, <1>4, CatalogStep
<1>. QED BY <1>1, <1>2, <1>3, <1>4

\* The m-th statement of the downgrade of rev takes o away.
TakesAway(o, rev, m) ==
  LET s == Chain[rev].down[m] IN
  /\ m <= Len(Chain[rev].down) /\ Len(Chain[rev].down) \in Nat
  /\ s.op \in {"ddl", "drop_or_refuse"}
  /\ o \in s.drops /\ o \notin s.adds

LEMMA AbsentStep ==
  ASSUME MigrationInv, CatalogInv, Resting, [Next]_vars,
         NEW o, NEW rev \in 1..15, NEW n \in 1..6, NEW m \in 1..6,
         Absent(o, rev, n, m), TakesAway(o, rev, m),
         AStatement /\ o \in db'.catalog /\ o \notin db.catalog
           => At("up", rev, n) \/ (mig.dir = "up" /\ db.stamp = 15)
  PROVE  Absent(o, rev, n, m)'
<1>0. /\ DbTyped /\ mig.pos \in Nat /\ db.stamp \in Nat /\ saved.stamp \in Nat
  BY InvTyped DEF DbTyped, Databases, Commands
<1>1. CASE AStatement
  <2>1. /\ Executing /\ saved' = saved /\ db'.stamp = db.stamp
        /\ mig'.dir = mig.dir /\ mig'.pos = mig.pos + 1
    BY <1>0, <1>1, StatementStep
  <2>2. ASSUME db'.stamp < rev, ~ Past("up", rev, n)' PROVE o \notin db'.catalog
    <3>1. db.stamp < rev /\ ~ Past("up", rev, n) /\ ~ At("up", rev, n)
      BY <1>0, <2>1, <2>2 DEF Past, At
    <3>. QED BY <1>1, <3>1 DEF Absent
  <2>3. ASSUME Past("down", rev, m)' PROVE o \notin db'.catalog
    <3>1. mig.dir = "down" /\ (Past("down", rev, m) \/ At("down", rev, m))
      BY <1>0, <2>1, <2>3 DEF Past, At
    <3>2. CASE Past("down", rev, m)
      BY <1>1, <3>1, <3>2 DEF Absent, At
    <3>3. CASE At("down", rev, m)
      <4>1. Current = Chain[rev].down[m]
        BY <3>3 DEF At, Current, Script
      <4>. QED BY <1>0, <1>1, <4>1, CatalogStep DEF TakesAway, Remaining
    <3>. QED BY <3>1, <3>2, <3>3
  <2>. QED BY <2>1, <2>2, <2>3 DEF Absent
<1>2. CASE \E h \in Holders : Convert(h)
  BY <1>0, <1>2, ConvertStep DEF Absent, Past
<1>3. CASE Stamp
  <2>1. /\ saved' = saved /\ mig'.dir = mig.dir /\ mig'.pos = 1
        /\ db'.catalog = db.catalog
        /\ \/ mig.dir = "up" /\ db'.stamp = db.stamp + 1
           \/ /\ mig.dir = "down" /\ db'.stamp = db.stamp - 1
              /\ mig.pos = Len(Chain[db.stamp].down) + 1
    BY <1>0, <1>3, StampStep
  <2>2. ASSUME db'.stamp < rev PROVE o \notin db.catalog
    <3>1. CASE db.stamp < rev /\ ~ Past("up", rev, n)
      BY <3>1 DEF Absent
    <3>2. CASE db.stamp >= rev \/ Past("up", rev, n)
      <4>1. mig.dir = "down" /\ db.stamp = rev
        <5>1. rev \in Nat
          OBVIOUS
        <5>. QED BY ONLY <1>0, <2>1, <2>2, <3>2, <5>1 DEF Past
      <4>2. Past("down", rev, m)
        BY <2>1, <4>1 DEF Past, TakesAway
      <4>. QED BY <4>2 DEF Absent
    <3>. QED BY <1>0, <3>1, <3>2
  <2>3. ~ Past("down", rev, m)'
    BY <2>1 DEF Past
  <2>. QED BY <2>1, <2>2, <2>3 DEF Absent
<1>4. CASE Commit \/ Fail \/ Killed
  <2>1. mig'.dir = "idle"
    BY <1>0, <1>4, EndStep
  <2>2. CASE db' = saved /\ saved' = saved
    BY <2>1, <2>2 DEF Absent, Past
  <2>3. CASE Commit /\ db' = db /\ saved' = db /\ db.stamp = mig.target
    <3>1. mig.pos = 1
      BY <2>3 DEF Resting
    <3>. QED BY <2>1, <2>3, <3>1 DEF Absent, Past
  <2>. QED BY <1>0, <1>4, <2>2, <2>3, EndStep
<1>5. CASE \E t \in Targets, key \in BOOLEAN : Start(t, key)
  <2>1. db' = db /\ saved' = saved /\ mig.dir = "idle" /\ mig'.pos = 1
    BY <1>0, <1>5, StartStep
  <2>. QED BY <2>1 DEF Absent, Past
<1>6. CASE Servers
  BY <1>0, <1>6, ServersStep DEF Absent, Past
<1>7. CASE UNCHANGED vars
  BY <1>7 DEF Absent, Past, vars
<1>. QED BY <1>1, <1>2, <1>3, <1>4, <1>5, <1>6, <1>7, Steps

LEMMA ChecksTaken ==
  /\ TakesAway(<<"user_resource", Months, 2>>, 9, 2)
  /\ TakesAway(<<"user_", Identity, 1>>, 12, 1)
  /\ TakesAway(<<"user_", Webhook, 1>>, 15, 3)
<1>. USE DEF TakesAway, Statement, Drop, DropCheck, Expanded
<1>1. LET s == QuotaPeriods.down[2] IN
      /\ 2 <= Len(QuotaPeriods.down) /\ Len(QuotaPeriods.down) \in Nat
      /\ s.op = "ddl" /\ <<"user_resource", Months, 2>> \in s.drops /\ s.adds = {}
  BY DEF QuotaPeriods
<1>2. LET s == RequireCompleteIdentity.down[1] IN
      /\ 1 <= Len(RequireCompleteIdentity.down) /\ Len(RequireCompleteIdentity.down) \in Nat
      /\ s.op = "drop_or_refuse" /\ <<"user_", Identity, 1>> \in s.drops /\ s.adds = {}
  BY DEF RequireCompleteIdentity
<1>3. LET s == WebhookSecretStorage.down[3] IN
      /\ s.op = "ddl" /\ <<"user_", Webhook, 0 + 1>> \in s.drops /\ s.adds = {}
  BY DEF WebhookSecretStorage, RestoreWebhookSecrets
<1>4. 3 <= Len(Chain[15].down) /\ Len(Chain[15].down) \in Nat
  BY ScriptLengths
<1>5. /\ Chain[9] = QuotaPeriods /\ Chain[12] = RequireCompleteIdentity
      /\ Chain[15] = WebhookSecretStorage
  BY ChainIs
<1>6. TakesAway(<<"user_resource", Months, 2>>, 9, 2)
  BY ONLY <1>1, <1>5 DEF TakesAway
<1>7. TakesAway(<<"user_", Identity, 1>>, 12, 1)
  BY ONLY <1>2, <1>5 DEF TakesAway
<1>8. TakesAway(<<"user_", Webhook, 1>>, 15, 3)
  BY ONLY <1>3, <1>4, <1>5 DEF TakesAway
<1>. QED BY ONLY <1>6, <1>7, <1>8

LEMMA AbsentInit == Init => AbsentInv
<1>. SUFFICES ASSUME Init PROVE AbsentInv
  OBVIOUS
<1>1. mig.dir = "idle" /\ saved.catalog = FirstCatalog /\ db.catalog = FirstCatalog
  <2>1. PICK runs : db = [stamp |-> 0, catalog |-> FirstCatalog,
                secret |-> [h \in Holders |-> NoSecret],
                digest |-> [u \in Users |-> NoText],
                last |-> [h \in Holders |-> NoText], raced |-> {},
                identity |-> [u \in Users |-> "none"],
                job |-> [j \in Jobs |-> "none"], cached |-> {},
                pending |-> {}, logged |-> {}, runs |-> runs]
    BY Zenon DEF Init
  <2>2. db.catalog = FirstCatalog
    BY <2>1
  <2>. QED BY <2>2 DEF Init, Idle
<1>2. FirstCatalog \cap CheckObjects = {}
  BY DEF FirstCatalog, OldNames, constraints, TokenTypes, On, CheckObjects, Variants
<1>3. /\ <<"user_resource", Months, 2>> \in CheckObjects
      /\ <<"user_", Identity, 1>> \in CheckObjects
      /\ <<"user_", Webhook, 1>> \in CheckObjects
  BY DEF CheckObjects, Variants
<1>. QED BY <1>1, <1>2, <1>3 DEF AbsentInv, Absent, Past

LEMMA AbsentInvStep ==
  ASSUME MigrationInv, CatalogInv, AbsentInv, Resting, [Next]_vars
  PROVE  AbsentInv'
<1>1. /\ <<"user_resource", Months, 2>> \in CheckObjects
      /\ <<"user_", Identity, 1>> \in CheckObjects
      /\ <<"user_", Webhook, 1>> \in CheckObjects
  BY DEF CheckObjects, Variants
<1>2. /\ <<"user_resource", Months, 2>> \notin Variants("user_", Identity, 0..2)
      /\ <<"user_", Identity, 1>> \notin Variants("user_resource", Months, 0..2)
      /\ <<"user_", Webhook, 1>> \notin Variants("user_resource", Months, 0..2)
      /\ <<"user_", Webhook, 1>> \notin Variants("user_", Identity, 0..2)
      /\ <<"user_resource", Months, 2>> # <<"user_", Webhook, 1>>
      /\ <<"user_", Identity, 1>> # <<"user_", Webhook, 1>>
  BY DEF Variants, Identity, Webhook
<1>3. Absent(<<"user_resource", Months, 2>>, 9, 2, 2)'
  BY <1>1, <1>2, AppearsIn, AbsentStep, ChecksTaken DEF AbsentInv
<1>4. Absent(<<"user_", Identity, 1>>, 12, 2, 1)'
  BY <1>1, <1>2, AppearsIn, AbsentStep, ChecksTaken DEF AbsentInv
<1>5. Absent(<<"user_", Webhook, 1>>, 15, 5, 3)'
  BY <1>1, <1>2, AppearsIn, AbsentStep, ChecksTaken DEF AbsentInv
<1>. QED BY <1>3, <1>4, <1>5 DEF AbsentInv

(***************************************************************************)
(* Secrets of different rows are different                                 *)
(***************************************************************************)
\* What a conversion does to its row, and to no other.
LEMMA ConvertRow ==
  ASSUME DbTyped, NEW h \in Holders, Convert(h)
  PROVE  /\ h \in DOMAIN mig.fetched
         /\ Current.op \in {"convert_to_gcm", "convert_to_cbc"}
         /\ db'.secret = [db.secret EXCEPT
              ![h] = Encrypted(To(Current.op), mig.fetched[h].text)]
         /\ db'.digest = IF h \in Users /\ To(Current.op) = "gcm"
                         THEN [db.digest EXCEPT ![h] = mig.fetched[h].text]
                         ELSE db.digest
         /\ mig'.fetched = [g \in DOMAIN mig.fetched \ {h} |-> mig.fetched[g]]
<1>. DEFINE code == Encrypted(To(Current.op), mig.fetched[h].text)
            digest == IF h \in Users /\ To(Current.op) = "gcm"
                      THEN [db.digest EXCEPT ![h] = mig.fetched[h].text] ELSE db.digest
            rest == [g \in DOMAIN mig.fetched \ {h} |-> mig.fetched[g]]
<1>1. /\ h \in DOMAIN mig.fetched
      /\ Current.op \in {"convert_to_gcm", "convert_to_cbc"}
      /\ db' = [db EXCEPT !.secret[h] = code, !.digest = digest]
      /\ mig' = [mig EXCEPT !.converted = @ \cup {h}, !.fetched = rest]
  BY DEF Convert, Executes
<1>. HIDE DEF code, digest, rest
<1>2. /\ db'.secret = [db.secret EXCEPT ![h] = code] /\ db'.digest = digest
      /\ mig'.fetched = rest
  BY <1>1 DEF DbTyped, Databases, Commands
<1>. QED BY ONLY <1>1, <1>2 DEF code, digest, rest

\* No step but a server's write puts a secret into a row that did not hold it.
LEMMA HeldKept ==
  ASSUME SecretsInv, \A h \in Holders : Held(h)' \subseteq Held(h) \cup {NoText}
  PROVE  \A g, h \in Holders : g # h => Held(g)' \cap Held(h)' \subseteq {NoText}
BY DEF SecretsInv

LEMMA HeldStep ==
  ASSUME MigrationInv, [Next]_vars, ~ Servers, NEW h \in Holders
  PROVE  Held(h)' \subseteq Held(h) \cup {NoText}
<1>0. DbTyped /\ NoSecret.text = NoText
  BY InvTyped, SecretTypes
<1>1. CASE AStatement
  <2>1. saved' = saved
    BY <1>0, <1>1, StatementStep
  <2>2. db'.secret[h].text \in {db.secret[h].text, NoText}
    BY <1>0, <1>1, SecretKept
  <2>3. h \in DOMAIN mig'.fetched => mig'.fetched[h].text = db.secret[h].text
    BY <1>0, <1>1, ReadStep, NoRowsType
  <2>. QED BY <2>1, <2>2, <2>3 DEF Held
<1>2. CASE \E g \in Holders : Convert(g)
  <2>1. PICK g \in Holders : Convert(g)
    BY <1>2
  <2>2. saved' = saved
    BY <1>0, <2>1, ConvertStep
  <2>3. \A e, x : Encrypted(e, x).text = x
    BY DEF Encrypted
  <2>4. IF h = g THEN /\ db'.secret[h].text = mig.fetched[h].text
                      /\ h \in DOMAIN mig.fetched
        ELSE db'.secret[h] = db.secret[h]
    <3>1. /\ g \in DOMAIN mig.fetched
          /\ db'.secret = [db.secret EXCEPT
               ![g] = Encrypted(To(Current.op), mig.fetched[g].text)]
      BY <1>0, <2>1, ConvertRow
    <3>2. h \in DOMAIN db.secret
      BY <1>0 DEF DbTyped, Databases
    <3>. QED BY ONLY <2>3, <3>1, <3>2
  <2>5. h \in DOMAIN mig'.fetched =>
          h \in DOMAIN mig.fetched /\ mig'.fetched[h] = mig.fetched[h]
    BY <1>0, <2>1, ConvertRow
  <2>. QED BY <2>2, <2>4, <2>5 DEF Held
<1>3. CASE Stamp
  BY <1>0, <1>3, StampStep DEF Held
<1>4. CASE Commit \/ Fail \/ Killed
  BY <1>0, <1>4, EndStep, NoRowsType DEF Held
<1>5. CASE \E t \in Targets, key \in BOOLEAN : Start(t, key)
  BY <1>0, <1>5, StartStep, NoRowsType DEF Held
<1>6. CASE UNCHANGED vars
  BY <1>6 DEF Held, vars
<1>. QED BY <1>1, <1>2, <1>3, <1>4, <1>5, <1>6, Steps

LEMMA InUseHeld ==
  ASSUME NEW g \in Holders
  PROVE  /\ saved.secret[g].text \in InUse /\ db.secret[g].text \in InUse
         /\ g \in DOMAIN mig.fetched => mig.fetched[g].text \in InUse
<1>. DEFINE rows == {{d.last[h], d.secret[h].text} : d \in {saved, db}, h \in Holders}
            kept == {mig.fetched[h].text : h \in DOMAIN mig.fetched}
            mine(d) == {d.last[g], d.secret[g].text}
<1>1. InUse = kept \cup UNION rows
  BY DEF InUse
<1>2. /\ mine(saved) \in rows /\ saved.secret[g].text \in mine(saved)
      /\ mine(db) \in rows /\ db.secret[g].text \in mine(db)
  OBVIOUS
<1>3. g \in DOMAIN mig.fetched => mig.fetched[g].text \in kept
  OBVIOUS
<1>. HIDE DEF rows, kept, mine
<1>. QED BY <1>1, <1>2, <1>3

\* A generated secret is new to every other row.
LEMMA HeldWrite ==
  ASSUME MigrationInv, SecretsInv, NEW h \in Holders, NEW x \in Texts \cup {NoText},
         WriteSecret(h, x)
  PROVE  \A f, g \in Holders : f # g => Held(f)' \cap Held(g)' \subseteq {NoText}
<1>0. DbTyped /\ NoSecret.text = NoText
  BY InvTyped, SecretTypes
<1>1. \A e : Encrypted(e, x).text = x
  BY DEF Encrypted
<1>. DEFINE code == IF x = NoText THEN NoSecret ELSE Encrypted(ServerEngine(h), x)
<1>2. /\ mig' = mig
      /\ saved'.secret = [saved.secret EXCEPT ![h] = code]
      /\ db'.secret = [db.secret EXCEPT ![h] = code]
  <2>1. DbTyped
    BY InvTyped
  <2>. QED BY <2>1, SecretWrite
<1>3. code.text = x
  BY <1>0, <1>1
<1>. HIDE DEF code
<1>4. \A g \in Holders : Held(g)' \subseteq Held(g) \cup (IF g = h THEN {x} ELSE {})
  <2>. TAKE g \in Holders
  <2>1. g \in DOMAIN saved.secret /\ g \in DOMAIN db.secret
    BY <1>0 DEF DbTyped, Databases
  <2>2. IF g = h THEN saved'.secret[g].text = x /\ db'.secret[g].text = x
        ELSE saved'.secret[g] = saved.secret[g] /\ db'.secret[g] = db.secret[g]
    BY ONLY <1>2, <1>3, <2>1
  <2>. QED BY <1>2, <2>2 DEF Held
<1>5. x # NoText => \A g \in Holders : x \notin Held(g)
  <2>1. x # NoText => x \notin InUse
    BY DEF WriteSecret
  <2>2. \A g \in Holders : Held(g) \subseteq InUse
    <3>. TAKE g \in Holders
    <3>. QED BY InUseHeld DEF Held
  <2>. QED BY <2>1, <2>2
<1>. QED BY <1>4, <1>5 DEF SecretsInv

\* The secrets of a table that an upgrade has yet to convert are under AES-CBC.
LEMMA FetchedEngine ==
  ASSUME MigrationInv, ReadableInv, AStatement, mig.dir = "up",
         NEW h \in DOMAIN mig'.fetched, ~ Raced(db', h)
  PROVE  mig'.fetched[h].engine = "cbc"
<1>0. DbTyped /\ Executing /\ mig.pos \in Nat /\ db.stamp \in Nat
  BY InvTyped, StatementStep DEF DbTyped, Databases, Commands
<1>1. Current.op = "fetch"
  BY <1>0, ReadStep, NoRowsType
<1>2. /\ h \in Holders /\ Table(h) = Current.about /\ db.secret[h] # NoSecret
      /\ mig'.fetched[h] = db.secret[h]
  BY <1>0, <1>1, ReadStep DEF SecretRows
<1>3. ~ Raced(db, h)
  BY <1>0, StatementStep DEF Raced
<1>4. At("up", GcmFrom[Table(h)], FetchOf(Table(h)))
  <2>1. \/ db.stamp + 1 = 15 /\ mig.pos = 2 /\ Current.about = "user_"
        \/ db.stamp + 1 = 17 /\ mig.pos = 1 /\ Current.about = "interactive_session"
    BY <1>0, <1>1, CurrentIs DEF KnownUp
  <2>. QED BY <1>0, <1>2, <2>1, TableIs DEF At
<1>5. h \notin DOMAIN mig.fetched /\ Engine(h) = "cbc"
  <2>1. GcmFrom[Table(h)] \in {15, 17} /\ FetchOf(Table(h)) \in {1, 2}
    BY <1>2, TableIs
  <2>. DEFINE from == GcmFrom[Table(h)]
              n == FetchOf(Table(h))
  <2>2. Converting(Table(h)) <=> \/ Past("up", from, n) /\ mig.pos = n + 1
                                 \/ Past("down", from, 1) /\ mig.pos = 2
    BY Zenon DEF Converting
  <2>3. Engine(h) = IF (db.stamp >= from /\ ~ Past("down", from, 1)) \/ Past("up", from, n)
                    THEN "gcm" ELSE "cbc"
    BY Zenon DEF Engine
  <2>. HIDE DEF from, n
  <2>4. from \in {15, 17} /\ n \in {1, 2} /\ At("up", from, n)
    BY <1>4, <2>1 DEF from, n
  <2>5. ~ Past("up", from, n) /\ ~ Past("down", from, 1) /\ ~ db.stamp >= from
    BY <1>0, <2>4 DEF Past, At
  <2>. QED BY <2>2, <2>3, <2>5 DEF ReadableInv
<1>6. db.secret[h].text = db.last[h] /\ db.last[h] # NoText
  <2>1. db.secret[h] \in Ciphertexts
    BY <1>0, <1>2 DEF DbTyped, Databases
  <2>2. db.secret[h].text \in Texts
    BY <2>1, SecretTypes
  <2>. QED BY <1>2, <1>3, <2>2, SecretsAssumption DEF MigrationInv, SecretsKept
<1>7. db.secret[h] = Encrypted("cbc", db.last[h])
  BY <1>2, <1>3, <1>5, <1>6 DEF ReadableInv, Readable
<1>. QED BY <1>2, <1>7 DEF Encrypted

LEMMA SecretsInit == Init => SecretsInv
<1>. SUFFICES ASSUME Init PROVE SecretsInv
  OBVIOUS
<1>1. PICK runs : db = [stamp |-> 0, catalog |-> FirstCatalog,
                secret |-> [h \in Holders |-> NoSecret],
                digest |-> [u \in Users |-> NoText],
                last |-> [h \in Holders |-> NoText], raced |-> {},
                identity |-> [u \in Users |-> "none"],
                job |-> [j \in Jobs |-> "none"], cached |-> {},
                pending |-> {}, logged |-> {}, runs |-> runs]
  BY Zenon DEF Init
<1>2. saved = db /\ mig.fetched = NoRows /\ db.secret = [h \in Holders |-> NoSecret]
  BY <1>1 DEF Init, Idle
<1>. QED BY <1>2, NoRowsType, SecretTypes DEF SecretsInv, Held

LEMMA SecretsInvStep ==
  ASSUME MigrationInv, ReadableInv, SecretsInv, [Next]_vars
  PROVE  SecretsInv'
<1>0. DbTyped
  BY InvTyped
<1>1. \A g, h \in Holders : g # h => Held(g)' \cap Held(h)' \subseteq {NoText}
  <2>1. CASE Servers /\ SecretWritten
    BY <2>1, HeldWrite DEF SecretWritten
  <2>2. CASE Servers /\ SameSecrets
    BY <1>0, <2>2, ServersStep DEF SecretsInv, Held, SameSecrets
  <2>3. CASE ~ Servers
    BY <2>3, HeldStep, HeldKept
  <2>. QED BY <1>0, <2>1, <2>2, <2>3, ServersStep
<1>. DEFINE Old(h) == ~ Raced(db, h) => mig.fetched[h].engine = "cbc"
            New(h) == ~ Raced(db', h) => mig'.fetched[h].engine = "cbc"
<1>2. ASSUME mig'.dir = "up", NEW h \in DOMAIN mig'.fetched PROVE New(h)
  <2>0. mig.dir = "up" => \A g \in DOMAIN mig.fetched : Old(g)
    BY DEF SecretsInv
  <2>1. CASE AStatement
    BY <1>0, <1>2, <2>1, StatementStep, FetchedEngine
  <2>2. CASE \E g \in Holders : Convert(g)
    <3>1. PICK g \in Holders : Convert(g)
      BY <2>2
    <3>2. /\ h \in DOMAIN mig.fetched /\ mig'.fetched[h] = mig.fetched[h]
          /\ mig'.dir = mig.dir /\ db'.raced = db.raced
      BY <1>0, <1>2, <3>1, ConvertStep, ConvertRow
    <3>. QED BY <1>2, <2>0, <3>2 DEF Raced
  <2>3. CASE Stamp
    BY <1>0, <1>2, <2>0, <2>3, StampStep DEF Raced
  <2>4. CASE Commit \/ Fail \/ Killed
    BY <1>0, <1>2, <2>4, EndStep
  <2>5. CASE \E t \in Targets, key \in BOOLEAN : Start(t, key)
    BY <1>0, <1>2, <2>5, StartStep, NoRowsType
  <2>6. CASE Servers
    <3>1. mig' = mig
      BY <1>0, <2>6, ServersStep
    <3>2. ~ Raced(db', h) => ~ Raced(db, h)
      <4>1. CASE SameSecrets
        BY <4>1 DEF SameSecrets, Raced
      <4>2. CASE SecretWritten
        <5>1. PICK g \in Holders, x \in Texts \cup {NoText} : WriteSecret(g, x)
          BY <4>2 DEF SecretWritten
        <5>. DEFINE now == IF Table(g) \in mig.read THEN {<<g, mig.dir>>} ELSE {}
        <5>2. db'.raced = (db.raced \ ({g} \X Directions)) \cup now
          BY <1>0, <5>1, SecretWrite
        <5>3. h = g => <<h, mig.dir>> \in db'.raced
          BY <1>2, <3>1, <5>2 DEF MigrationInv, FetchedCurrent
        <5>4. h # g => \A dir : <<h, dir>> \in db.raced => <<h, dir>> \in db'.raced
          BY <5>2
        <5>5. mig.dir \in Directions
          BY <1>2, <3>1 DEF Directions
        <5>. QED BY <5>3, <5>4, <5>5 DEF Raced
      <4>. QED BY <1>0, <2>6, <4>1, <4>2, ServersStep
    <3>. QED BY <1>2, <2>0, <3>1, <3>2
  <2>7. CASE UNCHANGED vars
    BY <1>2, <2>0, <2>7 DEF vars, Raced
  <2>. QED BY <2>1, <2>2, <2>3, <2>4, <2>5, <2>6, <2>7, Steps
<1>. QED BY <1>1, <1>2 DEF SecretsInv

(***************************************************************************)
(* Digests of webhook secrets                                              *)
(***************************************************************************)
\* A user's secret is fetched in the two conversions of webhook secrets only.
LEMMA UserConverted ==
  ASSUME ReadableInv, NEW u \in Users, u \in DOMAIN mig.fetched
  PROVE  \/ Past("up", 15, 2) /\ mig.pos = 3
         \/ Past("down", 15, 1) /\ mig.pos = 2
<1>1. Table(u) = "user_" /\ GcmFrom[Table(u)] = 15 /\ FetchOf(Table(u)) = 2
  BY DEF Table, GcmFrom, FetchOf
<1>2. Converting(Table(u))
  BY DEF ReadableInv
<1>3. 2 + 1 = 3
  OBVIOUS
<1>. QED BY ONLY <1>1, <1>2, <1>3, Zenon DEF Converting

\* The statement that converts the secrets comes to its end.
LEMMA NothingFetched ==
  ASSUME MigrationInv, ReadableInv, AStatement
  PROVE  DOMAIN mig.fetched = {}
<1>. SUFFICES ASSUME NEW h \in DOMAIN mig.fetched PROVE FALSE
  OBVIOUS
<1>1. h \in Holders /\ Executing
  BY InvTyped, StatementStep, FetchedTypes DEF MigrationInv
<1>2. Current.op \in {"convert_to_gcm", "convert_to_cbc"}
  <2>1. Converting(Table(h))
    BY DEF ReadableInv
  <2>. QED BY <1>1, <2>1, ConvertingIs
<1>3. AllConverted
  BY <1>2 DEF AStatement, Alter, CreateTheCheck, PassCheck, Repair, RewriteRows,
              Fetch, Executes, Rewrites
<1>. QED BY <1>3 DEF AllConverted

\* A user whose secret is converted has its digest, the others none.
DigestOf(d, u, fetched) ==
  IF u \in DOMAIN fetched THEN d.digest[u] = NoText
  ELSE /\ d.secret[u] = NoSecret <=> d.digest[u] = NoText
       /\ d.digest[u] \in {NoText, d.secret[u].text}

LEMMA DigestInit == Init => DigestInv
<1>. SUFFICES ASSUME Init PROVE DigestInv
  OBVIOUS
<1>1. PICK runs : db = [stamp |-> 0, catalog |-> FirstCatalog,
                secret |-> [h \in Holders |-> NoSecret],
                digest |-> [u \in Users |-> NoText],
                last |-> [h \in Holders |-> NoText], raced |-> {},
                identity |-> [u \in Users |-> "none"],
                job |-> [j \in Jobs |-> "none"], cached |-> {},
                pending |-> {}, logged |-> {}, runs |-> runs]
  BY Zenon DEF Init
<1>2. /\ saved = db /\ mig.dir = "idle" /\ db.stamp = 0
      /\ db.digest = [u \in Users |-> NoText]
  BY <1>1 DEF Init, Idle
<1>. QED BY <1>2 DEF DigestInv, NoDigests, Past

LEMMA DropsWebhookCheck ==
  ScriptOf("down", 15)[3].op = "ddl" /\ "user_" \in ScriptOf("down", 15)[3].locks
<1>1. LET s == WebhookSecretStorage.down[3] IN s.op = "ddl" /\ "user_" \in s.locks
  BY DEF WebhookSecretStorage, RestoreWebhookSecrets, DropCheck, Drop, Statement
<1>2. Chain[15] = WebhookSecretStorage
  BY ChainIs
<1>. QED BY ONLY <1>1, <1>2 DEF ScriptOf

\* The rows of user_ are locked while the digests are away, or about to be.
LEMMA DigestLocks ==
  ASSUME MigrationInv, Resting, DigestInv, [Next]_vars
  PROVE  /\ Past("down", 15, 3)' => "user_" \in mig'.locks
         /\ db'.stamp < 15 /\ saved'.stamp >= 15 => "user_" \in mig'.locks
<1>0. DbTyped /\ db.stamp \in Nat /\ saved.stamp \in Nat /\ mig.pos \in Nat
  BY InvTyped DEF DbTyped, Databases, Commands
<1>1. Past("down", 15, 3)' => "user_" \in mig'.locks
  BY DropsWebhookCheck, LockHeld DEF DigestInv
<1>2. ASSUME db'.stamp < 15, saved'.stamp >= 15 PROVE "user_" \in mig'.locks
  <2>1. CASE AStatement
    BY <1>0, <1>2, <2>1, StatementStep DEF DigestInv
  <2>2. CASE \E h \in Holders : Convert(h)
    BY <1>0, <1>2, <2>2, ConvertStep DEF DigestInv
  <2>3. CASE Stamp
    <3>1. CASE db.stamp < 15
      BY <1>0, <1>2, <2>3, <3>1, StampStep DEF DigestInv
    <3>2. CASE db.stamp >= 15
      <4>1. /\ mig.dir = "down" /\ db.stamp = 15 /\ mig.locks = mig'.locks
            /\ mig.pos = Len(Chain[15].down) + 1
        BY <1>0, <1>2, <2>3, <3>2, StampStep
      <4>2. Past("down", 15, 3)
        BY <4>1, ScriptLengths DEF Past
      <4>. QED BY <4>1, <4>2 DEF DigestInv
    <3>. QED BY <1>0, <3>1, <3>2
  <2>4. CASE Commit \/ Fail \/ Killed
    BY <1>0, <1>2, <2>4, EndStep
  <2>5. CASE \E t \in Targets, key \in BOOLEAN : Start(t, key)
    BY <1>0, <1>2, <2>5, StartStep DEF Resting
  <2>6. CASE Servers
    BY <1>0, <1>2, <2>6, ServersStep DEF DigestInv
  <2>7. CASE UNCHANGED vars
    BY <1>2, <2>7 DEF DigestInv, vars
  <2>. QED BY <2>1, <2>2, <2>3, <2>4, <2>5, <2>6, <2>7, Steps
<1>. QED BY <1>1, <1>2

LEMMA DigestStatement ==
  ASSUME MigrationInv, Resting, ReadableInv, DigestInv, AStatement
  PROVE  DigestInv'
<1>0. /\ DbTyped /\ db.stamp \in Nat /\ saved.stamp \in Nat /\ mig.pos \in Nat
  BY InvTyped DEF DbTyped, Databases, Commands
<1>1. /\ Executing /\ saved' = saved /\ db'.stamp = db.stamp
      /\ mig'.dir = mig.dir /\ mig'.pos = mig.pos + 1
  BY <1>0, StatementStep
<1>2. NoDigests(db) => NoDigests(db')
  <2>1. CASE Current.op = "erase_digests"
    <3>1. RewriteRows
      BY <2>1 DEF AStatement, Alter, CreateTheCheck, PassCheck, Repair,
                  Fetch, AllConverted, Executes, Rewrites
    <3>2. db' = [db EXCEPT !.digest = [u \in Users |-> NoText]]
      BY <2>1, <3>1 DEF RewriteRows, Proceed, Rewritten
    <3>. QED BY <1>0, <3>2 DEF NoDigests, DbTyped, Databases
  <2>2. CASE Current.op # "erase_digests"
    BY <1>0, <2>2, RowsKept DEF NoDigests
  <2>. QED BY <2>1, <2>2
<1>3. ASSUME db'.stamp < 15, ~ Past("up", 15, 2)' PROVE NoDigests(db')
  <2>1. ~ Past("up", 15, 2)
    BY <1>0, <1>1, <1>3 DEF Past
  <2>. QED BY <1>1, <1>2, <1>3, <2>1 DEF DigestInv
<1>4. ASSUME Past("down", 15, 6)' PROVE NoDigests(db')
  <2>1. CASE Past("down", 15, 6)
    BY <1>2, <2>1 DEF DigestInv
  <2>2. CASE Current = ScriptOf("down", 15)[6]
    <3>1. Current.op = "erase_digests"
      <4>1. \A t : Rows("erase_digests", t).op = "erase_digests"
        BY DEF Rows, Statement
      <4>2. WebhookSecretStorage.down[6] = Rows("erase_digests", "nothing")
        BY DEF WebhookSecretStorage, RestoreWebhookSecrets
      <4>3. ScriptOf("down", 15) = Chain[15].down
        BY DEF ScriptOf
      <4>. QED BY ONLY <2>2, <4>1, <4>2, <4>3, ChainIs
    <3>2. RewriteRows
      BY <3>1 DEF AStatement, Alter, CreateTheCheck, PassCheck, Repair,
                  Fetch, AllConverted, Executes, Rewrites
    <3>3. db' = [db EXCEPT !.digest = [u \in Users |-> NoText]]
      BY <3>1, <3>2 DEF RewriteRows, Proceed, Rewritten
    <3>. QED BY <1>0, <3>3 DEF NoDigests, DbTyped, Databases
  <2>3. Next
    BY DEF AStatement, Next, Migration
  <2>. QED BY <1>4, <2>1, <2>2, <2>3, PastStep
<1>5. ASSUME Past("up", 15, 2)', NEW u \in Users PROVE DigestOf(db', u, mig'.fetched)
  <2>1. mig.dir = "up" /\ db.stamp = 14 /\ mig.pos >= 2
    BY <1>0, <1>1, <1>5 DEF Past
  <2>2. KnownUp(15, mig.pos, Current)
    BY <1>1, <2>1, CurrentIs
  <2>3. /\ db'.digest = db.digest /\ db'.secret = db.secret
    BY <1>0, <2>2, RowsKept DEF KnownUp
  <2>4. CASE mig.pos = 2
    <3>1. Current = Chain[15].up[2]
      BY <1>1, <2>1, <2>4, CurrentIs
    <3>2. Current = Rows("fetch", "user_")
      BY ONLY <3>1, Named, Zenon
    <3>3. Current.op = "fetch" /\ Current.about = "user_"
      BY <3>2 DEF Rows, Statement
    <3>4. db' = db /\ DOMAIN mig'.fetched = SecretRows("user_")
      BY <1>0, <3>3, ReadStep
    <3>5. u \in SecretRows("user_") <=> db.secret[u] # NoSecret
      BY DEF SecretRows, Table, Holders
    <3>6. db.digest[u] = NoText
      BY <2>1, <2>4 DEF DigestInv, NoDigests, Past
    <3>. QED BY <3>4, <3>5, <3>6 DEF DigestOf
  <2>5. CASE mig.pos # 2
    <3>1. Past("up", 15, 2)
      BY <1>0, <2>1, <2>5 DEF Past
    <3>2. DOMAIN mig.fetched = {} /\ DOMAIN mig'.fetched = {}
      <4>1. Current.op # "fetch"
        BY <2>2, <2>5 DEF KnownUp
      <4>. QED BY <1>0, <4>1, NothingFetched, ReadStep, NoRowsType
    <3>3. DigestOf(db, u, mig.fetched)
      BY <3>1 DEF DigestInv, DigestOf
    <3>. QED BY <2>3, <3>2, <3>3 DEF DigestOf
  <2>. QED BY <2>4, <2>5
<1>6. saved'.stamp < 15 => NoDigests(saved')
  BY <1>1 DEF DigestInv
<1>7. [Next]_vars
  BY DEF AStatement, Next, Migration
<1>. QED BY <1>3, <1>4, <1>5, <1>6, <1>7, DigestLocks DEF DigestInv, DigestOf

LEMMA DigestConvert ==
  ASSUME MigrationInv, Resting, ReadableInv, DigestInv, NEW h \in Holders, Convert(h)
  PROVE  DigestInv'
<1>0. DbTyped /\ DOMAIN db.digest = Users /\ DOMAIN db.secret = Holders
  BY InvTyped DEF DbTyped, Databases
<1>1. /\ saved' = saved /\ db'.stamp = db.stamp
      /\ mig'.dir = mig.dir /\ mig'.pos = mig.pos
  BY <1>0, ConvertStep
<1>2. /\ h \in DOMAIN mig.fetched
      /\ db'.secret = [db.secret EXCEPT
           ![h] = Encrypted(To(Current.op), mig.fetched[h].text)]
      /\ db'.digest = IF h \in Users /\ To(Current.op) = "gcm"
                      THEN [db.digest EXCEPT ![h] = mig.fetched[h].text]
                      ELSE db.digest
      /\ mig'.fetched = [g \in DOMAIN mig.fetched \ {h} |-> mig.fetched[g]]
  BY <1>0, ConvertRow
<1>3. h \in Users => \/ Past("up", 15, 2) /\ mig.pos = 3
                     \/ Past("down", 15, 1) /\ mig.pos = 2
  BY <1>2, UserConverted
<1>4. \A dir, rev, n : Past(dir, rev, n)' <=> Past(dir, rev, n)
  BY <1>1 DEF Past
<1>5. ASSUME db.stamp < 15, ~ Past("up", 15, 2) PROVE NoDigests(db')
  <2>1. h \notin Users
    BY <1>3, <1>5 DEF Past
  <2>. QED BY <1>2, <1>5, <2>1 DEF DigestInv, NoDigests
<1>6. ASSUME Past("down", 15, 6) PROVE NoDigests(db')
  <2>1. h \notin Users
    BY <1>3, <1>6 DEF Past
  <2>. QED BY <1>2, <1>6, <2>1 DEF DigestInv, NoDigests
<1>7. ASSUME Past("up", 15, 2), NEW u \in Users PROVE DigestOf(db', u, mig'.fetched)
  <2>1. DigestOf(db, u, mig.fetched)
    BY <1>7 DEF DigestInv, DigestOf
  <2>2. CASE u = h
    <3>1. To(Current.op) = "gcm"
      <4>1. mig.pos = 3 /\ mig.dir = "up" /\ db.stamp + 1 = 15
        BY <1>3, <1>7, <2>2 DEF Past
      <4>2. Current = Chain[15].up[3]
        BY <4>1 DEF Current, Script
      <4>3. Current = Rows("convert_to_gcm", "user_")
        BY ONLY <4>2, Named, Zenon
      <4>4. Current.op = "convert_to_gcm"
        BY <4>3 DEF Rows, Statement
      <4>. QED BY <4>4 DEF To
    <3>2. mig.fetched[h].text # NoText
      <4>1. mig.fetched[h] \in Ciphertexts
        BY <1>2, FetchedTypes DEF MigrationInv, TypeOK, Commands
      <4>. QED BY <4>1, SecretTypes, SecretsAssumption
    <3>3. /\ db'.digest[h] = mig.fetched[h].text
          /\ db'.secret[h] = Encrypted("gcm", mig.fetched[h].text)
      BY <1>0, <1>2, <2>2, <3>1
    <3>4. db'.secret[h] # NoSecret /\ db'.secret[h].text = db'.digest[h]
      BY <3>2, <3>3 DEF NoSecret, Encrypted
    <3>5. u \notin DOMAIN mig'.fetched
      BY <1>2, <2>2
    <3>. QED BY <2>2, <3>2, <3>3, <3>4, <3>5 DEF DigestOf
  <2>3. CASE u # h
    <3>1. /\ db'.digest[u] = db.digest[u] /\ db'.secret[u] = db.secret[u]
          /\ u \in DOMAIN mig'.fetched <=> u \in DOMAIN mig.fetched
      BY <1>0, <1>2, <2>3 DEF Holders
    <3>. QED BY <2>1, <3>1 DEF DigestOf
  <2>. QED BY <2>2, <2>3
<1>8. [Next]_vars
  BY DEF Next, Migration
<1>9. saved'.stamp < 15 => NoDigests(saved')
  BY <1>1 DEF DigestInv
<1>. QED BY <1>1, <1>4, <1>5, <1>6, <1>7, <1>8, <1>9, DigestLocks
         DEF DigestInv, DigestOf

LEMMA DigestWrite ==
  ASSUME MigrationInv, Resting, WebhookLocked, DigestInv,
         NEW h \in Holders, NEW x \in Texts \cup {NoText}, WriteSecret(h, x)
  PROVE  DigestInv'
<1>0. /\ DbTyped /\ DOMAIN db.digest = Users /\ DOMAIN db.secret = Holders
      /\ DOMAIN saved.digest = Users /\ db.stamp \in Nat /\ saved.stamp \in Nat
      /\ mig.pos \in Nat
  BY InvTyped DEF DbTyped, Databases, Commands
<1>. DEFINE digest(d) == IF h \in Users /\ ServerEngine(h) = "gcm"
                         THEN [d.digest EXCEPT ![h] = x] ELSE d.digest
            code == IF x = NoText THEN NoSecret ELSE Encrypted(ServerEngine(h), x)
<1>1. /\ mig' = mig /\ saved'.stamp = saved.stamp /\ db'.stamp = db.stamp
      /\ saved'.digest = digest(saved) /\ db'.digest = digest(db)
      /\ db'.secret = [db.secret EXCEPT ![h] = code]
  BY <1>0, SecretWrite
<1>2. Table(h) \notin mig.locks
  BY DEF WriteSecret, Write
<1>3. h \in Users => Table(h) = "user_" /\ GcmFrom[Table(h)] = 15
  BY DEF Table, GcmFrom
<1>4. h \in Users /\ ServerEngine(h) = "gcm" <=> h \in Users /\ saved.stamp >= 15
  BY <1>3 DEF ServerEngine
<1>. HIDE DEF code
<1>5. \A dir, rev, n : Past(dir, rev, n)' <=> Past(dir, rev, n)
  BY <1>1 DEF Past
<1>6. saved.stamp < 15 => NoDigests(saved')
  BY <1>0, <1>1, <1>4 DEF DigestInv, NoDigests
<1>7. db.stamp < 15 /\ ~ Past("up", 15, 2) => NoDigests(db')
  BY <1>0, <1>1, <1>2, <1>3, <1>4 DEF DigestInv, NoDigests
<1>8. Past("down", 15, 6) => NoDigests(db')
  <2>1. Past("down", 15, 6) => Past("down", 15, 3)
    BY <1>0 DEF Past
  <2>. QED BY <1>0, <1>1, <1>2, <1>3, <2>1 DEF DigestInv, NoDigests
<1>9. ASSUME Past("up", 15, 2), NEW u \in Users PROVE DigestOf(db', u, mig'.fetched)
  <2>1. Past("up", 15, 1)
    BY <1>0, <1>9 DEF Past
  <2>2. h \notin Users
    BY <1>2, <1>3, <2>1 DEF WebhookLocked
  <2>3. db'.digest[u] = db.digest[u] /\ db'.secret[u] = db.secret[u]
    BY <1>0, <1>1, <2>2 DEF Holders
  <2>. QED BY <1>1, <1>9, <2>3 DEF DigestInv, DigestOf
<1>10. [Next]_vars
  BY DEF Next, Servers
<1>. QED BY <1>1, <1>5, <1>6, <1>7, <1>8, <1>9, <1>10, DigestLocks
         DEF DigestInv, DigestOf

LEMMA DigestInvStep ==
  ASSUME MigrationInv, Resting, WebhookLocked, ReadableInv, DigestInv, [Next]_vars
  PROVE  DigestInv'
<1>0. /\ DbTyped /\ db.stamp \in Nat /\ saved.stamp \in Nat /\ mig.pos \in Nat
  BY InvTyped DEF DbTyped, Databases, Commands
<1>1. CASE AStatement
  BY <1>1, DigestStatement
<1>2. CASE \E h \in Holders : Convert(h)
  BY <1>2, DigestConvert
<1>3. CASE Stamp
  <2>1. /\ saved' = saved /\ db'.digest = db.digest
        /\ mig'.dir = mig.dir /\ mig'.pos = 1
        /\ \/ mig.dir = "up" /\ db'.stamp = db.stamp + 1
           \/ /\ mig.dir = "down" /\ db'.stamp = db.stamp - 1
              /\ mig.pos = Len(Chain[db.stamp].down) + 1
    BY <1>0, <1>3, StampStep
  <2>2. ~ Past("up", 15, 2)' /\ ~ Past("down", 15, 6)'
    BY <2>1 DEF Past
  <2>3. ASSUME db'.stamp < 15 PROVE NoDigests(db)
    <3>1. CASE db.stamp < 15 /\ ~ Past("up", 15, 2)
      BY <3>1 DEF DigestInv
    <3>2. CASE db.stamp >= 15 \/ Past("up", 15, 2)
      <4>1. mig.dir = "down" /\ db.stamp = 15 /\ mig.pos = Len(Chain[15].down) + 1
        BY <1>0, <2>1, <2>3, <3>2 DEF Past
      <4>2. Past("down", 15, 6)
        BY <4>1, ScriptLengths DEF Past
      <4>. QED BY <4>2 DEF DigestInv
    <3>. QED BY <1>0, <3>1, <3>2
  <2>. QED BY <2>1, <2>2, <2>3, DigestLocks DEF DigestInv, NoDigests
<1>4. CASE Commit \/ Fail \/ Killed
  <2>1. mig'.dir = "idle"
    BY <1>0, <1>4, EndStep
  <2>2. ~ Past("up", 15, 2)' /\ ~ Past("down", 15, 6)'
    BY <2>1 DEF Past
  <2>3. CASE db' = saved /\ saved' = saved
    BY <2>2, <2>3, DigestLocks DEF DigestInv
  <2>4. CASE Commit /\ db' = db /\ saved' = db /\ db.stamp = mig.target
    <3>1. mig.pos = 1
      BY <2>4 DEF Resting
    <3>2. ~ Past("up", 15, 2)
      BY <3>1 DEF Past
    <3>. QED BY <2>2, <2>4, <3>2, DigestLocks DEF DigestInv
  <2>. QED BY <1>0, <1>4, <2>3, <2>4, EndStep
<1>5. CASE \E t \in Targets, key \in BOOLEAN : Start(t, key)
  <2>1. db' = db /\ saved' = saved /\ mig.dir = "idle" /\ mig'.pos = 1
    BY <1>0, <1>5, StartStep
  <2>2. /\ ~ Past("up", 15, 2)' /\ ~ Past("down", 15, 6)'
        /\ ~ Past("up", 15, 2) /\ ~ Past("down", 15, 6)
    BY <2>1 DEF Past
  <2>. QED BY <2>1, <2>2, DigestLocks DEF DigestInv
<1>6. CASE Servers
  <2>1. CASE SecretWritten
    BY <2>1, DigestWrite DEF SecretWritten
  <2>2. CASE SameSecrets
    <3>1. mig' = mig /\ db'.stamp = db.stamp /\ saved'.stamp = saved.stamp
      BY <1>0, <1>6, ServersStep
    <3>2. \A dir, rev, n : Past(dir, rev, n)' <=> Past(dir, rev, n)
      BY <3>1 DEF Past
    <3>. QED BY <2>2, <3>1, <3>2, DigestLocks DEF DigestInv, NoDigests, SameSecrets
  <2>. QED BY <1>0, <1>6, <2>1, <2>2, ServersStep
<1>7. CASE UNCHANGED vars
  BY <1>7 DEF DigestInv, NoDigests, Past, vars
<1>. QED BY <1>1, <1>2, <1>3, <1>4, <1>5, <1>6, <1>7, Steps

(***************************************************************************)
(* What is left to fail for                                                *)
(***************************************************************************)
DigestsUnique == \A u, v \in Users : db.digest[u] = db.digest[v] /\ u # v
                                       => db.digest[u] = NoText
DigestsComplete == \A u \in Users :
  (db.secret[u] = NoSecret) <=> (db.digest[u] = NoText)

\* What can be wrong with the rows when a statement of an upgrade refuses them.
LEMMA RowsRefused ==
  ASSUME NEW i, NEW j, AsksFor(i, j, Current)
  PROVE  /\ Current.op = "ddl" /\ ~ Holds(Current.about) =>
              \/ ~ Distinct(db.runs)
              \/ i = 5 /\ j = 4 /\ ~ CacheOK(db)
              \/ ~ No(db, "null") \/ ~ No(db, "orphan")
              \/ i = 15 /\ j = 4 /\ ~ DigestsUnique
         /\ Current.op = "check" /\ ~ Holds(Current.about) =>
              ~ Complete(db) \/ (i = 15 /\ j = 5 /\ ~ DigestsComplete)
         /\ Current.op = "repair" /\ ~ Holds(Current.about) => ~ Complete(db)
         /\ Current.op = "refuse_if" /\ Refused(Current.about) => ~ Complete(db)
<1>1. Holds("nothing") /\ (Holds("numbers unique") <=> Distinct(db.runs))
  BY Zenon DEF Holds
<1>2. Holds("cached jobs exist") <=> CacheOK(db)
  BY Zenon DEF Holds, CacheOK
<1>3. /\ Holds("no null workflow") <=> No(db, "null")
      /\ Holds("workflows exist") <=> No(db, "orphan")
  BY Zenon DEF Holds, No
<1>4. Holds("identities complete") <=> Complete(db)
  BY Zenon DEF Holds, Complete
<1>5. /\ Holds("digests unique") <=> DigestsUnique
      /\ Holds("digests complete") <=> DigestsComplete
  BY Zenon DEF Holds, DigestsUnique, DigestsComplete
<1>6. Refused("partial identity") => ~ Complete(db)
  BY Zenon DEF Refused, Complete
<1>7. Current.op = "ddl" /\ ~ Holds(Current.about) =>
        \/ ~ Distinct(db.runs)
        \/ i = 5 /\ j = 4 /\ ~ CacheOK(db)
        \/ ~ No(db, "null") \/ ~ No(db, "orphan")
        \/ i = 15 /\ j = 4 /\ ~ DigestsUnique
  BY ONLY AsksFor(i, j, Current), <1>1, <1>2, <1>3, <1>5, Zenon DEF AsksFor
<1>8. /\ Current.op = "check" /\ ~ Holds(Current.about) =>
              ~ Complete(db) \/ (i = 15 /\ j = 5 /\ ~ DigestsComplete)
      /\ Current.op = "repair" /\ ~ Holds(Current.about) => ~ Complete(db)
      /\ Current.op = "refuse_if" /\ Refused(Current.about) => ~ Complete(db)
  BY ONLY AsksFor(i, j, Current), <1>1, <1>4, <1>5, <1>6, Zenon DEF AsksFor
<1>. QED BY ONLY <1>7, <1>8, Zenon

UpgradeInv == ChainInv /\ CatalogInv /\ AbsentInv /\ DigestInv /\ SecretsInv

LEMMA UpgradeStep == UpgradeInv /\ [Next]_vars => UpgradeInv'
<1>. SUFFICES ASSUME UpgradeInv, [Next]_vars PROVE UpgradeInv'
  OBVIOUS
<1>1. ChainInv'
  BY ChainStep DEF UpgradeInv
<1>2. CatalogInv' /\ AbsentInv'
  BY CatalogInvStep, AbsentInvStep DEF UpgradeInv, ChainInv
<1>3. DigestInv' /\ SecretsInv'
  BY DigestInvStep, SecretsInvStep DEF UpgradeInv, ChainInv
<1>. QED BY <1>1, <1>2, <1>3 DEF UpgradeInv

\* The objects a statement of an upgrade names are there, those it adds are not.
LEMMA FindsItsObjects ==
  ASSUME MigrationInv, CatalogInv, Executing, mig.dir = "up", Current.op = "ddl"
  PROVE  /\ Current.drops \subseteq db.catalog
         /\ Current.adds \cap Remaining(Current.drops) = {}
<1>0. DbTyped /\ mig.pos \in Nat /\ db.stamp \in Nat /\ db.stamp # mig.target
  BY InvTyped DEF DbTyped, Databases, Commands, Executing, Running
<1>. DEFINE p == 10 * (db.stamp + 1) + mig.pos
<1>1. UpChange(p, Current.drops, Current.adds)
  <2>1. /\ db.stamp + 1 \in 1..19 /\ mig.pos \in DOMAIN Chain[db.stamp + 1].up
        /\ Current = Chain[db.stamp + 1].up[mig.pos]
    BY CurrentIs
  <2>. QED BY <2>1, UpChanges DEF Drops, Adds
<1>2. \A o : Has(o) <=> Is(o, p)
  <2>1. 10 * db.stamp + 10 + mig.pos = p
    BY <1>0
  <2>. QED BY <2>1 DEF Has
<1>3. \A o : o \notin CheckObjects => (o \in db.catalog <=> Is(o, p))
  BY <1>2 DEF CatalogInv
<1>. QED BY ONLY <1>1, <1>3 DEF UpChange, Remaining

\* A check is created where it is absent.
LEMMA FindsNoCheck ==
  ASSUME MigrationInv, AbsentInv, Executing, mig.dir = "up", Current.op = "check"
  PROVE  ~ Current.adds \subseteq db.catalog
<1>0. DbTyped /\ mig.pos \in Nat /\ db.stamp \in Nat
  BY InvTyped DEF DbTyped, Databases, Commands
<1>1. KnownUp(db.stamp + 1, mig.pos, Current)
  BY CurrentIs
<1>2. \A rows : CreateCheck("user_", Identity, 0, rows).adds = {<<"user_", Identity, 1>>}
  BY DEF CreateCheck, Statement, Expanded
<1>3. \/ /\ db.stamp + 1 = 9 /\ mig.pos = 2
         /\ Current.adds = {<<"user_resource", Months, 2>>}
      \/ db.stamp + 1 = 12 /\ mig.pos = 2 /\ Current.adds = {<<"user_", Identity, 1>>}
      \/ db.stamp + 1 = 15 /\ mig.pos = 5 /\ Current.adds = {<<"user_", Webhook, 1>>}
  BY ONLY <1>1, <1>2, Current.op = "check", Zenon DEF KnownUp
<1>. QED BY <1>0, <1>3 DEF AbsentInv, Absent, Past

\* The digests of the converted secrets are those of different secrets.
LEMMA DigestsGood ==
  ASSUME UpgradeInv, mig.dir = "up", db.stamp = 14, mig.pos \in {4, 5}
  PROVE  DigestsUnique /\ DigestsComplete
<1>1. Past("up", 15, 2) /\ mig.pos # 3
  BY DEF Past
<1>2. \A u \in Users : u \notin DOMAIN mig.fetched
  BY <1>1, UserConverted DEF Past, UpgradeInv, ChainInv
<1>3. \A u \in Users : /\ db.secret[u] = NoSecret <=> db.digest[u] = NoText
                       /\ db.digest[u] \in {NoText, db.secret[u].text}
  BY <1>1, <1>2 DEF UpgradeInv, DigestInv
<1>4. \A u \in Users : u \in Holders /\ db.secret[u].text \in Held(u)
  BY DEF Holders, Held
<1>5. \A u, v \in Users : u # v => Held(u) \cap Held(v) \subseteq {NoText}
  BY <1>4 DEF UpgradeInv, SecretsInv
<1>. QED BY ONLY <1>3, <1>4, <1>5 DEF DigestsUnique, DigestsComplete

\* The rows an upgrade may fail for, with its error.
Excused ==
  \/ Error = "refused" /\ (~ mig.key \/ ~ Complete(db))
  \/ /\ Error = "violated"
     /\ ~ Complete(db) \/ ~ No(db, "null") \/ ~ No(db, "orphan")
  \/ Error = "undecryptable" /\ \E h \in Holders : Raced(db, h)

LEMMA FailsExcused ==
  ASSUME UpgradeInv, Executing, mig.dir = "up", Error # "none"
  PROVE  Excused
<1>0. /\ MigrationInv /\ CatalogInv /\ AbsentInv /\ DbTyped
      /\ mig.pos \in Nat /\ db.stamp \in Nat
  BY InvTyped DEF UpgradeInv, ChainInv, DbTyped, Databases, Commands
<1>1. /\ db.stamp + 1 \in 1..19 /\ mig.pos \in DOMAIN Chain[db.stamp + 1].up
      /\ Current = Chain[db.stamp + 1].up[mig.pos]
      /\ KnownUp(db.stamp + 1, mig.pos, Current)
  BY <1>0, CurrentIs
<1>2. AsksFor(db.stamp + 1, mig.pos, Current)
  BY <1>1, UpAsks
<1>3. CASE Current.op = "ddl"
  <2>1. Error = "violated" /\ ~ Holds(Current.about)
    BY <1>0, <1>3, FindsItsObjects DEF Error
  <2>2. Distinct(db.runs)
    BY DEF UpgradeInv, ChainInv, RunsInv
  <2>3. db.stamp + 1 = 5 /\ mig.pos = 4 => CacheOK(db)
    BY <1>0 DEF UpgradeInv, ChainInv, JobsInv
  <2>4. db.stamp + 1 = 15 /\ mig.pos = 4 => DigestsUnique
    BY <1>0, DigestsGood
  <2>. QED BY <1>2, <1>3, <2>1, <2>2, <2>3, <2>4, RowsRefused DEF Excused
<1>4. CASE Current.op = "check"
  <2>1. Error = "violated" /\ ~ Holds(Current.about)
    BY <1>0, <1>4, FindsNoCheck DEF Error
  <2>2. db.stamp + 1 = 15 /\ mig.pos = 5 => DigestsComplete
    BY <1>0, DigestsGood
  <2>. QED BY <1>2, <1>4, <2>1, <2>2, RowsRefused DEF Excused
<1>5. CASE Current.op = "repair"
  <2>1. Error = "violated" /\ ~ Holds(Current.about)
    BY <1>5 DEF Error
  <2>. QED BY <1>2, <1>5, <2>1, RowsRefused DEF Excused
<1>6. CASE Current.op = "refuse_if"
  <2>1. Error = "refused" /\ Refused(Current.about)
    BY <1>6 DEF Error
  <2>. QED BY <1>2, <1>6, <2>1, RowsRefused DEF Excused
<1>7. CASE Current.op = "fetch"
  <2>1. Error = "refused" /\ ~ mig.key
    BY <1>7 DEF Error
  <2>. QED BY <2>1 DEF Excused
<1>8. CASE Current.op = "convert_to_gcm"
  <2>1. /\ Error = "undecryptable"
        /\ \E h \in DOMAIN mig.fetched : mig.fetched[h].engine # "cbc"
    BY <1>8 DEF Error, From
  <2>2. DOMAIN mig.fetched \subseteq Holders
    BY <1>0, FetchedTypes DEF MigrationInv
  <2>. QED BY <2>1, <2>2 DEF UpgradeInv, SecretsInv, Excused
<1>9. CASE Current.op \notin {"ddl", "check", "repair", "refuse_if", "fetch",
                             "convert_to_gcm"}
  <2>1. Current.op \notin {"drop_or_refuse", "convert_to_cbc"}
    BY <1>1, <1>9, Zenon DEF KnownUp
  <2>. QED BY <1>9, <2>1 DEF Error
<1>. QED BY <1>3, <1>4, <1>5, <1>6, <1>7, <1>8, <1>9

\* The revisions from 377cfbfccf75 to the head: after any upgrades, downgrades,
\* failures and crashes, and beneath any writes of the servers, an upgrade() ends
\* with an error only for half an identity, a job without its workflow, a secret
\* written beneath an earlier conversion, or secrets without the key.
THEOREM UpgradesFailForTheirRows == Spec => UpgradeFailsForItsRows
<1>. DEFINE A == Fail /\ mig.dir = "up" =>
       CASE Error = "refused"  -> \/ ~ mig.key
                                 \/ \E u \in Users : db.identity[u] = "partial"
         [] Error = "violated" -> \/ \E u \in Users : db.identity[u] = "partial"
                                 \/ \E j \in Jobs : db.job[j] \in {"null", "orphan"}
         [] Error = "undecryptable" -> \E h \in Holders : Raced(db, h)
         [] OTHER -> FALSE
<1>1. Init => UpgradeInv
  <2>1. Init => ChainInv
    BY InitInv, RestingInit, WebhookInit, ChecksInit, IdentitiesInit, RowsInit,
       RunsInit, ReadableInit DEF ChainInv
  <2>. QED BY <2>1, CatalogInit, AbsentInit, DigestInit, SecretsInit DEF UpgradeInv
<1>2. UpgradeInv /\ [Next]_vars => [A]_vars
  <2>. SUFFICES ASSUME UpgradeInv PROVE A
    OBVIOUS
  <2>1. Fail /\ mig.dir = "up" => Excused
    BY FailsExcused DEF Fail
  <2>. QED BY <2>1 DEF Excused, Complete, No
<1>3. [][A]_vars <=> UpgradeFailsForItsRows
  BY DEF UpgradeFailsForItsRows
<1>. HIDE DEF A
<1>. QED BY <1>1, <1>2, <1>3, UpgradeStep, PTL DEF Spec
=============================================================================
