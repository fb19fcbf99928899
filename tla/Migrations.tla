---------------------------- MODULE Migrations ----------------------------
(***************************************************************************)
(* reana-db alembic upgrade / downgrade: the statements of module Revisions*)
(* run one after the other in one transaction (alembic/env.py), beside     *)
(* servers of the release the database is stamped for, which go on writing *)
(* whatever the transaction has not locked. An error, or the death of the  *)
(* process, rolls the whole command back.                                  *)
(*                                                                         *)
(* saved is the committed database and db what the transaction sees: READ  *)
(* COMMITTED, so a statement sees what servers committed before it, and a  *)
(* server writes to both.                                                  *)
(***************************************************************************)
EXTENDS Revisions, FiniteSets, FiniteSetsExt

CONSTANTS
  Users, Sessions,  \* rows of user_ and interactive_session
  Texts,            \* secrets in plaintext
  NoText,           \* a NULL secret or digest
  Jobs, Rules,      \* rows of job and of workspace_retention_rule
  Families,         \* originals with their restarts, of one owner and name
  RestartCounts,    \* how often an original was restarted before the chain
  MaxMajor,         \* the largest run number of an original before the chain
  Targets,          \* positions in the chain a command may be asked to reach
  Earlier,          \* sets of prefixes under which releases shipped a check
  MaxWrites         \* writes of the servers

ASSUME SecretsAssumption ==
  /\ Users \cap Sessions = {}
  /\ NoText \notin Texts
ASSUME BoundsAssumption ==
  /\ RestartCounts \subseteq Nat
  /\ MaxMajor \in Nat /\ MaxWrites \in Nat
  /\ Targets \subseteq 0..Len(Chain)
  /\ Earlier \subseteq SUBSET (0..2)

VARIABLES db, saved, mig, failure, writes

vars == <<db, saved, mig, failure, writes>>

Holders   == Users \cup Sessions
Table(h)  == IF h \in Users THEN "user_" ELSE "interactive_session"
Column(h) == IF h \in Users THEN <<"user_", "gitlab_webhook_secret">>
                            ELSE <<"interactive_session", "session_secret">>

Encrypted(engine, text) == [engine |-> engine, text |-> text]
NoSecret    == Encrypted("none", NoText)
Ciphertexts == [engine : {"cbc", "gcm"}, text : Texts]
JobKinds    == {"none", "null", "orphan", "owned"}
Directions  == {"up", "down"}

Variants(t, n, prefixes) == {<<t, n, k>> : k \in prefixes}

\* What d can be as a database, whatever its catalog and its runs.
Databases(d) ==
  [stamp : 0..Len(Chain), catalog : {d.catalog}, runs : {d.runs},
   secret : [Holders -> Ciphertexts \cup {NoSecret}],
   digest : [Users -> Texts \cup {NoText}],
   last   : [Holders -> Texts \cup {NoText}],  \* what a server wrote last
   raced  : SUBSET (Holders \X Directions),    \* written during a conversion
   identity : [Users -> {"none", "partial", "complete"}],
   job : [Jobs -> JobKinds], cached : SUBSET Jobs,
   pending : SUBSET Rules, logged : SUBSET Rules]

\* read: tables whose secrets the transaction has fetched; fetched: the rows
\* it still has to convert; converted: the rows it has updated, hence locked.
FetchedRows == UNION {[H -> Ciphertexts] : H \in SUBSET Holders}
NoRows == [h \in {} |-> NoSecret]
Idle == [dir |-> "idle", target |-> 0, pos |-> 1, key |-> TRUE, locks |-> {},
         read |-> {}, fetched |-> NoRows, converted |-> {}]

Commands(m) ==
  [dir : Directions \cup {"idle"}, target : 0..Len(Chain), pos : Nat \ {0},
   key : BOOLEAN, locks : {m.locks}, read : {m.read}, fetched : FetchedRows,
   converted : SUBSET Holders]

TypeOK ==
  /\ db \in Databases(db)
  /\ saved \in Databases(saved)
  /\ mig \in Commands(mig)
  /\ failure \in {"none", "missing", "exists", "violated", "refused",
                  "undecryptable", "killed"} \X (Directions \cup {"idle"})
  /\ writes \in 0..MaxWrites

\* run_number of originals and their restarts: tenths before the split, so
\* that a tenth restart has taken the number of a new run. A new run took the
\* next whole number.
FirstRuns ==
  {[f \in Families |->
      IF n[f][1] = 0 THEN << >>
      ELSE [k \in 1..(n[f][2] + 1) |-> <<10 * n[f][1] + k - 1>>]] :
   n \in [Families -> (0..MaxMajor) \X RestartCounts]}
Distinct(runs) ==
  \A f, g \in Families : \A i \in DOMAIN runs[f], j \in DOMAIN runs[g] :
    runs[f][i] = runs[g][j] => f = g /\ i = j
Contiguous(runs) ==
  LET majors == UNION {{runs[f][k][1] \div 10 : k \in DOMAIN runs[f]} :
                       f \in Families}
  IN \A m \in majors : m > 1 => m - 1 \in majors

Init ==
  /\ \E runs \in FirstRuns :
       /\ Distinct(runs) /\ Contiguous(runs)
       /\ db = [stamp |-> 0, catalog |-> FirstCatalog,
                secret |-> [h \in Holders |-> NoSecret],
                digest |-> [u \in Users |-> NoText],
                last |-> [h \in Holders |-> NoText], raced |-> {},
                identity |-> [u \in Users |-> "none"],
                job |-> [j \in Jobs |-> "none"], cached |-> {},
                pending |-> {}, logged |-> {}, runs |-> runs]
  /\ saved = db
  /\ mig = Idle
  /\ failure = <<"none", "idle">>
  /\ writes = 0

(***************************************************************************)
(* What the rows must satisfy, and what a revision refuses                 *)
(***************************************************************************)
Holds(rows) ==
  CASE rows = "nothing"             -> TRUE
    [] rows = "no pending rule"     -> db.pending = {}
    [] rows = "no pending log"      -> db.logged = {}
    [] rows = "numbers unique"      -> Distinct(db.runs)
    [] rows = "no null workflow"    -> \A j \in Jobs : db.job[j] # "null"
    [] rows = "workflows exist"     -> \A j \in Jobs : db.job[j] # "orphan"
    [] rows = "cached jobs exist"   -> \A j \in db.cached : db.job[j] # "none"
    [] rows = "identities complete" -> \A u \in Users : db.identity[u] # "partial"
    [] rows = "digests complete"    ->
         \A u \in Users : (db.secret[u] = NoSecret) <=> (db.digest[u] = NoText)
    [] rows = "digests unique"      ->
         \A u, v \in Users : db.digest[u] = db.digest[v] /\ u # v
                               => db.digest[u] = NoText
    \* CBC maps equal secrets to equal ciphertexts, GCM never does.
    [] rows = "ciphertexts unique"  ->
         \A u, v \in Users : db.secret[u] = db.secret[v] /\ u # v
                               => db.secret[u].engine # "cbc"

Refused(reason) ==
  CASE reason = "partial identity" -> \E u \in Users : db.identity[u] = "partial"
    [] reason = "ten restarts"     ->
         \E f \in Families : \E k \in DOMAIN db.runs[f] : db.runs[f][k][2] >= 10
    [] reason = "irreversible"     -> TRUE

(***************************************************************************)
(* The statements that rewrite rows                                        *)
(***************************************************************************)
MapRuns(F(_, _)) ==
  [f \in Families |-> [k \in DOMAIN db.runs[f] |-> F(f, db.runs[f][k])]]

SplitNumbers(f, run)   == <<run[1] \div 10, run[1] % 10>>
CombineNumbers(f, run) == <<run[1] * 10 + run[2]>>

\* Mutated: the restarts get the number they had spilled into.
RenumberRestarts_NoDecrement(f, run) ==
  LET rows  == db.runs[f]
      tenth == {rows[k][1] : k \in {i \in DOMAIN rows \ {1} : rows[i][2] = 0}}
  IN IF tenth = {} THEN run
     ELSE <<Min(tenth), run[2] + (run[1] - Min(tenth)) * 10>>

\* The restarts (every row of the workspace after the first) that took the
\* number of a new run say where the workspace's own number was left.
RenumberRestarts(f, run) ==
  LET rows  == db.runs[f]
      tenth == {rows[k][1] : k \in {i \in DOMAIN rows \ {1} : rows[i][2] = 0}}
      major == Min(tenth) - 1
  IN IF tenth = {} THEN run
     ELSE <<major, run[2] + (run[1] - major) * 10>>

\* NULL is not "not in" a list, unless the list is empty.
DeleteJobs ==
  LET gone == IF \A f \in Families : db.runs[f] = << >> THEN {"null", "orphan"}
              ELSE {"orphan"}
  IN [j \in Jobs |-> IF db.job[j] \in gone THEN "none" ELSE db.job[j]]

Erased(f, none, table) ==
  [h \in DOMAIN f |-> IF Table(h) = table THEN none ELSE f[h]]

Rewrites == {"split_numbers", "renumber_restarts", "combine_numbers",
             "delete_jobs", "delete_cache", "activate_pending",
             "forget_pending", "erase_secrets", "erase_digests",
             "erase_identities"}
Rewritten(op, table) ==
  CASE op = "split_numbers"     -> [db EXCEPT !.runs = MapRuns(SplitNumbers)]
    [] op = "renumber_restarts" -> [db EXCEPT !.runs = MapRuns(RenumberRestarts)]
    [] op = "combine_numbers"   -> [db EXCEPT !.runs = MapRuns(CombineNumbers)]
    [] op = "delete_jobs"       -> [db EXCEPT !.job = DeleteJobs]
    [] op = "delete_cache"      ->
         [db EXCEPT !.cached = {j \in @ : db.job[j] # "none"}]
    [] op = "activate_pending"  -> [db EXCEPT !.pending = {}]
    [] op = "forget_pending"    -> [db EXCEPT !.logged = {}]
    [] op = "erase_secrets"     ->
         [db EXCEPT !.secret = Erased(@, NoSecret, table),
                    !.last = Erased(@, NoText, table)]
    [] op = "erase_digests"     -> [db EXCEPT !.digest = [u \in Users |-> NoText]]
    [] op = "erase_identities"  -> [db EXCEPT !.identity = [u \in Users |-> "none"]]

(***************************************************************************)
(* One command                                                             *)
(***************************************************************************)
Script    == IF mig.dir = "up" THEN Chain[db.stamp + 1].up ELSE Chain[db.stamp].down
Current   == Script[mig.pos]
Running   == mig.dir # "idle" /\ db.stamp # mig.target
Executing == Running /\ mig.pos \in DOMAIN Script

\* Dropping a table takes its columns, constraints and indexes with it.
Remaining(drops) ==
  {o \in db.catalog : o \notin drops /\ <<o[1]>> \notin drops}

\* How far the repair of a check has to go.
Names(s) ==
  UNION {Variants(o[1], o[2], 0..2) \cap db.catalog : o \in s.adds}

SecretRows(table) ==
  {h \in Holders : Table(h) = table /\ db.secret[h] # NoSecret}
From(op) == IF op = "convert_to_gcm" THEN "cbc" ELSE "gcm"
To(op)   == IF op = "convert_to_gcm" THEN "gcm" ELSE "cbc"

\* The error the current statement ends with.
Error ==
  LET s == Current IN
  CASE s.op = "ddl" ->
         IF ~ s.drops \subseteq db.catalog THEN "missing"
         ELSE IF s.adds \cap Remaining(s.drops) # {} THEN "exists"
         ELSE IF ~ Holds(s.about) THEN "violated" ELSE "none"
    [] s.op = "check" ->
         IF s.adds \subseteq db.catalog THEN "exists"
         ELSE IF ~ Holds(s.about) THEN "violated" ELSE "none"
    [] s.op = "repair" ->
         IF Names(s) = {} /\ ~ Holds(s.about) THEN "violated" ELSE "none"
    [] s.op = "drop_or_refuse" ->
         IF ~ s.drops \subseteq db.catalog THEN "refused" ELSE "none"
    [] s.op = "refuse_if" -> IF Refused(s.about) THEN "refused" ELSE "none"
    [] s.op = "fetch" ->
         IF SecretRows(s.about) # {} /\ ~ mig.key THEN "refused" ELSE "none"
    [] s.op \in {"convert_to_gcm", "convert_to_cbc"} ->
         IF \E h \in DOMAIN mig.fetched : mig.fetched[h].engine # From(s.op)
         THEN "undecryptable" ELSE "none"
    [] OTHER -> "none"

Executes(ops) == Executing /\ Current.op \in ops /\ Error = "none"

\* The statement is done: what it leaves, and the tables it has locked. Rows
\* that were fetched are for the statement after the SELECT only.
Proceed(d, locks) ==
  /\ db' = d
  /\ mig' = [mig EXCEPT !.pos = @ + 1, !.locks = @ \cup locks,
                        !.fetched = NoRows]
  /\ UNCHANGED <<saved, failure, writes>>

Converts(script) == \E i \in DOMAIN script : script[i].op = "fetch"

\* reana-db alembic upgrade <revision> or downgrade <revision>, with the
\* encryption key configured or not (a command that converts no secret does
\* not look at it).
Start(target, key) ==
  /\ mig.dir = "idle"
  /\ target # db.stamp
  /\ ~ key => \E i \in DOMAIN Chain :
       /\ Converts(Chain[i].up)
       /\ i \in (db.stamp + 1)..target \cup (target + 1)..db.stamp
  /\ mig' = [Idle EXCEPT !.dir = IF target > db.stamp THEN "up" ELSE "down",
                         !.target = target, !.key = key]
  /\ failure' = <<"none", "idle">>
  /\ UNCHANGED <<db, saved, writes>>

Alter ==
  /\ Executes({"ddl", "drop_or_refuse"})
  /\ Proceed([db EXCEPT !.catalog = Remaining(Current.drops) \cup Current.adds],
             Current.locks)

\* A database may have run the revision as a release before this one shipped
\* it, with other names (or none) for the check.
CreateTheCheck ==
  /\ Executes({"check"})
  /\ \E names \in {Current.adds} \cup
         {UNION {Variants(o[1], o[2], p) : o \in Current.adds} :
            p \in {q \in Earlier : \E o \in Current.adds : o[2] # Webhook}} :
       Proceed([db EXCEPT !.catalog = @ \cup names], Current.locks)

\* Mutated: a correct name ends the repair, redundant names stay.
Repair_KeepsRedundant ==
  /\ Executes({"repair"})
  /\ Proceed([db EXCEPT !.catalog =
                IF Current.adds \subseteq @ THEN @
                ELSE (@ \ Names(Current)) \cup Current.adds],
             Current.locks)

\* Whatever names the check has, the ORM's name and no other is left; a table
\* whose check needs no repair is not locked.
Repair ==
  /\ Executes({"repair"})
  /\ Proceed([db EXCEPT !.catalog = (@ \ Names(Current)) \cup Current.adds],
             IF Names(Current) = Current.adds THEN {} ELSE Current.locks)

PassCheck ==
  /\ Executes({"refuse_if"})
  /\ Proceed(db, {})

RewriteRows ==
  /\ Executes(Rewrites)
  /\ Proceed(Rewritten(Current.op, Current.about), {})

\* _secret_rows: the ciphertexts, with no lock on the rows.
Fetch ==
  /\ Executes({"fetch"})
  /\ mig' = [mig EXCEPT !.pos = @ + 1, !.read = @ \cup {Current.about},
                        !.fetched = [h \in SecretRows(Current.about) |-> db.secret[h]]]
  /\ UNCHANGED <<db, saved, failure, writes>>

\* Mutated: the UPDATE has lost its WHERE clause.
Convert_EveryRow(h) ==
  /\ Executes({"convert_to_gcm", "convert_to_cbc"})
  /\ h \in DOMAIN mig.fetched
  /\ db' = [db EXCEPT !.secret = [g \in Holders |->
               Encrypted(To(Current.op), mig.fetched[h].text)]]
  /\ mig' = [mig EXCEPT !.converted = @ \cup {h},
                        !.fetched = [g \in DOMAIN @ \ {h} |-> @[g]]]
  /\ UNCHANGED <<saved, failure, writes>>

\* One fetched row: decrypt, encrypt with the other engine, UPDATE by id.
Convert(h) ==
  /\ Executes({"convert_to_gcm", "convert_to_cbc"})
  /\ h \in DOMAIN mig.fetched
  /\ LET text == mig.fetched[h].text IN
     db' = [db EXCEPT !.secret[h] = Encrypted(To(Current.op), text),
                      !.digest = IF h \in Users /\ To(Current.op) = "gcm"
                                 THEN [@ EXCEPT ![h] = text] ELSE @]
  /\ mig' = [mig EXCEPT !.converted = @ \cup {h},
                        !.fetched = [g \in DOMAIN @ \ {h} |-> @[g]]]
  /\ UNCHANGED <<saved, failure, writes>>

AllConverted ==
  /\ Executes({"convert_to_gcm", "convert_to_cbc"})
  /\ DOMAIN mig.fetched = {}
  /\ Proceed(db, {})

\* The end of a revision: UPDATE alembic_version.
Stamp ==
  /\ Running
  /\ mig.pos = Len(Script) + 1
  /\ db' = [db EXCEPT !.stamp = IF mig.dir = "up" THEN @ + 1 ELSE @ - 1]
  /\ mig' = [mig EXCEPT !.pos = 1]
  /\ UNCHANGED <<saved, failure, writes>>

Commit ==
  /\ mig.dir # "idle" /\ db.stamp = mig.target
  /\ saved' = db
  /\ mig' = Idle
  /\ UNCHANGED <<db, failure, writes>>

RollBack(why) ==
  /\ db' = saved
  /\ mig' = Idle
  /\ failure' = <<why, mig.dir>>
  /\ UNCHANGED <<saved, writes>>

Fail == Executing /\ Error # "none" /\ RollBack(Error)

\* The job that runs the command is killed, or loses its connection.
Killed == mig.dir # "idle" /\ RollBack("killed")

(***************************************************************************)
(* The servers                                                             *)
(***************************************************************************)
Write(table, onSaved, onDb) ==
  /\ writes < MaxWrites
  /\ table \notin mig.locks
  /\ writes' = writes + 1
  /\ saved' = onSaved
  /\ db' = onDb
  /\ UNCHANGED <<mig, failure>>

ServerEngine(h) ==
  IF saved.stamp >= GcmFrom[Table(h)] THEN "gcm" ELSE "cbc"

\* Mutated: a cleared secret is encrypted like any other value.
WithSecret_NoneToo(d, h, x) ==
  [d EXCEPT !.secret[h] = Encrypted(ServerEngine(h), x), !.last[h] = x,
            !.digest = IF h \in Users /\ ServerEngine(h) = "gcm"
                       THEN [@ EXCEPT ![h] = x] ELSE @]

\* d with the secret x in the row h, as a server stores it.
WithSecret(d, h, x) ==
  [d EXCEPT !.secret[h] = IF x = NoText THEN NoSecret
                          ELSE Encrypted(ServerEngine(h), x),
            !.last[h] = x,
            !.digest = IF h \in Users /\ ServerEngine(h) = "gcm"
                       THEN [@ EXCEPT ![h] = x] ELSE @]

\* What a row or the command still holds; a generated secret is none of it.
InUse ==
  {mig.fetched[h].text : h \in DOMAIN mig.fetched}
    \cup UNION {{d.last[h], d.secret[h].text} : d \in {saved, db}, h \in Holders}

\* A generated or a cleared secret. A row that the transaction has updated is
\* locked; one it has only read is not, and what it does with what it read is
\* then stale.
WriteSecret(h, x) ==
  /\ Column(h) \in saved.catalog
  /\ h \notin mig.converted
  /\ saved.last[h] # x
  /\ x # NoText => x \notin InUse
  /\ LET others == {h} \X Directions
         now    == IF Table(h) \in mig.read THEN {<<h, mig.dir>>} ELSE {}
     IN Write(Table(h),
              [WithSecret(saved, h, x) EXCEPT !.raced = @ \ others],
              [WithSecret(db, h, x) EXCEPT !.raced = (@ \ others) \cup now])

\* An identity linked, half entered or cleared, as far as the checks allow.
WriteIdentity(u, value) ==
  /\ <<"user_", "idp_subject">> \in saved.catalog
  /\ u \notin mig.converted
  /\ saved.identity[u] # value
  /\ value = "partial" => Variants("user_", Identity, 0..2) \cap saved.catalog = {}
  /\ Write("user_", [saved EXCEPT !.identity[u] = value],
                    [db EXCEPT !.identity[u] = value])

\* A job; before the foreign key its workflow may be unknown or left out.
WriteJob(j, kind) ==
  /\ saved.job[j] = "none"
  /\ kind = "owned" => \E f \in Families : saved.runs[f] # << >>
  /\ kind # "owned" => saved.stamp < JobKeyAt
  /\ Write("job", [saved EXCEPT !.job[j] = kind], [db EXCEPT !.job[j] = kind])

CacheJob(j) ==
  /\ db.job[j] # "none" /\ saved.job[j] # "none"
  /\ j \notin saved.cached
  /\ Write("job_cache", [saved EXCEPT !.cached = @ \cup {j}],
                        [db EXCEPT !.cached = @ \cup {j}])

\* A rule becomes pending and the audit log says so.
WritePending(r) ==
  /\ saved.stamp >= PendingAt
  /\ r \notin saved.pending
  /\ "workspace_retention_audit_log" \notin mig.locks
  /\ Write("workspace_retention_rule",
           [saved EXCEPT !.pending = @ \cup {r}, !.logged = @ \cup {r}],
           [db EXCEPT !.pending = @ \cup {r}, !.logged = @ \cup {r}])

\* The next restart of f, numbered by get_new_run_number.
WriteRestart(f) ==
  /\ saved.stamp >= SplitAt
  /\ saved.runs[f] # << >>
  /\ LET run == <<saved.runs[f][1][1], Len(saved.runs[f])>> IN
     Write("workflow", [saved EXCEPT !.runs[f] = Append(@, run)],
                       [db EXCEPT !.runs[f] = Append(@, run)])

Servers ==
  \/ \E h \in Holders, x \in Texts \cup {NoText} : WriteSecret(h, x)
  \/ \E u \in Users, v \in {"none", "partial", "complete"} : WriteIdentity(u, v)
  \/ \E j \in Jobs, k \in JobKinds \ {"none"} : WriteJob(j, k)
  \/ \E j \in Jobs : CacheJob(j)
  \/ \E r \in Rules : WritePending(r)
  \/ \E f \in Families : WriteRestart(f)

Migration ==
  \/ Alter \/ CreateTheCheck \/ Repair \/ PassCheck \/ RewriteRows
  \/ Fetch \/ (\E h \in Holders : Convert(h)) \/ AllConverted
  \/ Stamp \/ Commit \/ Fail

Next ==
  \/ \E t \in Targets, key \in BOOLEAN : Start(t, key)
  \/ Migration
  \/ Killed
  \/ Servers

Spec == Init /\ [][Next]_vars

(***************************************************************************)
(* Properties                                                              *)
(***************************************************************************)
\* A bearer secret survives every sequence of upgrades and downgrades: unless
\* a server wrote the row between the unlocked SELECT of a conversion and the
\* end of its transaction, the row holds what a server wrote last
\* (8ae7b67c2d41 and e940248e5165, both directions).
Raced(d, h) == \E dir \in Directions : <<h, dir>> \in d.raced
SecretsKept ==
  \A d \in {db, saved} : \A h \in Holders :
    ~ Raced(d, h) => d.secret[h].text = d.last[h]

\* What servers of the stamped release find: such a row is encrypted with the
\* engine that release decrypts with, and a webhook secret has the digest it
\* is looked up by.
SecretsReadable ==
  \A h \in Holders : ~ Raced(saved, h) /\ saved.last[h] # NoText =>
    /\ saved.secret[h] = Encrypted(ServerEngine(h), saved.last[h])
    /\ h \in Users /\ ServerEngine(h) = "gcm" => saved.digest[h] = saved.last[h]

\* 8ae7b67c2d41 adds its column, which locks user_, before it selects the
\* secrets: no webhook secret is written beneath its upgrade. The conversion
\* of the session secrets and the downgrades have no such order.
WebhookUpgradeNotRaced == \A u \in Users : <<u, "up">> \notin db.raced

\* 3f6c0d2a1b7e: from every set of names the two checks were shipped with, one
\* check with the name of the ORM is left.
ChecksConverge ==
  saved.stamp >= RepairedAt =>
    \A c \in {<<"user_", Identity>>, <<"user_resource", Months>>} :
      Variants(c[1], c[2], 0..2) \cap saved.catalog = {<<c[1], c[2], 1>>}

\* Once the check exists, or the repair has run, no user has half an identity,
\* whatever was written between the count and the check of 972826f7f99f.
IdentitiesComplete ==
  saved.stamp >= RepairedAt
      \/ Variants("user_", Identity, 0..2) \cap saved.catalog # {}
    => \A u \in Users : saved.identity[u] # "partial"

\* b85c3e601de4: the k-th restart of run n becomes n.k, a tenth restart
\* included, and no two runs ever have the same number.
RestartsKeepTheirPlace ==
  /\ Distinct(saved.runs)
  /\ saved.stamp >= SplitAt =>
       \A f \in Families : \A k \in DOMAIN saved.runs[f] :
         saved.runs[f][k] = <<saved.runs[f][1][1], k - 1>>

\* 86435bb00714: afterwards every job has its workflow; a cached job exists at
\* any time, through the deferred foreign key of the deletion too.
JobsBelong ==
  /\ saved.stamp >= JobKeyAt =>
       \A j \in Jobs : saved.job[j] \notin {"null", "orphan"}
  /\ \A j \in saved.cached : saved.job[j] # "none"

\* 377cfbfccf75: no rule and no log entry is left with a status that the
\* release of the database does not know.
PendingIsKnown ==
  saved.stamp < PendingAt => saved.pending = {} /\ saved.logged = {}

\* An upgrade fails only for rows it cannot keep: half an identity, a job
\* without its workflow, a secret written beneath an earlier conversion, or
\* secrets without the key. It never misses an object it names, finds one it
\* adds, or makes two numbers, digests or ciphertexts equal.
UpgradeFailsForItsRows ==
  [][Fail /\ mig.dir = "up" =>
       CASE Error = "refused"  -> \/ ~ mig.key
                                 \/ \E u \in Users : db.identity[u] = "partial"
         [] Error = "violated" -> \/ \E u \in Users : db.identity[u] = "partial"
                                 \/ \E j \in Jobs : db.job[j] \in {"null", "orphan"}
         [] Error = "undecryptable" -> \E h \in Holders : Raced(db, h)
         [] OTHER -> FALSE]_vars

\* tests/test_alembic_migrations.py: "Every constraint/index name a migration's
\* downgrade() drops must exist."
DowngradeFindsWhatItDrops == failure # <<"missing", "down">>
=============================================================================
