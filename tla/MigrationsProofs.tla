------------------------- MODULE MigrationsProofs -------------------------
(***************************************************************************)
(* Proofs about the migrations, for any rows, secrets and writes of the    *)
(* servers: first what holds for any chain of revisions that is built from *)
(* these statements, then what the revisions of Chain do.                  *)
(***************************************************************************)
EXTENDS Migrations, TLAPS

\* The stamp moves towards the target; without a command nothing is read.
Course ==
  /\ mig.dir = "up" => db.stamp <= mig.target
  /\ mig.dir = "down" => mig.target <= db.stamp
  /\ mig.dir = "idle" => mig.read = {}

\* What the transaction has fetched: from a table whose writes count as raced
\* from then on, and what the row still holds unless it was.
FetchedCurrent ==
  \A h \in DOMAIN mig.fetched :
    /\ Table(h) \in mig.read
    /\ ~ Raced(db, h) => mig.fetched[h].text = db.last[h]

MigrationInv == TypeOK /\ Course /\ SecretsKept /\ FetchedCurrent

LEMMA LenChain == Len(Chain) \in Nat /\ DOMAIN Chain = 1..Len(Chain)
BY DEF Chain

LEMMA SecretTypes ==
  /\ NoSecret \notin Ciphertexts
  /\ NoSecret.text = NoText
  /\ \A e \in {"cbc", "gcm"}, x \in Texts :
       Encrypted(e, x) \in Ciphertexts /\ Encrypted(e, x).text = x
  /\ \A c \in Ciphertexts : c.text \in Texts /\ c.engine \in {"cbc", "gcm"}
<1>1. NoSecret.text = NoText /\ NoSecret.engine = "none"
  BY DEF NoSecret, Encrypted
<1>. QED BY <1>1 DEF Ciphertexts, Encrypted

LEMMA ErrorType ==
  Error \in {"none", "missing", "exists", "violated", "refused", "undecryptable"}
BY DEF Error

\* The fields of a database that a statement leaves typed.
LEMMA RewrittenType ==
  ASSUME TypeOK, NEW op \in Rewrites, NEW table
  PROVE  Rewritten(op, table) \in Databases(Rewritten(op, table))
<1>1. CASE op \in {"split_numbers", "renumber_restarts", "combine_numbers"}
  BY <1>1 DEF Rewritten, TypeOK, Databases
<1>2. CASE op = "delete_jobs"
  <2>1. DeleteJobs \in [Jobs -> JobKinds]
    BY DEF DeleteJobs, TypeOK, Databases, JobKinds
  <2>. QED BY <1>2, <2>1 DEF Rewritten, TypeOK, Databases
<1>3. CASE op \in {"delete_cache", "activate_pending", "forget_pending"}
  BY <1>3 DEF Rewritten, TypeOK, Databases
<1>4. CASE op = "erase_secrets"
  BY <1>4 DEF Rewritten, TypeOK, Databases, Erased
<1>5. CASE op \in {"erase_digests", "erase_identities"}
  BY <1>5 DEF Rewritten, TypeOK, Databases
<1>. QED BY <1>1, <1>2, <1>3, <1>4, <1>5 DEF Rewrites

LEMMA FetchedTypes ==
  ASSUME TypeOK
  PROVE  /\ DOMAIN mig.fetched \subseteq Holders
         /\ \A h \in DOMAIN mig.fetched : mig.fetched[h] \in Ciphertexts
<1>0. mig.fetched \in FetchedRows
  BY DEF TypeOK, Commands
<1>1. PICK H \in SUBSET Holders : mig.fetched \in [H -> Ciphertexts]
  BY <1>0 DEF FetchedRows
<1>. QED BY <1>1

LEMMA NoRowsType ==
  /\ DOMAIN NoRows = {}
  /\ NoRows \in FetchedRows
<1>1. NoRows \in [{} -> Ciphertexts]
  BY DEF NoRows
<1>. QED BY <1>1 DEF NoRows, FetchedRows

LEMMA IdleType == Idle \in Commands(Idle)
BY NoRowsType, LenChain DEF Idle, Commands, Directions

(***************************************************************************)
(* Initially, and the steps of the command                                 *)
(***************************************************************************)
LEMMA InitInv == Init => MigrationInv
<1>. SUFFICES ASSUME Init PROVE MigrationInv
  OBVIOUS
<1>1. PICK runs \in FirstRuns : db = [stamp |-> 0, catalog |-> FirstCatalog,
                secret |-> [h \in Holders |-> NoSecret],
                digest |-> [u \in Users |-> NoText],
                last |-> [h \in Holders |-> NoText], raced |-> {},
                identity |-> [u \in Users |-> "none"],
                job |-> [j \in Jobs |-> "none"], cached |-> {},
                pending |-> {}, logged |-> {}, runs |-> runs]
  BY Zenon DEF Init
<1>2. saved = db /\ mig = Idle /\ failure = <<"none", "idle">> /\ writes = 0
  BY DEF Init
<1>3. db \in Databases(db)
  BY <1>1, LenChain DEF Databases, JobKinds
<1>4. mig.fetched = NoRows /\ mig.dir = "idle" /\ mig.read = {}
  BY <1>2 DEF Idle
<1>5. TypeOK
  BY <1>2, <1>3, IdleType, BoundsAssumption DEF TypeOK
<1>6. SecretsKept
  BY <1>1, <1>2, SecretTypes DEF SecretsKept
<1>. QED BY <1>4, <1>5, <1>6, NoRowsType DEF MigrationInv, Course, FetchedCurrent

\* A statement that leaves the secrets and what servers wrote as they are, or
\* erases both.
LEMMA ProceedInv ==
  ASSUME MigrationInv, NEW d, NEW locks, Proceed(d, locks),
         d \in Databases(d), d.stamp = db.stamp,
         \A h \in Holders : ~ Raced(d, h) => d.secret[h].text = d.last[h]
  PROVE  MigrationInv'
<1>. USE DEF MigrationInv, Proceed
<1>1. /\ mig'.dir = mig.dir /\ mig'.target = mig.target
      /\ mig'.fetched = NoRows /\ mig'.pos = mig.pos + 1
  BY DEF TypeOK
<1>2. mig' \in Commands(mig')
  <2>. DEFINE l == mig.locks \cup locks
  <2>1. mig \in Commands(mig) /\ mig' = [mig EXCEPT !.pos = mig.pos + 1,
                                   !.locks = l, !.fetched = NoRows]
    BY DEF TypeOK
  <2>. HIDE DEF l
  <2>. QED BY ONLY <2>1, NoRowsType, mig.pos + 1 \in Nat \ {0} DEF Commands
<1>3. TypeOK'
  BY <1>2 DEF TypeOK, Databases
<1>4. Course'
  BY <1>1 DEF Course
<1>5. SecretsKept'
  BY DEF SecretsKept, Raced
<1>6. FetchedCurrent'
  BY <1>1, NoRowsType DEF FetchedCurrent
<1>. QED BY <1>3, <1>4, <1>5, <1>6

LEMMA StatementInv ==
  ASSUME MigrationInv,
         Alter \/ CreateTheCheck \/ Repair \/ PassCheck \/ AllConverted
  PROVE  MigrationInv'
<1>. DEFINE Same(c) == [db EXCEPT !.catalog = c]
<1>1. ASSUME NEW c, NEW locks, Proceed(Same(c), locks)
      PROVE  MigrationInv'
  <2>1. Same(c) \in Databases(Same(c)) /\ Same(c).stamp = db.stamp
    BY DEF MigrationInv, TypeOK, Databases
  <2>2. /\ Same(c).secret = db.secret /\ Same(c).last = db.last
        /\ Same(c).raced = db.raced
    BY DEF MigrationInv, TypeOK, Databases
  <2>3. \A h \in Holders :
          ~ Raced(Same(c), h) => Same(c).secret[h].text = Same(c).last[h]
    BY <2>2 DEF MigrationInv, SecretsKept, Raced
  <2>. HIDE DEF Same
  <2>. QED BY <1>1, <2>1, <2>3, ProceedInv
<1>2. ASSUME NEW locks, Proceed(db, locks)
      PROVE  MigrationInv'
  BY <1>2, ProceedInv DEF MigrationInv, TypeOK, SecretsKept
<1>3. CASE Alter
  BY <1>3, <1>1 DEF Alter
<1>4. CASE CreateTheCheck
  BY <1>4, <1>1 DEF CreateTheCheck
<1>5. CASE Repair
  BY <1>5, <1>1 DEF Repair
<1>6. CASE PassCheck \/ AllConverted
  BY <1>6, <1>2 DEF PassCheck, AllConverted
<1>. QED BY <1>3, <1>4, <1>5, <1>6

\* Only a dropped column takes a secret, and then also what was written to it.
LEMMA RewriteInv ==
  ASSUME MigrationInv, RewriteRows
  PROVE  MigrationInv'
<1>. DEFINE op == Current.op
            table == Current.about
            d == Rewritten(op, table)
<1>1. op \in Rewrites /\ Proceed(d, {})
  BY DEF RewriteRows, Executes
<1>2. d \in Databases(d)
  BY <1>1, RewrittenType DEF MigrationInv
<1>3. d.stamp = db.stamp /\ d.raced = db.raced
  BY <1>1 DEF Rewritten, Rewrites, MigrationInv, TypeOK, Databases
<1>4. \A h \in Holders : ~ Raced(d, h) => d.secret[h].text = d.last[h]
  <2>1. CASE op = "erase_secrets"
    <3>1. /\ d.secret = Erased(db.secret, NoSecret, table)
          /\ d.last = Erased(db.last, NoText, table)
      BY <2>1 DEF Rewritten, MigrationInv, TypeOK, Databases
    <3>2. DOMAIN db.secret = Holders /\ DOMAIN db.last = Holders
      BY DEF MigrationInv, TypeOK, Databases
    <3>3. \A h \in Holders : ~ Raced(db, h) => db.secret[h].text = db.last[h]
      BY DEF MigrationInv, SecretsKept
    <3>4. ASSUME NEW h \in Holders, ~ Raced(d, h)
          PROVE  d.secret[h].text = d.last[h]
      <4>1. ~ Raced(db, h)
        BY <3>4, <1>3 DEF Raced
      <4>2. /\ d.secret[h] = IF Table(h) = table THEN NoSecret ELSE db.secret[h]
            /\ d.last[h] = IF Table(h) = table THEN NoText ELSE db.last[h]
        BY <3>1, <3>2 DEF Erased
      <4>. HIDE DEF d
      <4>. QED BY <4>1, <4>2, <3>3, SecretTypes
    <3>. QED BY <3>4
  <2>2. CASE op # "erase_secrets"
    <3>1. d.secret = db.secret /\ d.last = db.last
      BY <2>2, <1>1 DEF Rewritten, Rewrites, MigrationInv, TypeOK, Databases
    <3>. QED BY <3>1, <1>3 DEF MigrationInv, SecretsKept, Raced
  <2>. QED BY <2>1, <2>2
<1>. HIDE DEF d
<1>. QED BY <1>1, <1>2, <1>3, <1>4, ProceedInv

LEMMA FetchInv ==
  ASSUME MigrationInv, Fetch
  PROVE  MigrationInv'
<1>. DEFINE rows == SecretRows(Current.about)
<1>1. /\ mig' = [mig EXCEPT !.pos = @ + 1, !.read = @ \cup {Current.about},
                          !.fetched = [h \in rows |-> db.secret[h]]]
      /\ UNCHANGED <<db, saved, failure, writes>>
  BY DEF Fetch
<1>2. mig \in Commands(mig)
  BY DEF MigrationInv, TypeOK
<1>3. \A h \in rows : /\ h \in Holders /\ Table(h) = Current.about
                      /\ db.secret[h] \in Ciphertexts
  BY DEF SecretRows, MigrationInv, TypeOK, Databases
<1>4. [h \in rows |-> db.secret[h]] \in FetchedRows
  <2>1. [h \in rows |-> db.secret[h]] \in [rows -> Ciphertexts]
    BY <1>3
  <2>. QED BY <2>1, <1>3 DEF FetchedRows
<1>5. mig' \in Commands(mig')
  <2>. DEFINE f == [h \in rows |-> db.secret[h]]
              r == mig.read \cup {Current.about}
  <2>1. mig' = [mig EXCEPT !.pos = mig.pos + 1, !.read = r, !.fetched = f]
    BY <1>1
  <2>2. f \in FetchedRows
    BY <1>4
  <2>. HIDE DEF f, r
  <2>. QED BY ONLY <2>1, <2>2, <1>2, mig.pos + 1 \in Nat \ {0} DEF Commands
<1>6. TypeOK'
  BY <1>1, <1>5 DEF MigrationInv, TypeOK
<1>7. /\ mig'.fetched = [h \in rows |-> db.secret[h]]
      /\ mig'.read = mig.read \cup {Current.about}
      /\ mig'.dir = mig.dir /\ mig'.target = mig.target
  BY <1>1, <1>2 DEF Commands
<1>8. FetchedCurrent'
  BY <1>1, <1>3, <1>7 DEF FetchedCurrent, Raced, MigrationInv, SecretsKept, Table
<1>9. mig.dir # "idle"
  BY DEF Fetch, Executes, Executing, Running
<1>. QED BY <1>1, <1>6, <1>7, <1>8, <1>9
         DEF MigrationInv, Course, SecretsKept, Raced

LEMMA ConvertInv ==
  ASSUME MigrationInv, NEW h \in Holders, Convert(h)
  PROVE  MigrationInv'
<1>. DEFINE text == mig.fetched[h].text
            code == Encrypted(To(Current.op), text)
            digest == IF h \in Users /\ To(Current.op) = "gcm"
                      THEN [db.digest EXCEPT ![h] = text] ELSE db.digest
            rest == [g \in DOMAIN mig.fetched \ {h} |-> mig.fetched[g]]
<1>1. /\ h \in DOMAIN mig.fetched
      /\ db' = [db EXCEPT !.secret[h] = code, !.digest = digest]
      /\ mig' = [mig EXCEPT !.converted = mig.converted \cup {h},
                            !.fetched = rest]
      /\ UNCHANGED <<saved, failure, writes>>
  BY DEF Convert
<1>2. text \in Texts /\ code \in Ciphertexts /\ code.text = text
  BY <1>1, FetchedTypes, SecretTypes DEF MigrationInv, To
<1>3. digest \in [Users -> Texts \cup {NoText}]
  BY <1>2 DEF MigrationInv, TypeOK, Databases
<1>4. mig \in Commands(mig) /\ db \in Databases(db)
  BY DEF MigrationInv, TypeOK
<1>5. rest \in FetchedRows
  <2>1. /\ DOMAIN mig.fetched \ {h} \subseteq Holders
        /\ \A g \in DOMAIN mig.fetched : mig.fetched[g] \in Ciphertexts
    BY FetchedTypes DEF MigrationInv
  <2>2. rest \in [DOMAIN mig.fetched \ {h} -> Ciphertexts]
    BY <2>1
  <2>3. DOMAIN mig.fetched \ {h} \in SUBSET Holders
    BY <2>1
  <2>. HIDE DEF rest
  <2>. QED BY ONLY <2>2, <2>3 DEF FetchedRows
<1>6. /\ db'.stamp = db.stamp /\ db'.last = db.last /\ db'.raced = db.raced
      /\ db'.secret = [db.secret EXCEPT ![h] = code]
      /\ mig'.fetched = rest /\ mig'.read = mig.read
      /\ mig'.dir = mig.dir /\ mig'.target = mig.target
  BY <1>1, <1>4 DEF Databases, Commands
<1>7. TypeOK'
  <2>. HIDE DEF code, digest, rest, text
  <2>1. db' \in Databases(db')
    BY <1>1, <1>2, <1>3, <1>4 DEF Databases
  <2>2. mig' \in Commands(mig')
    BY <1>1, <1>4, <1>5 DEF Commands
  <2>. QED BY <1>1, <2>1, <2>2 DEF MigrationInv, TypeOK
<1>8. SecretsKept'
  <2>1. ~ Raced(db, h) => text = db.last[h]
    BY <1>1 DEF MigrationInv, FetchedCurrent
  <2>2. /\ db.secret \in [Holders -> Ciphertexts \cup {NoSecret}]
        /\ \A g \in Holders :
             /\ ~ Raced(db, g) => db.secret[g].text = db.last[g]
             /\ ~ Raced(saved, g) => saved.secret[g].text = saved.last[g]
    BY <1>4 DEF MigrationInv, SecretsKept, Databases
  <2>3. saved' = saved
    BY <1>1
  <2>4. \A g \in Holders : Raced(db', g) <=> Raced(db, g)
    BY <1>6 DEF Raced
  <2>. HIDE DEF code, text
  <2>5. \A g \in Holders : ~ Raced(db', g) => db'.secret[g].text = db'.last[g]
    BY <1>2, <1>6, <2>1, <2>2, <2>4
  <2>. QED BY <2>2, <2>3, <2>5 DEF SecretsKept
<1>9. FetchedCurrent'
  BY <1>6 DEF MigrationInv, FetchedCurrent, Raced, Table
<1>. QED BY <1>6, <1>7, <1>8, <1>9 DEF MigrationInv, Course

LEMMA StartInv ==
  ASSUME MigrationInv, NEW t \in Targets, NEW key \in BOOLEAN, Start(t, key)
  PROVE  MigrationInv'
<1>. DEFINE dir == IF t > db.stamp THEN "up" ELSE "down"
<1>1. /\ mig' = [Idle EXCEPT !.dir = dir, !.target = t, !.key = key]
      /\ failure' = <<"none", "idle">> /\ UNCHANGED <<db, saved, writes>>
  BY DEF Start
<1>2. t \in 0..Len(Chain) /\ db.stamp \in 0..Len(Chain) /\ Len(Chain) \in Nat
  BY LenChain, BoundsAssumption DEF MigrationInv, TypeOK, Databases
<1>3. dir \in Directions /\ dir # "idle"
  BY DEF Directions
<1>4. /\ mig' \in Commands(mig')
      /\ mig'.fetched = NoRows /\ mig'.dir = dir /\ mig'.target = t
  <2>. HIDE DEF dir
  <2>1. Idle \in Commands(Idle) /\ Idle.fetched = NoRows
    BY IdleType DEF Idle
  <2>. QED BY ONLY <2>1, <1>1, <1>2, <1>3, key \in BOOLEAN DEF Commands
<1>5. TypeOK'
  BY <1>1, <1>4 DEF MigrationInv, TypeOK
<1>6. Course'
  BY <1>1, <1>2, <1>3, <1>4 DEF MigrationInv, Course
<1>7. SecretsKept' /\ FetchedCurrent'
  BY <1>1, <1>4, NoRowsType DEF MigrationInv, SecretsKept, Raced, FetchedCurrent
<1>. QED BY <1>5, <1>6, <1>7 DEF MigrationInv

LEMMA StampInv ==
  ASSUME MigrationInv, Stamp
  PROVE  MigrationInv'
<1>. DEFINE s == IF mig.dir = "up" THEN db.stamp + 1 ELSE db.stamp - 1
<1>1. /\ mig.dir # "idle" /\ db.stamp # mig.target
      /\ db' = [db EXCEPT !.stamp = s] /\ mig' = [mig EXCEPT !.pos = 1]
      /\ UNCHANGED <<saved, failure, writes>>
  BY DEF Stamp, Running
<1>2. mig \in Commands(mig) /\ db \in Databases(db)
  BY DEF MigrationInv, TypeOK
<1>3. /\ db.stamp \in 0..Len(Chain) /\ mig.target \in 0..Len(Chain)
      /\ mig.dir \in {"up", "down"}
  BY <1>1, <1>2 DEF Databases, Commands, Directions
<1>4. /\ s \in 0..Len(Chain)
      /\ mig.dir = "up" => s <= mig.target
      /\ mig.dir = "down" => mig.target <= s
  BY <1>1, <1>3, LenChain DEF MigrationInv, Course
<1>5. /\ mig'.fetched = mig.fetched /\ mig'.read = mig.read
      /\ mig'.dir = mig.dir /\ mig'.target = mig.target
      /\ db'.stamp = s /\ db'.secret = db.secret /\ db'.last = db.last
      /\ db'.raced = db.raced
  BY <1>1, <1>2 DEF Databases, Commands
<1>6. TypeOK'
  <2>. HIDE DEF s
  <2>1. db' \in Databases(db')
    BY <1>1, <1>2, <1>4 DEF Databases
  <2>2. mig' \in Commands(mig')
    BY <1>1, <1>2 DEF Commands
  <2>. QED BY <1>1, <2>1, <2>2 DEF MigrationInv, TypeOK
<1>7. SecretsKept' /\ FetchedCurrent'
  BY <1>1, <1>5 DEF MigrationInv, SecretsKept, Raced, FetchedCurrent
<1>. QED BY <1>4, <1>5, <1>6, <1>7 DEF MigrationInv, Course

\* The end of the command: what it did is committed, or nothing is.
LEMMA EndInv ==
  ASSUME MigrationInv, Commit \/ Fail \/ Killed
  PROVE  MigrationInv'
<1>1. mig' = Idle /\ db' = saved' /\ saved' \in {db, saved} /\ writes' = writes
  BY DEF Commit, Fail, Killed, RollBack
<1>2. failure' = failure \/ \E why \in {"none", "missing", "exists",
          "violated", "refused", "undecryptable", "killed"} :
        failure' = <<why, mig.dir>>
  BY ErrorType DEF Commit, Fail, Killed, RollBack
<1>3. mig.dir \in Directions \cup {"idle"}
  BY DEF MigrationInv, TypeOK, Commands
<1>4. TypeOK'
  BY <1>1, <1>2, <1>3, IdleType DEF MigrationInv, TypeOK
<1>5. mig'.dir = "idle" /\ mig'.fetched = NoRows /\ mig'.read = {}
  BY <1>1 DEF Idle
<1>6. SecretsKept'
  BY <1>1 DEF MigrationInv, SecretsKept, Raced
<1>. QED BY <1>4, <1>5, <1>6, NoRowsType DEF MigrationInv, Course, FetchedCurrent

(***************************************************************************)
(* The writes of the servers                                               *)
(***************************************************************************)
\* A write that is not about a secret.
LEMMA OtherWriteInv ==
  ASSUME MigrationInv, NEW table, NEW onSaved, NEW onDb,
         Write(table, onSaved, onDb),
         onSaved \in Databases(onSaved), onDb \in Databases(onDb),
         onDb.stamp = db.stamp,
         onSaved.secret = saved.secret, onSaved.last = saved.last,
         onSaved.raced = saved.raced,
         onDb.secret = db.secret, onDb.last = db.last, onDb.raced = db.raced
  PROVE  MigrationInv'
<1>1. /\ saved' = onSaved /\ db' = onDb /\ mig' = mig /\ failure' = failure
      /\ writes < MaxWrites /\ writes' = writes + 1
  BY DEF Write
<1>2. TypeOK'
  BY <1>1, BoundsAssumption DEF MigrationInv, TypeOK
<1>3. Course'
  BY <1>1 DEF MigrationInv, Course
<1>4. /\ db'.secret = db.secret /\ db'.last = db.last /\ db'.raced = db.raced
      /\ saved'.secret = saved.secret /\ saved'.last = saved.last
      /\ saved'.raced = saved.raced
  BY <1>1
<1>5. SecretsKept'
  <2>1. \A h \in Holders :
          /\ ~ Raced(db, h) => db.secret[h].text = db.last[h]
          /\ ~ Raced(saved, h) => saved.secret[h].text = saved.last[h]
    BY DEF MigrationInv, SecretsKept
  <2>2. \A h \in Holders :
          /\ ~ Raced(db', h) => db'.secret[h].text = db'.last[h]
          /\ ~ Raced(saved', h) => saved'.secret[h].text = saved'.last[h]
    BY <1>4, <2>1 DEF Raced
  <2>. QED BY <2>2 DEF SecretsKept
<1>6. FetchedCurrent'
  BY <1>1, <1>4 DEF MigrationInv, FetchedCurrent, Raced
<1>. QED BY <1>2, <1>3, <1>5, <1>6 DEF MigrationInv

LEMMA WriteInv ==
  ASSUME MigrationInv,
         \/ \E u \in Users, v \in {"none", "partial", "complete"} : WriteIdentity(u, v)
         \/ \E j \in Jobs, k \in JobKinds \ {"none"} : WriteJob(j, k)
         \/ \E j \in Jobs : CacheJob(j)
         \/ \E r \in Rules : WritePending(r)
         \/ \E f \in Families : WriteRestart(f)
  PROVE  MigrationInv'
<1>0. db \in Databases(db) /\ saved \in Databases(saved)
  BY DEF MigrationInv, TypeOK
<1>. DEFINE Other(d, e) == /\ e \in Databases(e) /\ e.stamp = d.stamp
                           /\ e.secret = d.secret /\ e.last = d.last
                           /\ e.raced = d.raced
<1>. SUFFICES \E table : \E onSaved, onDb :
        Write(table, onSaved, onDb) /\ Other(saved, onSaved) /\ Other(db, onDb)
  BY OtherWriteInv
<1>1. ASSUME NEW u \in Users, NEW v \in {"none", "partial", "complete"},
             WriteIdentity(u, v)
      PROVE  \E table : \E onSaved, onDb : Write(table, onSaved, onDb)
                 /\ Other(saved, onSaved) /\ Other(db, onDb)
  <2>. DEFINE W(d) == [d EXCEPT !.identity[u] = v]
  <2>1. Other(saved, W(saved)) /\ Other(db, W(db))
    BY <1>0 DEF Databases
  <2>2. Write("user_", W(saved), W(db))
    BY <1>1 DEF WriteIdentity
  <2>. QED BY <2>1, <2>2
<1>2. ASSUME NEW j \in Jobs, NEW k \in JobKinds \ {"none"}, WriteJob(j, k)
      PROVE  \E table : \E onSaved, onDb : Write(table, onSaved, onDb)
                 /\ Other(saved, onSaved) /\ Other(db, onDb)
  <2>. DEFINE W(d) == [d EXCEPT !.job[j] = k]
  <2>1. Other(saved, W(saved)) /\ Other(db, W(db))
    BY <1>0 DEF Databases
  <2>2. Write("job", W(saved), W(db))
    BY <1>2 DEF WriteJob
  <2>. QED BY <2>1, <2>2
<1>3. ASSUME NEW j \in Jobs, CacheJob(j)
      PROVE  \E table : \E onSaved, onDb : Write(table, onSaved, onDb)
                 /\ Other(saved, onSaved) /\ Other(db, onDb)
  <2>. DEFINE W(d) == [d EXCEPT !.cached = @ \cup {j}]
  <2>1. Other(saved, W(saved)) /\ Other(db, W(db))
    BY <1>0 DEF Databases
  <2>2. Write("job_cache", W(saved), W(db))
    BY <1>3 DEF CacheJob
  <2>. QED BY <2>1, <2>2
<1>4. ASSUME NEW r \in Rules, WritePending(r)
      PROVE  \E table : \E onSaved, onDb : Write(table, onSaved, onDb)
                 /\ Other(saved, onSaved) /\ Other(db, onDb)
  <2>. DEFINE W(d) == [d EXCEPT !.pending = @ \cup {r}, !.logged = @ \cup {r}]
  <2>0. ASSUME NEW d, d \in Databases(d), NEW p \in SUBSET Rules,
               NEW l \in SUBSET Rules
        PROVE  Other(d, [d EXCEPT !.pending = p, !.logged = l])
    BY <2>0 DEF Databases
  <2>1. Other(saved, W(saved)) /\ Other(db, W(db))
    <3>1. /\ saved.pending \cup {r} \in SUBSET Rules
          /\ saved.logged \cup {r} \in SUBSET Rules
          /\ db.pending \cup {r} \in SUBSET Rules
          /\ db.logged \cup {r} \in SUBSET Rules
      BY <1>0 DEF Databases
    <3>. HIDE DEF Other
    <3>. QED BY <1>0, <2>0, <3>1
  <2>2. Write("workspace_retention_rule", W(saved), W(db))
    BY <1>4 DEF WritePending
  <2>. QED BY <2>1, <2>2
<1>5. ASSUME NEW f \in Families, WriteRestart(f)
      PROVE  \E table : \E onSaved, onDb : Write(table, onSaved, onDb)
                 /\ Other(saved, onSaved) /\ Other(db, onDb)
  <2>1. ASSUME NEW d, d \in Databases(d), NEW n
        PROVE  Other(d, [d EXCEPT !.runs = n])
    BY <2>1 DEF Databases
  <2>. DEFINE run == <<saved.runs[f][1][1], Len(saved.runs[f])>>
  <2>2. PICK n, m : /\ n = [saved.runs EXCEPT ![f] = Append(@, run)]
                    /\ m = [db.runs EXCEPT ![f] = Append(@, run)]
    OBVIOUS
  <2>3. Write("workflow", [saved EXCEPT !.runs = n], [db EXCEPT !.runs = m])
    BY <1>5, <2>2 DEF WriteRestart
  <2>4. Other(saved, [saved EXCEPT !.runs = n]) /\ Other(db, [db EXCEPT !.runs = m])
    BY <1>0, <2>1
  <2>. HIDE DEF Other
  <2>. QED BY <2>3, <2>4
<1>. QED BY <1>1, <1>2, <1>3, <1>4, <1>5

\* The write of a secret: what the row holds, unless the transaction has read
\* it, and what the transaction has read counts as raced from then on.
LEMMA WriteSecretInv ==
  ASSUME MigrationInv, NEW h \in Holders, NEW x \in Texts \cup {NoText},
         WriteSecret(h, x)
  PROVE  MigrationInv'
<1>. DEFINE others == {h} \X Directions
            now == IF Table(h) \in mig.read THEN {<<h, mig.dir>>} ELSE {}
            code == IF x = NoText THEN NoSecret ELSE Encrypted(ServerEngine(h), x)
            digest(d) == IF h \in Users /\ ServerEngine(h) = "gcm"
                         THEN [d.digest EXCEPT ![h] = x] ELSE d.digest
            W(d, r) == [d EXCEPT !.secret[h] = code, !.last[h] = x,
                                 !.digest = digest(d), !.raced = r]
            onSaved == W(saved, saved.raced \ others)
            onDb == W(db, (db.raced \ others) \cup now)
<1>0. db \in Databases(db) /\ saved \in Databases(saved) /\ mig \in Commands(mig)
  BY DEF MigrationInv, TypeOK
<1>1. Write(Table(h), [WithSecret(saved, h, x) EXCEPT !.raced = @ \ others],
            [WithSecret(db, h, x) EXCEPT !.raced = (@ \ others) \cup now])
  BY DEF WriteSecret
<1>2. /\ [WithSecret(saved, h, x) EXCEPT !.raced = @ \ others] = onSaved
      /\ [WithSecret(db, h, x) EXCEPT !.raced = (@ \ others) \cup now] = onDb
  <2>. HIDE DEF others, now
  <2>. QED BY <1>0 DEF WithSecret, Databases
<1>3. /\ saved' = onSaved /\ db' = onDb /\ mig' = mig /\ failure' = failure
      /\ writes < MaxWrites /\ writes' = writes + 1
  <2>. HIDE DEF onSaved, onDb
  <2>. QED BY <1>1, <1>2 DEF Write
<1>4. code \in Ciphertexts \cup {NoSecret} /\ code.text = x
  BY SecretTypes DEF ServerEngine
<1>5. now \subseteq Holders \X Directions
  BY <1>0 DEF MigrationInv, Course, Commands
<1>6. /\ onSaved.raced = saved.raced \ others
      /\ onDb.raced = (db.raced \ others) \cup now
  BY <1>0 DEF Databases
<1>7. \A g \in Holders \ {h} : /\ Raced(onSaved, g) <=> Raced(saved, g)
                               /\ Raced(onDb, g) <=> Raced(db, g)
  <2>. HIDE DEF onSaved, onDb
  <2>. QED BY <1>6 DEF Raced
<1>8. ~ Raced(onDb, h) => Table(h) \notin mig.read
  <2>. HIDE DEF onSaved, onDb
  <2>1. now \subseteq onDb.raced
    BY <1>6
  <2>2. ASSUME Table(h) \in mig.read PROVE Raced(onDb, h)
    BY <2>1, <2>2, <1>5 DEF Raced
  <2>. QED BY <2>2
<1>9. ASSUME NEW d, NEW r, d \in Databases(d), r \subseteq Holders \X Directions
      PROVE  /\ W(d, r) \in Databases(W(d, r)) /\ W(d, r).stamp = d.stamp
             /\ W(d, r).secret = [d.secret EXCEPT ![h] = code]
             /\ W(d, r).last = [d.last EXCEPT ![h] = x]
  <2>. HIDE DEF code
  <2>1. digest(d) \in [Users -> Texts \cup {NoText}]
    BY <1>9 DEF Databases
  <2>. HIDE DEF digest
  <2>. QED BY <1>4, <1>9, <2>1 DEF Databases
<1>10. TypeOK' /\ Course'
  <2>1. /\ db.raced \subseteq Holders \X Directions
        /\ saved.raced \subseteq Holders \X Directions
    BY <1>0 DEF Databases
  <2>2. /\ onSaved \in Databases(onSaved) /\ onDb \in Databases(onDb)
        /\ onDb.stamp = db.stamp
    BY <1>0, <1>5, <1>9, <2>1
  <2>. HIDE DEF onSaved, onDb
  <2>. QED BY <1>3, <2>2, BoundsAssumption DEF MigrationInv, TypeOK, Course
<1>11. /\ onSaved.secret = [saved.secret EXCEPT ![h] = code]
       /\ onSaved.last = [saved.last EXCEPT ![h] = x]
       /\ onDb.secret = [db.secret EXCEPT ![h] = code]
       /\ onDb.last = [db.last EXCEPT ![h] = x]
  BY <1>0 DEF Databases
<1>12. /\ DOMAIN saved.secret = Holders /\ DOMAIN saved.last = Holders
       /\ DOMAIN db.secret = Holders /\ DOMAIN db.last = Holders
  BY <1>0 DEF Databases
<1>. HIDE DEF onSaved, onDb, code, now, others
<1>13. \A g \in Holders :
         /\ ~ Raced(saved, g) => saved.secret[g].text = saved.last[g]
         /\ ~ Raced(db, g) => db.secret[g].text = db.last[g]
  BY DEF MigrationInv, SecretsKept
<1>14. \A g \in Holders :
         /\ ~ Raced(onSaved, g) => onSaved.secret[g].text = onSaved.last[g]
         /\ ~ Raced(onDb, g) => onDb.secret[g].text = onDb.last[g]
  BY <1>4, <1>7, <1>11, <1>12, <1>13
<1>15. SecretsKept'
  BY <1>3, <1>14 DEF SecretsKept
<1>16. FetchedCurrent'
  <2>1. \A g \in DOMAIN mig.fetched :
          /\ g \in Holders /\ Table(g) \in mig.read
          /\ ~ Raced(db, g) => mig.fetched[g].text = db.last[g]
    BY FetchedTypes DEF MigrationInv, FetchedCurrent
  <2>2. \A g \in DOMAIN mig.fetched :
          /\ Table(g) \in mig.read
          /\ ~ Raced(onDb, g) => mig.fetched[g].text = onDb.last[g]
    BY <1>7, <1>8, <1>11, <1>12, <2>1
  <2>. QED BY <1>3, <2>2 DEF FetchedCurrent, Table
<1>. QED BY <1>10, <1>15, <1>16 DEF MigrationInv

(***************************************************************************)
(* The theorems                                                            *)
(***************************************************************************)
LEMMA NextInv == MigrationInv /\ [Next]_vars => MigrationInv'
<1>. SUFFICES ASSUME MigrationInv, [Next]_vars PROVE MigrationInv'
  OBVIOUS
<1>1. CASE \E t \in Targets, key \in BOOLEAN : Start(t, key)
  BY <1>1, StartInv
<1>2. CASE Migration
  BY <1>2, StatementInv, RewriteInv, FetchInv, ConvertInv, StampInv, EndInv
     DEF Migration
<1>3. CASE Killed
  BY <1>3, EndInv
<1>4. CASE Servers
  BY <1>4, WriteSecretInv, WriteInv DEF Servers
<1>5. CASE UNCHANGED vars
  BY <1>5 DEF vars, MigrationInv, TypeOK, Course, SecretsKept, FetchedCurrent,
              Raced, Table
<1>. QED BY <1>1, <1>2, <1>3, <1>4, <1>5 DEF Next

THEOREM InvHolds == Spec => []MigrationInv
BY InitInv, NextInv, PTL DEF Spec

\* The database, the command and the log stay what they are declared to be,
\* through every statement, failure, crash and concurrent write.
THEOREM Typed == Spec => []TypeOK
<1>1. MigrationInv => TypeOK
  BY DEF MigrationInv
<1>. QED BY <1>1, InvHolds, PTL

\* No sequence of upgrades, downgrades, failures and crashes loses a bearer
\* secret that no server wrote beneath a conversion (8ae7b67c2d41,
\* e940248e5165), whatever else the revisions of the chain are.
THEOREM NoSecretLost == Spec => []SecretsKept
<1>1. MigrationInv => SecretsKept
  BY DEF MigrationInv
<1>. QED BY <1>1, InvHolds, PTL

-----------------------------------------------------------------------------
(***************************************************************************)
(* What the revisions of Chain do to the rows, for any rows, targets,      *)
(* failures and writes of the servers. The proofs above are about any      *)
(* chain, these are about this one, statement by statement.                *)
(***************************************************************************)
\* The command is in the script of the revision rev, behind its n-th statement.
Past(dir, rev, n) ==
  /\ mig.dir = dir
  /\ db.stamp = IF dir = "up" THEN rev - 1 ELSE rev
  /\ mig.pos > n

\* Between commands the two databases have the same schema; a command goes one
\* way, and one that has arrived is at the beginning of a script it does not
\* execute.
Resting ==
  /\ mig.dir = "idle" => db.stamp = saved.stamp /\ db.catalog = saved.catalog
  /\ mig.dir = "up" => saved.stamp <= db.stamp
  /\ mig.dir = "down" => db.stamp <= saved.stamp
  /\ db.stamp = mig.target => mig.pos = 1

(***************************************************************************)
(* Webhook secrets are not written beneath their upgrade                   *)
(***************************************************************************)
NotRaced(d) == \A u \in Users : <<u, "up">> \notin d.raced

WebhookLocked ==
  /\ Past("up", 15, 1) => "user_" \in mig.locks
  /\ mig.dir = "up" /\ "user_" \in mig.read => "user_" \in mig.locks
  /\ NotRaced(db) /\ NotRaced(saved)

(***************************************************************************)
(* The checks                                                              *)
(***************************************************************************)
Checks(d, t, n) == Variants(t, n, 0..2) \cap d.catalog
Repaired(d, t, n) == Checks(d, t, n) = {<<t, n, 1>>}

ChecksInv ==
  /\ \A d \in {db, saved} : d.stamp >= RepairedAt =>
       Repaired(d, "user_resource", Months) /\ Repaired(d, "user_", Identity)
  /\ Past("up", RepairedAt, 1) => Repaired(db, "user_resource", Months)
  /\ Past("up", RepairedAt, 2) => Repaired(db, "user_", Identity)

Complete(d) == \A u \in Users : d.identity[u] # "partial"

\* A check that only the transaction has is guarded by its lock.
IdentitiesInv ==
  /\ \A d \in {db, saved} : Checks(d, "user_", Identity) # {} => Complete(d)
  /\ Checks(db, "user_", Identity) # {} =>
       Checks(saved, "user_", Identity) # {} \/ "user_" \in mig.locks

(***************************************************************************)
(* Jobs and pending rules                                                  *)
(***************************************************************************)
No(d, kind) == \A j \in Jobs : d.job[j] # kind
CacheOK(d) == \A j \in d.cached : d.job[j] # "none"

JobsInv ==
  /\ \A d \in {db, saved} :
       d.stamp >= JobKeyAt => No(d, "null") /\ No(d, "orphan")
  /\ Past("up", JobKeyAt, 5) => No(db, "null") /\ "job" \in mig.locks
  /\ Past("up", JobKeyAt, 6) => No(db, "orphan")
  /\ db.stamp >= JobKeyAt /\ saved.stamp < JobKeyAt => "job" \in mig.locks
  /\ CacheOK(saved)
  /\ CacheOK(db) \/ (Past("up", JobKeyAt, 2) /\ mig.pos = 3)
  /\ Past("up", JobKeyAt, 1) => "job_cache" \in mig.locks

PendingInv ==
  LET ruleLocked == "workspace_retention_rule" \in mig.locks IN
  /\ \A d \in {db, saved} : d.stamp < PendingAt => d.pending = {} /\ d.logged = {}
  /\ Past("down", PendingAt, 2) => db.pending = {} /\ ruleLocked
  /\ Past("down", PendingAt, 3) => db.logged = {}
  /\ db.stamp < PendingAt /\ saved.stamp >= PendingAt => ruleLocked

(***************************************************************************)
(* Run numbers                                                             *)
(***************************************************************************)
RunsTyped(runs) ==
  /\ DOMAIN runs = Families
  /\ \A f \in Families : runs[f] \in Seq(Seq(Nat))

\* n(f) in the three encodings of the k-th run of f.
Tenths(runs) ==
  \A f \in Families : \E n \in Nat : \A k \in DOMAIN runs[f] :
    runs[f][k] = <<10 * n + k - 1>>
Halves(runs) ==
  \A f \in Families : \E n \in Nat : \A k \in DOMAIN runs[f] :
    runs[f][k] = <<n + ((k - 1) \div 10), (k - 1) % 10>>
Pairs(runs) ==
  \A f \in Families : \E n \in Nat : \A k \in DOMAIN runs[f] :
    runs[f][k] = <<n, k - 1>>
FewRestarts(runs) == \A f \in Families : Len(runs[f]) <= 10

Split    == Past("up", SplitAt, 2)
Renumbered == Past("up", SplitAt, 6)
Combined == Past("down", SplitAt, 4)

RunsInv ==
  /\ \A d \in {db, saved} : RunsTyped(d.runs) /\ Distinct(d.runs)
  /\ saved.stamp < SplitAt => Tenths(saved.runs)
  /\ saved.stamp >= SplitAt => Pairs(saved.runs)
  /\ db.stamp < SplitAt /\ ~ Split => Tenths(db.runs)
  /\ Split /\ ~ Renumbered => Halves(db.runs)
  /\ Renumbered => Pairs(db.runs)
  /\ db.stamp >= SplitAt /\ ~ Combined => Pairs(db.runs)
  /\ Combined => Tenths(db.runs)
  /\ Past("down", SplitAt, 1) => "workflow" \in mig.locks
  /\ Past("down", SplitAt, 3) => FewRestarts(db.runs)
  /\ db.stamp < SplitAt /\ saved.stamp >= SplitAt => "workflow" \in mig.locks
  /\ db.stamp >= SplitAt /\ saved.stamp >= SplitAt /\ ~ Combined
       => db.runs = saved.runs
  /\ mig.dir = "idle" => db.runs = saved.runs

(***************************************************************************)
(* Secrets                                                                 *)
(***************************************************************************)
\* The statement of an upgrade that fetches the secrets of a table; that of a
\* downgrade is the first.
FetchOf(table) == IF table = "user_" THEN 2 ELSE 1

\* The engine for the rows of h's table that are not waiting to be converted.
Engine(h) ==
  LET from == GcmFrom[Table(h)] IN
  IF \/ db.stamp >= from /\ ~ Past("down", from, 1)
     \/ Past("up", from, FetchOf(Table(h)))
  THEN "gcm" ELSE "cbc"

\* The command is at the statement that converts the secrets of the table.
Converting(table) ==
  LET from == GcmFrom[table] IN
  \/ Past("up", from, FetchOf(table)) /\ mig.pos = FetchOf(table) + 1
  \/ Past("down", from, 1) /\ mig.pos = 2

\* A release that uses this engine reads in d what was written to the row last.
Readable(d, h, engine) ==
  ~ Raced(d, h) /\ d.last[h] # NoText =>
    /\ d.secret[h] = Encrypted(engine, d.last[h])
    /\ h \in Users /\ engine = "gcm" => d.digest[h] = d.last[h]

ReadableInv ==
  /\ \A h \in Holders : Readable(saved, h, ServerEngine(h))
  /\ \A h \in Holders \ DOMAIN mig.fetched : Readable(db, h, Engine(h))
  /\ \A h \in DOMAIN mig.fetched : Converting(Table(h))
  /\ \A h \in Holders : Engine(h) # ServerEngine(h) => Table(h) \in mig.read

(***************************************************************************)
(* What the scripts hold                                                   *)
(***************************************************************************)
LEMMA ChainIs ==
  /\ Len(Chain) = 19 /\ DOMAIN Chain = 1..19
  /\ Chain[1] = PendingStatus /\ Chain[2] = SplitRunNumber
  /\ Chain[3] = EnforceNamingConvention /\ Chain[4] = ImproveIndexesUsage
  /\ Chain[5] = JobForeignKey /\ Chain[6] = WorkflowSharing
  /\ Chain[7] = ServiceTables /\ Chain[8] = ServiceLogs
  /\ Chain[9] = QuotaPeriods /\ Chain[10] = IdpIdentity
  /\ Chain[11] = SessionAndWebhookSecrets /\ Chain[12] = RequireCompleteIdentity
  /\ Chain[13] = ExpireWebhookSecrets /\ Chain[14] = UserResourceIndex
  /\ Chain[15] = WebhookSecretStorage /\ Chain[16] = RepairChecks
  /\ Chain[17] = ConvertSessionSecrets /\ Chain[18] = DropUserToken
  /\ Chain[19] = ComputeBackends
BY DEF Chain

\* No check of the two that were repaired, and not its table.
NoCheck(objs) ==
  /\ \A k \in 0..2 : /\ <<"user_", Identity, k>> \notin objs
                     /\ <<"user_resource", Months, k>> \notin objs
  /\ <<"user_">> \notin objs /\ <<"user_resource">> \notin objs

\* Where in the chain the statements are that rewrite rows or deal with checks:
\* s is the j-th statement of the i-th upgrade.
KnownUp(i, j, s) ==
  /\ s.op \in {"ddl", "check", "repair", "refuse_if", "fetch", "convert_to_gcm",
               "split_numbers", "renumber_restarts", "delete_jobs", "delete_cache"}
  /\ s.op = "split_numbers"     => i = 2 /\ j = 2
  /\ s.op = "renumber_restarts" => i = 2 /\ j = 6
  /\ s.op = "delete_jobs"       => i = 5 /\ j = 2
  /\ s.op = "delete_cache"      => i = 5 /\ j = 3
  /\ s.op = "fetch" => \/ i = 15 /\ j = 2 /\ s.about = "user_"
                       \/ i = 17 /\ j = 1 /\ s.about = "interactive_session"
  /\ s.op = "convert_to_gcm" => \/ i = 15 /\ j = 3
                                \/ i = 17 /\ j = 2
  /\ s.op = "ddl" => NoCheck(s.adds) /\ NoCheck(s.drops)
  /\ s.op = "check" =>
       \/ i = 9  /\ j = 2 /\ s.adds = {<<"user_resource", Months, 2>>}
       \/ i = 12 /\ j = 2 /\ s = CreateCheck("user_", Identity, 0, "identities complete")
       \/ i = 15 /\ j = 5 /\ s.adds = {<<"user_", Webhook, 1>>}
  /\ s.op = "repair" => i = 16

\* The same for the j-th statement of the i-th downgrade.
KnownDown(i, j, s) ==
  /\ s.op \in {"ddl", "drop_or_refuse", "refuse_if", "fetch", "convert_to_cbc",
               "combine_numbers", "activate_pending", "forget_pending",
               "erase_secrets", "erase_digests", "erase_identities"}
  /\ s.op \in {"activate_pending", "forget_pending"} => i = 1
  /\ s.op = "combine_numbers" => i = 2 /\ j = 4
  /\ s.op = "erase_digests" => i = 15 /\ j = 6
  /\ s.op = "fetch" => \/ i = 15 /\ j = 1 /\ s.about = "user_"
                       \/ i = 17 /\ j = 1 /\ s.about = "interactive_session"
  /\ s.op = "convert_to_cbc" => i \in {15, 17} /\ j = 2
  /\ s.op \in {"ddl", "drop_or_refuse"} =>
       /\ i > 15 => NoCheck(s.drops)
       /\ NoCheck(s.adds)

LEMMA UpScripts ==
  ASSUME NEW i \in 1..19, NEW j \in DOMAIN Chain[i].up
  PROVE  KnownUp(i, j, Chain[i].up[j])
<1>. USE DEF Statement, Create, Drop, Validated, Swap, Rows, CreateCheck,
             DropCheck, Expanded, On, Identity, Months
<1>1. CASE i = 1
  <2>1. DOMAIN PendingStatus.up = 1..2
    BY DEF PendingStatus
  <2>2. /\ KnownUp(1, 1, PendingStatus.up[1])
        /\ KnownUp(1, 2, PendingStatus.up[2])
    BY DEF KnownUp, NoCheck, PendingStatus
  <2>. QED BY <1>1, <2>1, <2>2, ChainIs
<1>2. CASE i = 2
  <2>1. DOMAIN SplitRunNumber.up = 1..6
    BY DEF SplitRunNumber
  <2>2. /\ KnownUp(2, 1, SplitRunNumber.up[1])
        /\ KnownUp(2, 2, SplitRunNumber.up[2])
        /\ KnownUp(2, 3, SplitRunNumber.up[3])
        /\ KnownUp(2, 4, SplitRunNumber.up[4])
        /\ KnownUp(2, 5, SplitRunNumber.up[5])
        /\ KnownUp(2, 6, SplitRunNumber.up[6])
    BY DEF KnownUp, NoCheck, SplitRunNumber, MajorMinor, RunNumberConstraint
  <2>. QED BY <1>2, <2>1, <2>2, ChainIs
<1>3. CASE i = 3
  <2>1. DOMAIN EnforceNamingConvention.up = 1..1
    BY DEF EnforceNamingConvention
  <2>2. NoCheck(OldNames) /\ NoCheck(NewNames)
    BY DEF NoCheck, OldNames, NewNames, constraints
  <2>3. KnownUp(3, 1, EnforceNamingConvention.up[1])
    BY <2>2 DEF KnownUp, EnforceNamingConvention
  <2>. QED BY <1>3, <2>1, <2>3, ChainIs
<1>4. CASE i = 4
  <2>1. DOMAIN ImproveIndexesUsage.up = 1..3
    BY DEF ImproveIndexesUsage
  <2>2. /\ KnownUp(4, 1, ImproveIndexesUsage.up[1])
        /\ KnownUp(4, 2, ImproveIndexesUsage.up[2])
        /\ KnownUp(4, 3, ImproveIndexesUsage.up[3])
    BY DEF KnownUp, NoCheck, ImproveIndexesUsage
  <2>. QED BY <1>4, <2>1, <2>2, ChainIs
<1>5. CASE i = 5
  <2>1. DOMAIN JobForeignKey.up = 1..6
    BY DEF JobForeignKey
  <2>2. /\ KnownUp(5, 1, JobForeignKey.up[1])
        /\ KnownUp(5, 2, JobForeignKey.up[2])
        /\ KnownUp(5, 3, JobForeignKey.up[3])
        /\ KnownUp(5, 4, JobForeignKey.up[4])
        /\ KnownUp(5, 5, JobForeignKey.up[5])
        /\ KnownUp(5, 6, JobForeignKey.up[6])
    BY DEF KnownUp, NoCheck, JobForeignKey
  <2>. QED BY <1>5, <2>1, <2>2, ChainIs
<1>6. CASE i = 6
  <2>1. DOMAIN WorkflowSharing.up = 1..1
    BY DEF WorkflowSharing
  <2>2. /\ KnownUp(6, 1, WorkflowSharing.up[1])
    BY DEF KnownUp, NoCheck, WorkflowSharing
  <2>. QED BY <1>6, <2>1, <2>2, ChainIs
<1>7. CASE i = 7
  <2>1. DOMAIN ServiceTables.up = 1..2
    BY DEF ServiceTables
  <2>2. /\ KnownUp(7, 1, ServiceTables.up[1])
        /\ KnownUp(7, 2, ServiceTables.up[2])
    BY DEF KnownUp, NoCheck, ServiceTables
  <2>. QED BY <1>7, <2>1, <2>2, ChainIs
<1>8. CASE i = 8
  <2>1. DOMAIN ServiceLogs.up = 1..1
    BY DEF ServiceLogs
  <2>2. /\ KnownUp(8, 1, ServiceLogs.up[1])
    BY DEF KnownUp, NoCheck, ServiceLogs
  <2>. QED BY <1>8, <2>1, <2>2, ChainIs
<1>9. CASE i = 9
  <2>1. DOMAIN QuotaPeriods.up = 1..3
    BY DEF QuotaPeriods
  <2>2. /\ KnownUp(9, 1, QuotaPeriods.up[1])
        /\ KnownUp(9, 2, QuotaPeriods.up[2])
        /\ KnownUp(9, 3, QuotaPeriods.up[3])
    BY DEF KnownUp, NoCheck, QuotaPeriods
  <2>. QED BY <1>9, <2>1, <2>2, ChainIs
<1>10. CASE i = 10
  <2>1. DOMAIN IdpIdentity.up = 1..1
    BY DEF IdpIdentity
  <2>2. /\ KnownUp(10, 1, IdpIdentity.up[1])
    BY DEF KnownUp, NoCheck, IdpIdentity
  <2>. QED BY <1>10, <2>1, <2>2, ChainIs
<1>11. CASE i = 11
  <2>1. DOMAIN SessionAndWebhookSecrets.up = 1..2
    BY DEF SessionAndWebhookSecrets
  <2>2. /\ KnownUp(11, 1, SessionAndWebhookSecrets.up[1])
        /\ KnownUp(11, 2, SessionAndWebhookSecrets.up[2])
    BY DEF KnownUp, NoCheck, SessionAndWebhookSecrets
  <2>. QED BY <1>11, <2>1, <2>2, ChainIs
<1>12. CASE i = 12
  <2>1. DOMAIN RequireCompleteIdentity.up = 1..2
    BY DEF RequireCompleteIdentity
  <2>2. /\ KnownUp(12, 1, RequireCompleteIdentity.up[1])
        /\ KnownUp(12, 2, RequireCompleteIdentity.up[2])
    BY DEF KnownUp, NoCheck, RequireCompleteIdentity
  <2>. QED BY <1>12, <2>1, <2>2, ChainIs
<1>13. CASE i = 13
  <2>1. DOMAIN ExpireWebhookSecrets.up = 1..1
    BY DEF ExpireWebhookSecrets
  <2>2. /\ KnownUp(13, 1, ExpireWebhookSecrets.up[1])
    BY DEF KnownUp, NoCheck, ExpireWebhookSecrets
  <2>. QED BY <1>13, <2>1, <2>2, ChainIs
<1>14. CASE i = 14
  <2>1. DOMAIN UserResourceIndex.up = 1..1
    BY DEF UserResourceIndex
  <2>2. /\ KnownUp(14, 1, UserResourceIndex.up[1])
    BY DEF KnownUp, NoCheck, UserResourceIndex
  <2>. QED BY <1>14, <2>1, <2>2, ChainIs
<1>15. CASE i = 15
  <2>1. DOMAIN WebhookSecretStorage.up = 1..5
    BY DEF WebhookSecretStorage, HardenWebhookSecrets, RestoreWebhookSecrets, WebhookDigest, UniqueCiphertext, UniqueDigest, Webhook
  <2>2. WebhookSecretStorage.up = HardenWebhookSecrets
    BY DEF WebhookSecretStorage
  <2>3. /\ HardenWebhookSecrets[1] = Create({"user_"}, WebhookDigest)
        /\ HardenWebhookSecrets[2] = Rows("fetch", "user_")
        /\ HardenWebhookSecrets[3] = Rows("convert_to_gcm", "user_")
        /\ HardenWebhookSecrets[4] = Swap({"user_"}, UniqueCiphertext, UniqueDigest, "digests unique")
        /\ HardenWebhookSecrets[5] = CreateCheck("user_", Webhook, 0, "digests complete")
    BY DEF HardenWebhookSecrets
  <2>4. /\ NoCheck(WebhookDigest) /\ NoCheck(UniqueCiphertext)
        /\ NoCheck(UniqueDigest) /\ NoCheck({})
    BY DEF NoCheck, WebhookDigest, UniqueCiphertext, UniqueDigest
  <2>5. KnownUp(15, 1, Create({"user_"}, WebhookDigest))
    BY <2>4 DEF KnownUp
  <2>6. KnownUp(15, 2, Rows("fetch", "user_"))
    BY DEF KnownUp
  <2>7. KnownUp(15, 3, Rows("convert_to_gcm", "user_"))
    BY DEF KnownUp
  <2>8. KnownUp(15, 4, Swap({"user_"}, UniqueCiphertext, UniqueDigest,
                            "digests unique"))
    BY <2>4 DEF KnownUp
  <2>9. KnownUp(15, 5, CreateCheck("user_", Webhook, 0, "digests complete"))
    BY DEF KnownUp
  <2>10. /\ KnownUp(15, 1, HardenWebhookSecrets[1])
         /\ KnownUp(15, 2, HardenWebhookSecrets[2])
         /\ KnownUp(15, 3, HardenWebhookSecrets[3])
         /\ KnownUp(15, 4, HardenWebhookSecrets[4])
         /\ KnownUp(15, 5, HardenWebhookSecrets[5])
    BY ONLY <2>3, <2>5, <2>6, <2>7, <2>8, <2>9, Zenon
  <2>11. j \in 1..5 /\ Chain[i].up[j] = HardenWebhookSecrets[j]
    BY <1>15, <2>1, <2>2, ChainIs
  <2>. QED BY <1>15, <2>10, <2>11
<1>16. CASE i = 16
  <2>1. DOMAIN RepairChecks.up = 1..2
    BY DEF RepairChecks
  <2>2. /\ KnownUp(16, 1, RepairChecks.up[1])
        /\ KnownUp(16, 2, RepairChecks.up[2])
    BY DEF KnownUp, NoCheck, RepairChecks
  <2>. QED BY <1>16, <2>1, <2>2, ChainIs
<1>17. CASE i = 17
  <2>1. DOMAIN ConvertSessionSecrets.up = 1..2
    BY DEF ConvertSessionSecrets
  <2>2. /\ KnownUp(17, 1, ConvertSessionSecrets.up[1])
        /\ KnownUp(17, 2, ConvertSessionSecrets.up[2])
    BY DEF KnownUp, NoCheck, ConvertSessionSecrets
  <2>. QED BY <1>17, <2>1, <2>2, ChainIs
<1>18. CASE i = 18
  <2>1. DOMAIN DropUserToken.up = 1..1
    BY DEF DropUserToken
  <2>2. /\ KnownUp(18, 1, DropUserToken.up[1])
    BY DEF KnownUp, NoCheck, DropUserToken, TokenTypes
  <2>. QED BY <1>18, <2>1, <2>2, ChainIs
<1>19. CASE i = 19
  <2>1. DOMAIN ComputeBackends.up = 1..1
    BY DEF ComputeBackends
  <2>2. /\ KnownUp(19, 1, ComputeBackends.up[1])
    BY DEF KnownUp, NoCheck, ComputeBackends
  <2>. QED BY <1>19, <2>1, <2>2, ChainIs
<1>. QED BY <1>1, <1>2, <1>3, <1>4, <1>5, <1>6, <1>7, <1>8, <1>9, <1>10, <1>11, <1>12, <1>13, <1>14, <1>15, <1>16, <1>17, <1>18, <1>19

LEMMA DownScripts ==
  ASSUME NEW i \in 1..19, NEW j \in DOMAIN Chain[i].down
  PROVE  KnownDown(i, j, Chain[i].down[j])
<1>. USE DEF Statement, Create, Drop, Validated, Swap, Rows, CreateCheck,
             DropCheck, Expanded, On, Identity, Months
<1>1. CASE i = 1
  <2>1. DOMAIN PendingStatus.down = 1..4
    BY DEF PendingStatus
  <2>2. /\ KnownDown(1, 1, PendingStatus.down[1])
        /\ KnownDown(1, 2, PendingStatus.down[2])
        /\ KnownDown(1, 3, PendingStatus.down[3])
        /\ KnownDown(1, 4, PendingStatus.down[4])
    BY DEF KnownDown, NoCheck, PendingStatus
  <2>. QED BY <1>1, <2>1, <2>2, ChainIs
<1>2. CASE i = 2
  <2>1. DOMAIN SplitRunNumber.down = 1..6
    BY DEF SplitRunNumber
  <2>2. /\ KnownDown(2, 1, SplitRunNumber.down[1])
        /\ KnownDown(2, 2, SplitRunNumber.down[2])
        /\ KnownDown(2, 3, SplitRunNumber.down[3])
        /\ KnownDown(2, 4, SplitRunNumber.down[4])
        /\ KnownDown(2, 5, SplitRunNumber.down[5])
        /\ KnownDown(2, 6, SplitRunNumber.down[6])
    BY DEF KnownDown, NoCheck, SplitRunNumber, MajorMinor, RunNumberConstraint
  <2>. QED BY <1>2, <2>1, <2>2, ChainIs
<1>3. CASE i = 3
  <2>1. DOMAIN EnforceNamingConvention.down = 1..1
    BY DEF EnforceNamingConvention
  <2>2. NoCheck(OldNames) /\ NoCheck(NewNames)
    BY DEF NoCheck, OldNames, NewNames, constraints
  <2>3. KnownDown(3, 1, EnforceNamingConvention.down[1])
    BY <2>2 DEF KnownDown, EnforceNamingConvention
  <2>. QED BY <1>3, <2>1, <2>3, ChainIs
<1>4. CASE i = 4
  <2>1. DOMAIN ImproveIndexesUsage.down = 1..3
    BY DEF ImproveIndexesUsage
  <2>2. /\ KnownDown(4, 1, ImproveIndexesUsage.down[1])
        /\ KnownDown(4, 2, ImproveIndexesUsage.down[2])
        /\ KnownDown(4, 3, ImproveIndexesUsage.down[3])
    BY DEF KnownDown, NoCheck, ImproveIndexesUsage
  <2>. QED BY <1>4, <2>1, <2>2, ChainIs
<1>5. CASE i = 5
  <2>1. DOMAIN JobForeignKey.down = 1..2
    BY DEF JobForeignKey
  <2>2. /\ KnownDown(5, 1, JobForeignKey.down[1])
        /\ KnownDown(5, 2, JobForeignKey.down[2])
    BY DEF KnownDown, NoCheck, JobForeignKey
  <2>. QED BY <1>5, <2>1, <2>2, ChainIs
<1>6. CASE i = 6
  <2>1. DOMAIN WorkflowSharing.down = 1..1
    BY DEF WorkflowSharing
  <2>2. /\ KnownDown(6, 1, WorkflowSharing.down[1])
    BY DEF KnownDown, NoCheck, WorkflowSharing
  <2>. QED BY <1>6, <2>1, <2>2, ChainIs
<1>7. CASE i = 7
  <2>1. DOMAIN ServiceTables.down = 1..2
    BY DEF ServiceTables
  <2>2. /\ KnownDown(7, 1, ServiceTables.down[1])
        /\ KnownDown(7, 2, ServiceTables.down[2])
    BY DEF KnownDown, NoCheck, ServiceTables
  <2>. QED BY <1>7, <2>1, <2>2, ChainIs
<1>8. CASE i = 8
  <2>1. DOMAIN ServiceLogs.down = 1..1
    BY DEF ServiceLogs
  <2>2. /\ KnownDown(8, 1, ServiceLogs.down[1])
    BY DEF KnownDown, NoCheck, ServiceLogs
  <2>. QED BY <1>8, <2>1, <2>2, ChainIs
<1>9. CASE i = 9
  <2>1. DOMAIN QuotaPeriods.down = 1..3
    BY DEF QuotaPeriods
  <2>2. /\ KnownDown(9, 1, QuotaPeriods.down[1])
        /\ KnownDown(9, 2, QuotaPeriods.down[2])
        /\ KnownDown(9, 3, QuotaPeriods.down[3])
    BY DEF KnownDown, NoCheck, QuotaPeriods
  <2>. QED BY <1>9, <2>1, <2>2, ChainIs
<1>10. CASE i = 10
  <2>1. DOMAIN IdpIdentity.down = 1..2
    BY DEF IdpIdentity
  <2>2. /\ KnownDown(10, 1, IdpIdentity.down[1])
        /\ KnownDown(10, 2, IdpIdentity.down[2])
    BY DEF KnownDown, NoCheck, IdpIdentity
  <2>. QED BY <1>10, <2>1, <2>2, ChainIs
<1>11. CASE i = 11
  <2>1. DOMAIN SessionAndWebhookSecrets.down = 1..4
    BY DEF SessionAndWebhookSecrets
  <2>2. /\ KnownDown(11, 1, SessionAndWebhookSecrets.down[1])
        /\ KnownDown(11, 2, SessionAndWebhookSecrets.down[2])
        /\ KnownDown(11, 3, SessionAndWebhookSecrets.down[3])
        /\ KnownDown(11, 4, SessionAndWebhookSecrets.down[4])
    BY DEF KnownDown, NoCheck, SessionAndWebhookSecrets
  <2>. QED BY <1>11, <2>1, <2>2, ChainIs
<1>12. CASE i = 12
  <2>1. DOMAIN RequireCompleteIdentity.down = 1..1
    BY DEF RequireCompleteIdentity
  <2>2. /\ KnownDown(12, 1, RequireCompleteIdentity.down[1])
    BY DEF KnownDown, NoCheck, RequireCompleteIdentity
  <2>. QED BY <1>12, <2>1, <2>2, ChainIs
<1>13. CASE i = 13
  <2>1. DOMAIN ExpireWebhookSecrets.down = 1..1
    BY DEF ExpireWebhookSecrets
  <2>2. /\ KnownDown(13, 1, ExpireWebhookSecrets.down[1])
    BY DEF KnownDown, NoCheck, ExpireWebhookSecrets
  <2>. QED BY <1>13, <2>1, <2>2, ChainIs
<1>14. CASE i = 14
  <2>1. DOMAIN UserResourceIndex.down = 1..1
    BY DEF UserResourceIndex
  <2>2. /\ KnownDown(14, 1, UserResourceIndex.down[1])
    BY DEF KnownDown, NoCheck, UserResourceIndex
  <2>. QED BY <1>14, <2>1, <2>2, ChainIs
<1>15. CASE i = 15
  <2>1. DOMAIN WebhookSecretStorage.down = 1..6
    BY DEF WebhookSecretStorage, HardenWebhookSecrets, RestoreWebhookSecrets, WebhookDigest, UniqueCiphertext, UniqueDigest, Webhook
  <2>2. /\ KnownDown(15, 1, WebhookSecretStorage.down[1])
        /\ KnownDown(15, 2, WebhookSecretStorage.down[2])
        /\ KnownDown(15, 3, WebhookSecretStorage.down[3])
        /\ KnownDown(15, 4, WebhookSecretStorage.down[4])
        /\ KnownDown(15, 5, WebhookSecretStorage.down[5])
        /\ KnownDown(15, 6, WebhookSecretStorage.down[6])
    BY DEF KnownDown, NoCheck, WebhookSecretStorage, HardenWebhookSecrets, RestoreWebhookSecrets, WebhookDigest, UniqueCiphertext, UniqueDigest, Webhook
  <2>. QED BY <1>15, <2>1, <2>2, ChainIs
<1>16. CASE i = 16
  <2>1. DOMAIN RepairChecks.down = {}
    BY DEF RepairChecks
  <2>. QED BY <1>16, <2>1, ChainIs
<1>17. CASE i = 17
  <2>1. DOMAIN ConvertSessionSecrets.down = 1..2
    BY DEF ConvertSessionSecrets
  <2>2. /\ KnownDown(17, 1, ConvertSessionSecrets.down[1])
        /\ KnownDown(17, 2, ConvertSessionSecrets.down[2])
    BY DEF KnownDown, NoCheck, ConvertSessionSecrets
  <2>. QED BY <1>17, <2>1, <2>2, ChainIs
<1>18. CASE i = 18
  <2>1. DOMAIN DropUserToken.down = 1..1
    BY DEF DropUserToken
  <2>2. /\ KnownDown(18, 1, DropUserToken.down[1])
    BY DEF KnownDown, NoCheck, DropUserToken, TokenTypes
  <2>. QED BY <1>18, <2>1, <2>2, ChainIs
<1>19. CASE i = 19
  <2>1. DOMAIN ComputeBackends.down = 1..1
    BY DEF ComputeBackends
  <2>2. /\ KnownDown(19, 1, ComputeBackends.down[1])
    BY DEF KnownDown, NoCheck, ComputeBackends
  <2>. QED BY <1>19, <2>1, <2>2, ChainIs
<1>. QED BY <1>1, <1>2, <1>3, <1>4, <1>5, <1>6, <1>7, <1>8, <1>9, <1>10, <1>11, <1>12, <1>13, <1>14, <1>15, <1>16, <1>17, <1>18, <1>19

\* The statements that the invariants name.
LEMMA Named ==
  /\ Chain[2].up[2] = Rows("split_numbers", "nothing")
  /\ Chain[2].up[6] = Rows("renumber_restarts", "numbers unique")
  /\ Chain[5].up[1] = Swap({"job_cache"}, On("job_cache", {"fk_job_cache_job_id_job"}),
                      On("job_cache", {"fk_job_cache_job_id_job"}), "nothing")
  /\ Chain[5].up[3] = Rows("delete_cache", "nothing")
  /\ Chain[5].up[5] = Validated({"job"}, {}, "no null workflow")
  /\ Chain[5].up[6] = Validated({"job", "workflow"},
                      On("job", {"fk_job_workflow_uuid_workflow"}), "workflows exist")
  /\ Chain[15].up[1] = Create({"user_"}, WebhookDigest)
  /\ Chain[15].up[2] = Rows("fetch", "user_")
  /\ Chain[15].up[3] = Rows("convert_to_gcm", "user_")
  /\ Chain[16].up[1] = Statement("repair", {"user_resource"}, {},
                      {<<"user_resource", Months, 1>>}, "nothing")
  /\ Chain[16].up[2] = Statement("repair", {"user_"}, {},
                      {<<"user_", Identity, 1>>}, "identities complete")
  /\ Chain[17].up[1] = Rows("fetch", "interactive_session")
  /\ Chain[17].up[2] = Rows("convert_to_gcm", "interactive_session")
  /\ Chain[1].down[2] = Validated({"workspace_retention_rule"}, {}, "no pending rule")
  /\ Chain[1].down[3] = Rows("forget_pending", "nothing")
  /\ Chain[2].down[1] = Drop({"workflow"}, RunNumberConstraint)
  /\ Chain[2].down[3] = Rows("refuse_if", "ten restarts")
  /\ Chain[2].down[4] = Rows("combine_numbers", "nothing")
  /\ Chain[15].down[1] = Rows("fetch", "user_")
  /\ Chain[15].down[2] = Rows("convert_to_cbc", "user_")
  /\ Chain[17].down[1] = Rows("fetch", "interactive_session")
  /\ Chain[17].down[2] = Rows("convert_to_cbc", "interactive_session")
<1>1. /\ SplitRunNumber.up[2] = Rows("split_numbers", "nothing")
      /\ SplitRunNumber.up[6] = Rows("renumber_restarts", "numbers unique")
      /\ SplitRunNumber.down[1] = Drop({"workflow"}, RunNumberConstraint)
      /\ SplitRunNumber.down[3] = Rows("refuse_if", "ten restarts")
      /\ SplitRunNumber.down[4] = Rows("combine_numbers", "nothing")
  BY DEF Statement, Create, Drop, Validated, Swap, Rows, SplitRunNumber
<1>2. /\ JobForeignKey.up[1] = Swap({"job_cache"}, On("job_cache", {"fk_job_cache_job_id_job"}),
                      On("job_cache", {"fk_job_cache_job_id_job"}), "nothing")
      /\ JobForeignKey.up[3] = Rows("delete_cache", "nothing")
      /\ JobForeignKey.up[5] = Validated({"job"}, {}, "no null workflow")
      /\ JobForeignKey.up[6] = Validated({"job", "workflow"},
                      On("job", {"fk_job_workflow_uuid_workflow"}), "workflows exist")
  BY DEF Statement, Create, Drop, Validated, Swap, Rows, JobForeignKey
<1>3. /\ WebhookSecretStorage.up[1] = Create({"user_"}, WebhookDigest)
      /\ WebhookSecretStorage.up[2] = Rows("fetch", "user_")
      /\ WebhookSecretStorage.up[3] = Rows("convert_to_gcm", "user_")
      /\ WebhookSecretStorage.down[1] = Rows("fetch", "user_")
      /\ WebhookSecretStorage.down[2] = Rows("convert_to_cbc", "user_")
  BY DEF Statement, Create, Drop, Validated, Swap, Rows, WebhookSecretStorage, HardenWebhookSecrets, RestoreWebhookSecrets
<1>4. /\ RepairChecks.up[1] = Statement("repair", {"user_resource"}, {},
                      {<<"user_resource", Months, 1>>}, "nothing")
      /\ RepairChecks.up[2] = Statement("repair", {"user_"}, {},
                      {<<"user_", Identity, 1>>}, "identities complete")
  BY DEF Statement, Create, Drop, Validated, Swap, Rows, RepairChecks
<1>5. /\ ConvertSessionSecrets.up[1] = Rows("fetch", "interactive_session")
      /\ ConvertSessionSecrets.up[2] = Rows("convert_to_gcm", "interactive_session")
      /\ ConvertSessionSecrets.down[1] = Rows("fetch", "interactive_session")
      /\ ConvertSessionSecrets.down[2] = Rows("convert_to_cbc", "interactive_session")
  BY DEF Statement, Create, Drop, Validated, Swap, Rows, ConvertSessionSecrets
<1>6. /\ PendingStatus.down[2] = Validated({"workspace_retention_rule"}, {}, "no pending rule")
      /\ PendingStatus.down[3] = Rows("forget_pending", "nothing")
  BY DEF Statement, Create, Drop, Validated, Swap, Rows, PendingStatus
<1>. QED BY ONLY ChainIs, <1>1, <1>2, <1>3, <1>4, <1>5, <1>6, Zenon

LEMMA ScriptLengths ==
  /\ Len(Chain[1].down) = 4 /\ Len(Chain[2].up) = 6 /\ Len(Chain[2].down) = 6
  /\ Len(Chain[5].up) = 6 /\ Len(Chain[15].up) = 5 /\ Len(Chain[15].down) = 6
  /\ Len(Chain[16].up) = 2 /\ Len(Chain[17].up) = 2 /\ Len(Chain[17].down) = 2
<1>1. Len(PendingStatus.down) = 4
  BY DEF PendingStatus
<1>2. Len(SplitRunNumber.up) = 6 /\ Len(SplitRunNumber.down) = 6
  BY DEF SplitRunNumber
<1>3. Len(JobForeignKey.up) = 6
  BY DEF JobForeignKey
<1>4. Len(WebhookSecretStorage.up) = 5 /\ Len(WebhookSecretStorage.down) = 6
  BY DEF WebhookSecretStorage, HardenWebhookSecrets, RestoreWebhookSecrets
<1>5. Len(RepairChecks.up) = 2
  BY DEF RepairChecks
<1>6. Len(ConvertSessionSecrets.up) = 2 /\ Len(ConvertSessionSecrets.down) = 2
  BY DEF ConvertSessionSecrets
<1>. QED BY ChainIs, <1>1, <1>2, <1>3, <1>4, <1>5, <1>6

(***************************************************************************)
(* What one step can change                                                *)
(***************************************************************************)
DbTyped == db \in Databases(db) /\ saved \in Databases(saved) /\ mig \in Commands(mig)

LEMMA InvTyped == MigrationInv => DbTyped
BY DEF MigrationInv, TypeOK, DbTyped

\* The statement that is executed, and where it is in the chain.
LEMMA CurrentIs ==
  ASSUME MigrationInv, Executing
  PROVE  \/ /\ mig.dir = "up" /\ db.stamp + 1 \in 1..19
            /\ mig.pos \in DOMAIN Chain[db.stamp + 1].up
            /\ Current = Chain[db.stamp + 1].up[mig.pos]
            /\ KnownUp(db.stamp + 1, mig.pos, Current)
         \/ /\ mig.dir = "down" /\ db.stamp \in 1..19
            /\ mig.pos \in DOMAIN Chain[db.stamp].down
            /\ Current = Chain[db.stamp].down[mig.pos]
            /\ KnownDown(db.stamp, mig.pos, Current)
<1>1. /\ mig.dir \in {"up", "down"} /\ db.stamp \in 0..19 /\ mig.target \in 0..19
      /\ db.stamp # mig.target
      /\ mig.dir = "up" => db.stamp <= mig.target
      /\ mig.dir = "down" => mig.target <= db.stamp
  BY ChainIs, InvTyped DEF MigrationInv, Course, DbTyped, Databases, Commands,
     Directions, Executing, Running
<1>2. mig.pos \in DOMAIN Script /\ Current = Script[mig.pos]
  BY DEF Executing, Current
<1>3. CASE mig.dir = "up"
  <2>1. Script = Chain[db.stamp + 1].up /\ db.stamp + 1 \in 1..19
    BY <1>1, <1>3 DEF Script
  <2>. QED BY <1>2, <1>3, <2>1, UpScripts
<1>4. CASE mig.dir = "down"
  <2>1. Script = Chain[db.stamp].down /\ db.stamp \in 1..19
    BY <1>1, <1>4 DEF Script
  <2>. QED BY <1>2, <1>4, <2>1, DownScripts
<1>. QED BY <1>1, <1>3, <1>4

AStatement ==
  Alter \/ CreateTheCheck \/ Repair \/ PassCheck \/ RewriteRows \/ Fetch
    \/ AllConverted

\* A statement moves on by one and touches what its kind is for.
LEMMA StatementStep ==
  ASSUME DbTyped, AStatement
  PROVE  /\ Executing /\ Error = "none"
         /\ saved' = saved
         /\ mig'.dir = mig.dir /\ mig'.target = mig.target
         /\ mig'.pos = mig.pos + 1
         /\ mig.locks \subseteq mig'.locks
         /\ Current.op \in {"ddl", "drop_or_refuse", "check"}
              => mig'.locks = mig.locks \cup Current.locks
         /\ db'.stamp = db.stamp /\ db'.raced = db.raced
         /\ mig'.converted = mig.converted
<1>. DEFINE Same == /\ saved' = saved
                    /\ mig'.dir = mig.dir /\ mig'.target = mig.target
                    /\ mig'.pos = mig.pos + 1
                    /\ mig'.converted = mig.converted
<1>1. ASSUME NEW d, NEW locks, Proceed(d, locks)
      PROVE  Same /\ mig'.locks = mig.locks \cup locks /\ db' = d
  BY <1>1 DEF Proceed, DbTyped, Commands
<1>2. CASE Alter
  <2>. DEFINE d == [db EXCEPT !.catalog = Remaining(Current.drops) \cup Current.adds]
  <2>1. Executing /\ Error = "none" /\ Proceed(d, Current.locks)
    BY <1>2 DEF Alter, Executes
  <2>2. d.stamp = db.stamp /\ d.raced = db.raced
    BY DEF DbTyped, Databases
  <2>. HIDE DEF d
  <2>. QED BY <1>1, <2>1, <2>2
<1>3. CASE CreateTheCheck
  <2>1. Executing /\ Error = "none"
    BY <1>3 DEF CreateTheCheck, Executes
  <2>2. PICK names : Proceed([db EXCEPT !.catalog = @ \cup names], Current.locks)
    BY <1>3 DEF CreateTheCheck
  <2>3. db'.stamp = db.stamp /\ db'.raced = db.raced
    BY <1>1, <2>2 DEF DbTyped, Databases
  <2>. QED BY <1>1, <2>1, <2>2, <2>3
<1>4. CASE Repair
  <2>1. Executing /\ Error = "none" /\ Current.op = "repair"
    BY <1>4 DEF Repair, Executes
  <2>2. PICK c, locks : Proceed([db EXCEPT !.catalog = c], locks)
    BY <1>4 DEF Repair
  <2>3. db'.stamp = db.stamp /\ db'.raced = db.raced
    BY <1>1, <2>2 DEF DbTyped, Databases
  <2>. QED BY <1>1, <2>1, <2>2, <2>3
<1>5. CASE PassCheck \/ AllConverted
  BY <1>1, <1>5 DEF PassCheck, AllConverted, Executes
<1>6. CASE RewriteRows
  <2>1. /\ Executing /\ Error = "none" /\ Current.op \in Rewrites
        /\ Proceed(Rewritten(Current.op, Current.about), {})
    BY <1>6 DEF RewriteRows, Executes
  <2>2. db' = Rewritten(Current.op, Current.about)
    BY <1>1, <2>1
  <2>3. db'.stamp = db.stamp /\ db'.raced = db.raced
    BY <2>1, <2>2 DEF Rewritten, Rewrites, DbTyped, Databases
  <2>4. Current.op \notin {"ddl", "drop_or_refuse", "check"}
    BY <2>1 DEF Rewrites
  <2>. QED BY <1>1, <2>1, <2>3, <2>4
<1>7. CASE Fetch
  BY <1>7 DEF Fetch, Executes, DbTyped, Commands
<1>. QED BY <1>2, <1>3, <1>4, <1>5, <1>6, <1>7 DEF AStatement

\* Rows change only in statements of their kind.
LEMMA RowsKept ==
  ASSUME DbTyped, AStatement
  PROVE  /\ Current.op # "delete_jobs" => db'.job = db.job
         /\ Current.op # "delete_cache" => db'.cached = db.cached
         /\ Current.op # "activate_pending" => db'.pending = db.pending
         /\ Current.op # "forget_pending" => db'.logged = db.logged
         /\ Current.op # "erase_identities" => db'.identity = db.identity
         /\ Current.op # "erase_digests" => db'.digest = db.digest
         /\ Current.op # "erase_secrets" =>
              db'.secret = db.secret /\ db'.last = db.last
         /\ Current.op \notin {"split_numbers", "renumber_restarts", "combine_numbers"}
              => db'.runs = db.runs
<1>. DEFINE Same == /\ db'.job = db.job /\ db'.cached = db.cached
                    /\ db'.pending = db.pending /\ db'.logged = db.logged
                    /\ db'.identity = db.identity /\ db'.digest = db.digest
                    /\ db'.secret = db.secret /\ db'.last = db.last
                    /\ db'.runs = db.runs
<1>1. CASE RewriteRows
  <2>1. /\ db' = Rewritten(Current.op, Current.about)
        /\ Current.op \in Rewrites
    BY <1>1 DEF RewriteRows, Proceed, Executes
  <2>. QED BY <2>1 DEF Rewritten, Rewrites, DbTyped, Databases
<1>2. ASSUME NEW c, db' = [db EXCEPT !.catalog = c] PROVE Same
  BY <1>2 DEF DbTyped, Databases
<1>3. CASE Alter \/ CreateTheCheck \/ Repair
  BY <1>2, <1>3 DEF Alter, CreateTheCheck, Repair, Proceed
<1>4. CASE PassCheck \/ Fetch \/ AllConverted
  BY <1>4 DEF PassCheck, Fetch, AllConverted, Proceed
<1>. QED BY <1>1, <1>2, <1>3, <1>4 DEF AStatement

\* What each kind of statement does to the catalog.
LEMMA CatalogStep ==
  ASSUME DbTyped, AStatement
  PROVE  /\ Current.op \in {"ddl", "drop_or_refuse"} =>
              db'.catalog = Remaining(Current.drops) \cup Current.adds
         /\ Current.op = "check" =>
              \E names : /\ db'.catalog = db.catalog \cup names
                         /\ \/ names = Current.adds
                            \/ /\ \E o \in Current.adds : o[2] # Webhook
                               /\ \E p \in Earlier :
                                    names = UNION {Variants(o[1], o[2], p) : o \in Current.adds}
         /\ Current.op = "repair" =>
              db'.catalog = (db.catalog \ Names(Current)) \cup Current.adds
         /\ Current.op \notin {"ddl", "drop_or_refuse", "check", "repair"} =>
              db'.catalog = db.catalog
<1>1. ASSUME NEW c, db' = [db EXCEPT !.catalog = c] PROVE db'.catalog = c
  BY <1>1 DEF DbTyped, Databases
<1>2. CASE Alter
  BY <1>1, <1>2 DEF Alter, Proceed, Executes
<1>3. CASE CreateTheCheck
  <2>1. Current.op = "check"
    BY <1>3 DEF CreateTheCheck, Executes
  <2>2. PICK names \in {Current.adds} \cup
           {UNION {Variants(o[1], o[2], p) : o \in Current.adds} :
              p \in {q \in Earlier : \E o \in Current.adds : o[2] # Webhook}} :
               Proceed([db EXCEPT !.catalog = @ \cup names], Current.locks)
    BY <1>3 DEF CreateTheCheck
  <2>3. db'.catalog = db.catalog \cup names
    BY <1>1, <2>2 DEF Proceed
  <2>. QED BY <2>1, <2>2, <2>3
<1>4. CASE Repair
  BY <1>1, <1>4 DEF Repair, Proceed, Executes
<1>5. CASE RewriteRows
  <2>1. db' = Rewritten(Current.op, Current.about) /\ Current.op \in Rewrites
    BY <1>5 DEF RewriteRows, Proceed, Executes
  <2>. QED BY <2>1 DEF Rewritten, Rewrites, DbTyped, Databases
<1>6. CASE PassCheck \/ Fetch \/ AllConverted
  BY <1>6 DEF PassCheck, Fetch, AllConverted, Proceed, Executes
<1>. QED BY <1>2, <1>3, <1>4, <1>5, <1>6 DEF AStatement

LEMMA ConvertStep ==
  ASSUME DbTyped, NEW h \in Holders, Convert(h)
  PROVE  /\ Executing /\ saved' = saved
         /\ mig'.dir = mig.dir /\ mig'.target = mig.target /\ mig'.pos = mig.pos
         /\ mig'.locks = mig.locks /\ mig'.read = mig.read
         /\ db'.stamp = db.stamp /\ db'.raced = db.raced /\ db'.catalog = db.catalog
         /\ db'.job = db.job /\ db'.cached = db.cached /\ db'.last = db.last
         /\ db'.pending = db.pending /\ db'.logged = db.logged
         /\ db'.identity = db.identity /\ db'.runs = db.runs
BY DEF Convert, Executes, DbTyped, Databases, Commands

LEMMA StampStep ==
  ASSUME DbTyped, MigrationInv, Stamp
  PROVE  /\ saved' = saved /\ Running
         /\ mig'.dir = mig.dir /\ mig'.target = mig.target /\ mig'.pos = 1
         /\ mig'.locks = mig.locks /\ mig'.read = mig.read
         /\ mig'.fetched = mig.fetched
         /\ \/ /\ mig.dir = "up" /\ db'.stamp = db.stamp + 1
               /\ db.stamp + 1 \in 1..19
               /\ mig.pos = Len(Chain[db.stamp + 1].up) + 1
            \/ /\ mig.dir = "down" /\ db'.stamp = db.stamp - 1
               /\ db.stamp \in 1..19
               /\ mig.pos = Len(Chain[db.stamp].down) + 1
         /\ db'.raced = db.raced /\ db'.catalog = db.catalog
         /\ db'.job = db.job /\ db'.cached = db.cached /\ db'.last = db.last
         /\ db'.pending = db.pending /\ db'.logged = db.logged
         /\ db'.identity = db.identity /\ db'.runs = db.runs
         /\ db'.secret = db.secret /\ db'.digest = db.digest
<1>1. /\ mig.dir \in {"up", "down"} /\ db.stamp \in 0..19 /\ mig.target \in 0..19
      /\ db.stamp # mig.target
      /\ mig.dir = "up" => db.stamp <= mig.target
      /\ mig.dir = "down" => mig.target <= db.stamp
  BY ChainIs DEF MigrationInv, Course, DbTyped, Databases, Commands,
     Directions, Stamp, Running
<1>2. mig.pos = Len(Script) + 1
  BY DEF Stamp
<1>3. /\ mig.dir = "up" => db.stamp + 1 \in 1..19 /\ Script = Chain[db.stamp + 1].up
      /\ mig.dir = "down" => db.stamp \in 1..19 /\ Script = Chain[db.stamp].down
  BY <1>1 DEF Script
<1>7. db'.stamp = IF mig.dir = "up" THEN db.stamp + 1 ELSE db.stamp - 1
  BY DEF Stamp, DbTyped, Databases
<1>4. Running
  BY DEF Stamp
<1>5. /\ saved' = saved
      /\ mig'.dir = mig.dir /\ mig'.target = mig.target /\ mig'.pos = 1
      /\ mig'.locks = mig.locks /\ mig'.read = mig.read
      /\ mig'.fetched = mig.fetched
  BY DEF Stamp, DbTyped, Commands
<1>6. /\ db'.raced = db.raced /\ db'.catalog = db.catalog
      /\ db'.job = db.job /\ db'.cached = db.cached /\ db'.last = db.last
      /\ db'.pending = db.pending /\ db'.logged = db.logged
      /\ db'.identity = db.identity /\ db'.runs = db.runs
      /\ db'.secret = db.secret /\ db'.digest = db.digest
  BY DEF Stamp, DbTyped, Databases
<1>. QED BY <1>1, <1>2, <1>3, <1>4, <1>5, <1>6, <1>7

LEMMA StartStep ==
  ASSUME DbTyped, NEW t \in Targets, NEW key \in BOOLEAN, Start(t, key)
  PROVE  /\ db' = db /\ saved' = saved /\ mig.dir = "idle" /\ mig'.pos = 1
         /\ mig'.dir \in {"up", "down"} /\ mig'.target = t /\ t # db.stamp
         /\ mig'.read = {} /\ mig'.locks = {} /\ mig'.fetched = NoRows
BY DEF Start, Idle

\* The command ends: what it did is committed, or the committed database is
\* all there is.
LEMMA EndStep ==
  ASSUME DbTyped, Commit \/ Fail \/ Killed
  PROVE  /\ \/ Commit /\ db' = db /\ saved' = db /\ db.stamp = mig.target
            \/ db' = saved /\ saved' = saved
         /\ mig'.dir = "idle" /\ mig'.pos = 1
         /\ mig'.read = {} /\ mig'.locks = {} /\ mig'.fetched = NoRows
BY DEF Commit, Fail, Killed, RollBack, Idle

\* The steps of the system, one per kind.
LEMMA Steps ==
  ASSUME [Next]_vars
  PROVE  \/ AStatement
         \/ \E h \in Holders : Convert(h)
         \/ Stamp
         \/ Commit \/ Fail \/ Killed
         \/ \E t \in Targets, key \in BOOLEAN : Start(t, key)
         \/ Servers
         \/ UNCHANGED vars
BY DEF Next, Migration, AStatement

\* What a server's write can be, seen from one column: from both databases at
\* once, and only while the transaction has not locked the table.
IdentityWritten ==
  \E u \in Users, v \in {"none", "partial", "complete"} :
    /\ "user_" \notin mig.locks
    /\ v = "partial" => Checks(saved, "user_", Identity) = {}
    /\ db'.identity = [db.identity EXCEPT ![u] = v]
    /\ saved'.identity = [saved.identity EXCEPT ![u] = v]

JobWritten ==
  \E j \in Jobs, k \in JobKinds \ {"none"} :
    /\ "job" \notin mig.locks
    /\ k # "owned" => saved.stamp < JobKeyAt
    /\ db'.job = [db.job EXCEPT ![j] = k]
    /\ saved'.job = [saved.job EXCEPT ![j] = k]

CacheWritten ==
  \E j \in Jobs :
    /\ "job_cache" \notin mig.locks
    /\ db.job[j] # "none" /\ saved.job[j] # "none"
    /\ db'.cached = db.cached \cup {j}
    /\ saved'.cached = saved.cached \cup {j}

PendingWritten ==
  /\ saved.stamp >= PendingAt
  /\ "workspace_retention_rule" \notin mig.locks

RestartWritten ==
  \E f \in Families :
    LET run == <<saved.runs[f][1][1], Len(saved.runs[f])>> IN
    /\ saved.stamp >= SplitAt
    /\ "workflow" \notin mig.locks
    /\ saved.runs[f] # << >>
    /\ db'.runs = [db.runs EXCEPT ![f] = Append(@, run)]
    /\ saved'.runs = [saved.runs EXCEPT ![f] = Append(@, run)]

SecretWritten == \E h \in Holders, x \in Texts \cup {NoText} : WriteSecret(h, x)

SameIdentity == db'.identity = db.identity /\ saved'.identity = saved.identity
SameJob      == db'.job = db.job /\ saved'.job = saved.job
SameCache    == db'.cached = db.cached /\ saved'.cached = saved.cached
SamePending  == /\ db'.pending = db.pending /\ saved'.pending = saved.pending
                /\ db'.logged = db.logged /\ saved'.logged = saved.logged
SameRuns     == db'.runs = db.runs /\ saved'.runs = saved.runs
SameSecrets  == /\ db'.secret = db.secret /\ saved'.secret = saved.secret
                /\ db'.last = db.last /\ saved'.last = saved.last
                /\ db'.digest = db.digest /\ saved'.digest = saved.digest
                /\ db'.raced = db.raced /\ saved'.raced = saved.raced

LEMMA ServersStep ==
  ASSUME DbTyped, Servers
  PROVE  /\ mig' = mig
         /\ db'.stamp = db.stamp /\ db'.catalog = db.catalog
         /\ saved'.stamp = saved.stamp /\ saved'.catalog = saved.catalog
         /\ SameIdentity \/ IdentityWritten
         /\ SameJob \/ JobWritten
         /\ SameCache \/ CacheWritten
         /\ SamePending \/ PendingWritten
         /\ SameRuns \/ RestartWritten
         /\ SameSecrets \/ SecretWritten
<1>. DEFINE Frame == /\ mig' = mig
                     /\ db'.stamp = db.stamp /\ db'.catalog = db.catalog
                     /\ saved'.stamp = saved.stamp /\ saved'.catalog = saved.catalog
<1>. USE DEF SameIdentity, SameJob, SameCache, SamePending, SameRuns, SameSecrets
<1>1. ASSUME NEW u \in Users, NEW v \in {"none", "partial", "complete"},
             WriteIdentity(u, v)
      PROVE  /\ Frame /\ IdentityWritten
             /\ SameJob /\ SameCache /\ SamePending /\ SameRuns /\ SameSecrets
  <2>1. /\ mig' = mig /\ "user_" \notin mig.locks
        /\ saved' = [saved EXCEPT !.identity[u] = v]
        /\ db' = [db EXCEPT !.identity[u] = v]
        /\ v = "partial" => Checks(saved, "user_", Identity) = {}
    BY <1>1 DEF WriteIdentity, Write, Checks
  <2>. QED BY <2>1 DEF DbTyped, Databases, IdentityWritten
<1>2. ASSUME NEW j \in Jobs, NEW k \in JobKinds \ {"none"}, WriteJob(j, k)
      PROVE  /\ Frame /\ JobWritten
             /\ SameIdentity /\ SameCache /\ SamePending /\ SameRuns /\ SameSecrets
  <2>1. /\ mig' = mig /\ "job" \notin mig.locks
        /\ saved' = [saved EXCEPT !.job[j] = k] /\ db' = [db EXCEPT !.job[j] = k]
        /\ k # "owned" => saved.stamp < JobKeyAt
    BY <1>2 DEF WriteJob, Write
  <2>. QED BY <2>1 DEF DbTyped, Databases, JobWritten
<1>3. ASSUME NEW j \in Jobs, CacheJob(j)
      PROVE  /\ Frame /\ CacheWritten
             /\ SameIdentity /\ SameJob /\ SamePending /\ SameRuns /\ SameSecrets
  <2>1. /\ mig' = mig /\ "job_cache" \notin mig.locks
        /\ saved' = [saved EXCEPT !.cached = @ \cup {j}]
        /\ db' = [db EXCEPT !.cached = @ \cup {j}]
        /\ db.job[j] # "none" /\ saved.job[j] # "none"
    BY <1>3 DEF CacheJob, Write
  <2>. QED BY <2>1 DEF DbTyped, Databases, CacheWritten
<1>4. ASSUME NEW r \in Rules, WritePending(r)
      PROVE  /\ Frame /\ PendingWritten
             /\ SameIdentity /\ SameJob /\ SameCache /\ SameRuns /\ SameSecrets
  <2>1. /\ mig' = mig /\ PendingWritten
        /\ saved' = [saved EXCEPT !.pending = @ \cup {r}, !.logged = @ \cup {r}]
        /\ db' = [db EXCEPT !.pending = @ \cup {r}, !.logged = @ \cup {r}]
    BY <1>4 DEF WritePending, Write, PendingWritten
  <2>. QED BY <2>1 DEF DbTyped, Databases
<1>5. ASSUME NEW f \in Families, WriteRestart(f)
      PROVE  /\ Frame /\ RestartWritten
             /\ SameIdentity /\ SameJob /\ SameCache /\ SamePending /\ SameSecrets
  <2>. DEFINE run == <<saved.runs[f][1][1], Len(saved.runs[f])>>
              n == [saved.runs EXCEPT ![f] = Append(@, run)]
              m == [db.runs EXCEPT ![f] = Append(@, run)]
  <2>1. /\ mig' = mig /\ "workflow" \notin mig.locks
        /\ saved' = [saved EXCEPT !.runs = n] /\ db' = [db EXCEPT !.runs = m]
        /\ saved.stamp >= SplitAt /\ saved.runs[f] # << >>
    BY <1>5 DEF WriteRestart, Write
  <2>2. /\ Frame /\ SameIdentity /\ SameJob /\ SameCache /\ SamePending /\ SameSecrets
        /\ saved'.runs = n /\ db'.runs = m
    <3>. HIDE DEF n, m
    <3>. QED BY <2>1 DEF DbTyped, Databases
  <2>3. RestartWritten
    BY <2>1, <2>2 DEF RestartWritten
  <2>. QED BY <2>2, <2>3
<1>6. ASSUME NEW h \in Holders, NEW x \in Texts \cup {NoText}, WriteSecret(h, x)
      PROVE  /\ Frame /\ SecretWritten
             /\ SameIdentity /\ SameJob /\ SameCache /\ SamePending /\ SameRuns
  <2>. DEFINE sd == WithSecret(saved, h, x)
              dd == WithSecret(db, h, x)
  <2>1. PICK r1, r2 : /\ mig' = mig /\ saved' = [sd EXCEPT !.raced = r1]
                      /\ db' = [dd EXCEPT !.raced = r2]
    BY <1>6 DEF WriteSecret, Write
  <2>2. \A d : d \in Databases(d) => /\ WithSecret(d, h, x).stamp = d.stamp
                         /\ WithSecret(d, h, x).catalog = d.catalog
                         /\ WithSecret(d, h, x).identity = d.identity
                         /\ WithSecret(d, h, x).job = d.job
                         /\ WithSecret(d, h, x).cached = d.cached
                         /\ WithSecret(d, h, x).pending = d.pending
                         /\ WithSecret(d, h, x).logged = d.logged
                         /\ WithSecret(d, h, x).runs = d.runs
    BY DEF WithSecret, Databases
  <2>3. Frame /\ SameIdentity /\ SameJob /\ SameCache /\ SamePending /\ SameRuns
    <3>1. \A d, r : /\ [d EXCEPT !.raced = r].stamp = d.stamp
                    /\ [d EXCEPT !.raced = r].catalog = d.catalog
                    /\ [d EXCEPT !.raced = r].identity = d.identity
                    /\ [d EXCEPT !.raced = r].job = d.job
                    /\ [d EXCEPT !.raced = r].cached = d.cached
                    /\ [d EXCEPT !.raced = r].pending = d.pending
                    /\ [d EXCEPT !.raced = r].logged = d.logged
                    /\ [d EXCEPT !.raced = r].runs = d.runs
      OBVIOUS
    <3>. HIDE DEF sd, dd
    <3>2. /\ saved'.stamp = sd.stamp /\ saved'.catalog = sd.catalog
          /\ saved'.identity = sd.identity /\ saved'.job = sd.job
          /\ saved'.cached = sd.cached /\ saved'.pending = sd.pending
          /\ saved'.logged = sd.logged /\ saved'.runs = sd.runs
          /\ db'.stamp = dd.stamp /\ db'.catalog = dd.catalog
          /\ db'.identity = dd.identity /\ db'.job = dd.job
          /\ db'.cached = dd.cached /\ db'.pending = dd.pending
          /\ db'.logged = dd.logged /\ db'.runs = dd.runs
      BY <2>1, <3>1
    <3>3. DbTyped /\ mig' = mig
      BY <2>1
    <3>. QED BY <2>2, <3>2, <3>3 DEF sd, dd, DbTyped
  <2>4. SecretWritten
    BY <1>6 DEF SecretWritten
  <2>. QED BY <2>3, <2>4
<1>. HIDE DEF Frame, SameIdentity, SameJob, SameCache, SamePending, SameRuns, SameSecrets
<1>7. /\ Frame
      /\ SameIdentity \/ IdentityWritten
      /\ SameJob \/ JobWritten
      /\ SameCache \/ CacheWritten
      /\ SamePending \/ PendingWritten
      /\ SameRuns \/ RestartWritten
      /\ SameSecrets \/ SecretWritten
  BY <1>1, <1>2, <1>3, <1>4, <1>5, <1>6 DEF Servers
<1>. QED BY <1>7 DEF Frame

\* A statement that fetches fetches what the table holds.
LEMMA ReadStep ==
  ASSUME DbTyped, AStatement
  PROVE  IF Current.op = "fetch"
         THEN /\ mig'.read = mig.read \cup {Current.about}
              /\ mig'.fetched = [h \in SecretRows(Current.about) |-> db.secret[h]]
              /\ db' = db
         ELSE mig'.read = mig.read /\ mig'.fetched = NoRows
<1>1. ASSUME NEW d, NEW locks, Proceed(d, locks)
      PROVE  mig'.read = mig.read /\ mig'.fetched = NoRows
  BY <1>1 DEF Proceed, DbTyped, Commands
<1>2. CASE Fetch
  BY <1>2 DEF Fetch, Executes, DbTyped, Commands
<1>3. CASE Alter \/ CreateTheCheck \/ Repair \/ PassCheck \/ RewriteRows \/ AllConverted
  <2>1. mig'.read = mig.read /\ mig'.fetched = NoRows
    BY <1>1, <1>3 DEF Alter, CreateTheCheck, Repair, PassCheck, RewriteRows, AllConverted
  <2>2. Current.op # "fetch"
    BY <1>3 DEF Alter, CreateTheCheck, Repair, PassCheck, RewriteRows,
                AllConverted, Executes, Rewrites
  <2>. QED BY <2>1, <2>2
<1>. QED BY <1>2, <1>3 DEF AStatement

\* The command is at the n-th statement of the revision rev.
At(dir, rev, n) ==
  /\ mig.dir = dir
  /\ db.stamp = IF dir = "up" THEN rev - 1 ELSE rev
  /\ mig.pos = n

ScriptOf(dir, rev) == IF dir = "up" THEN Chain[rev].up ELSE Chain[rev].down

\* A command gets behind a statement by executing it.
LEMMA PastStep ==
  ASSUME MigrationInv, [Next]_vars,
         NEW dir \in {"up", "down"}, NEW rev \in 1..19, NEW n \in 1..6,
         Past(dir, rev, n)'
  PROVE  \/ Past(dir, rev, n)
         \/ /\ AStatement /\ At(dir, rev, n)
            /\ Current = ScriptOf(dir, rev)[n] /\ Error = "none"
<1>0. DbTyped /\ mig.pos \in Nat
  BY InvTyped DEF DbTyped, Commands
<1>1. CASE AStatement
  <2>1. /\ mig'.dir = mig.dir /\ mig'.pos = mig.pos + 1 /\ db'.stamp = db.stamp
        /\ Executing /\ Error = "none"
    BY <1>0, <1>1, StatementStep
  <2>2. Past(dir, rev, n) \/ At(dir, rev, n)
    BY <1>0, <2>1 DEF Past, At
  <2>3. At(dir, rev, n) => Current = ScriptOf(dir, rev)[n]
    BY <2>1 DEF At, ScriptOf, Current, Script
  <2>. QED BY <1>1, <2>1, <2>2, <2>3
<1>2. CASE \E h \in Holders : Convert(h)
  BY <1>0, <1>2, ConvertStep DEF Past
<1>3. CASE Stamp
  BY <1>0, <1>3, StampStep DEF Past
<1>4. CASE Commit \/ Fail \/ Killed
  BY <1>0, <1>4, EndStep DEF Past
<1>5. CASE \E t \in Targets, key \in BOOLEAN : Start(t, key)
  BY <1>0, <1>5, StartStep DEF Past
<1>6. CASE Servers
  BY <1>0, <1>6, ServersStep DEF Past
<1>7. CASE UNCHANGED vars
  BY <1>7 DEF Past, vars
<1>. QED BY <1>1, <1>2, <1>3, <1>4, <1>5, <1>6, <1>7, Steps

LEMMA RestingInit == Init => Resting
BY DEF Init, Resting, Idle

LEMMA RestingStep ==
  ASSUME MigrationInv, Resting, [Next]_vars
  PROVE  Resting'
<1>0. DbTyped /\ db.stamp \in Nat /\ saved.stamp \in Nat
  BY InvTyped DEF DbTyped, Databases
<1>1. CASE AStatement
  BY <1>0, <1>1, StatementStep DEF Resting, Executing, Running
<1>2. CASE \E h \in Holders : Convert(h)
  BY <1>0, <1>2, ConvertStep DEF Resting
<1>3. CASE Stamp
  BY <1>0, <1>3, StampStep DEF Resting, Running
<1>4. CASE Commit \/ Fail \/ Killed
  <2>1. mig'.dir = "idle" /\ mig'.pos = 1 /\ db' = saved'
    BY <1>0, <1>4, EndStep
  <2>. QED BY <2>1 DEF Resting
<1>5. CASE \E t \in Targets, key \in BOOLEAN : Start(t, key)
  <2>1. /\ db' = db /\ saved' = saved /\ mig.dir = "idle"
        /\ mig'.dir # "idle" /\ mig'.pos = 1
    BY <1>0, <1>5, StartStep
  <2>. QED BY <1>0, <2>1 DEF Resting
<1>6. CASE Servers
  BY <1>0, <1>6, ServersStep DEF Resting
<1>7. CASE UNCHANGED vars
  BY <1>7 DEF Resting, vars
<1>. QED BY <1>1, <1>2, <1>3, <1>4, <1>5, <1>6, <1>7, Steps

(***************************************************************************)
(* Webhook secrets                                                         *)
(***************************************************************************)
LEMMA WebhookInit == Init => WebhookLocked
<1>. SUFFICES ASSUME Init PROVE WebhookLocked
  OBVIOUS
<1>1. db.raced = {} /\ saved = db
  BY DEF Init
<1>2. mig = Idle
  BY DEF Init
<1>. QED BY <1>1, <1>2 DEF WebhookLocked, NotRaced, Past, Idle

\* A write of a secret never races with an upgrade that holds the table.
LEMMA WebhookWrite ==
  ASSUME DbTyped, WebhookLocked, SecretWritten
  PROVE  NotRaced(db)' /\ NotRaced(saved)'
<1>1. PICK h \in Holders, x \in Texts \cup {NoText} : WriteSecret(h, x)
  BY DEF SecretWritten
<1>. DEFINE others == {h} \X Directions
            now == IF Table(h) \in mig.read THEN {<<h, mig.dir>>} ELSE {}
            s == [WithSecret(saved, h, x) EXCEPT !.raced = @ \ others]
            d == [WithSecret(db, h, x) EXCEPT !.raced = (@ \ others) \cup now]
<1>2. saved' = s /\ db' = d /\ Table(h) \notin mig.locks
  BY <1>1 DEF WriteSecret, Write
<1>3. /\ s.raced = saved.raced \ others
      /\ d.raced = (db.raced \ others) \cup now
  BY DEF DbTyped, Databases, WithSecret
<1>4. \A u \in Users : <<u, "up">> \notin now
  <2>1. ASSUME h \in Users, mig.dir = "up", "user_" \in mig.read PROVE FALSE
    BY <1>2, <2>1 DEF Table, WebhookLocked
  <2>. QED BY <2>1 DEF Table
<1>. HIDE DEF s, d, others, now
<1>. QED BY <1>2, <1>3, <1>4 DEF NotRaced, WebhookLocked

LEMMA WebhookStep ==
  ASSUME MigrationInv, WebhookLocked, [Next]_vars
  PROVE  WebhookLocked'
<1>0. DbTyped
  BY InvTyped
<1>1. ASSUME Past("up", 15, 1)' PROVE ("user_" \in mig.locks)'
  <2>1. CASE AStatement /\ At("up", 15, 1) /\ Current = ScriptOf("up", 15)[1]
    <3>1. Current.op = "ddl" /\ Current.locks = {"user_"}
      <4>1. Current = Create({"user_"}, WebhookDigest)
        BY <2>1, Named DEF ScriptOf
      <4>. QED BY <4>1 DEF Create, Statement
    <3>. QED BY <1>0, <2>1, <3>1, StatementStep
  <2>2. CASE Past("up", 15, 1)
    <3>1. mig.dir = "up" /\ "user_" \in mig.locks
      BY <2>2 DEF WebhookLocked, Past
    <3>2. mig'.pos > 1
      BY <1>1 DEF Past
    <3>. QED BY <1>0, <3>1, <3>2, Steps, StatementStep, ConvertStep, StampStep,
                EndStep, StartStep, ServersStep DEF vars
  <2>. QED BY <1>1, <2>1, <2>2, PastStep
<1>2. ASSUME (mig.dir = "up")', ("user_" \in mig.read)'
      PROVE  ("user_" \in mig.locks)'
  <2>1. CASE AStatement
    <3>1. CASE Current.op = "fetch" /\ Current.about = "user_"
      <4>1. db.stamp + 1 = 15 /\ mig.pos = 2
        BY <1>0, <1>2, <2>1, <3>1, CurrentIs, StatementStep DEF KnownUp
      <4>2. Past("up", 15, 1)
        BY <1>0, <1>2, <2>1, <4>1, StatementStep DEF Past, DbTyped, Databases
      <4>. QED BY <1>0, <2>1, <4>2, StatementStep DEF WebhookLocked
    <3>2. CASE ~ (Current.op = "fetch" /\ Current.about = "user_")
      <4>1. mig.dir = "up" /\ "user_" \in mig.read
        BY <1>0, <1>2, <2>1, <3>2, StatementStep, ReadStep
      <4>. QED BY <1>0, <2>1, <4>1, StatementStep DEF WebhookLocked
    <3>. QED BY <3>1, <3>2
  <2>2. CASE ~ AStatement
    BY <1>0, <1>2, <2>2, Steps, ConvertStep, StampStep,
       EndStep, StartStep, ServersStep DEF WebhookLocked, vars
  <2>. QED BY <2>1, <2>2
<1>3. NotRaced(db)' /\ NotRaced(saved)'
  <2>1. CASE Servers
    BY <1>0, <2>1, ServersStep, WebhookWrite DEF WebhookLocked, NotRaced, SameSecrets
  <2>2. CASE AStatement \/ (\E h \in Holders : Convert(h)) \/ Stamp
    BY <1>0, <2>2, StatementStep, ConvertStep, StampStep DEF WebhookLocked, NotRaced
  <2>3. CASE Commit \/ Fail \/ Killed
    BY <1>0, <2>3, EndStep DEF WebhookLocked, NotRaced
  <2>4. CASE (\E t \in Targets, key \in BOOLEAN : Start(t, key)) \/ UNCHANGED vars
    BY <1>0, <2>4, StartStep DEF WebhookLocked, NotRaced, vars
  <2>. QED BY <2>1, <2>2, <2>3, <2>4, Steps
<1>. QED BY <1>1, <1>2, <1>3 DEF WebhookLocked

(***************************************************************************)
(* The checks                                                              *)
(***************************************************************************)
\* A statement that neither drops nor adds a check leaves the checks.
LEMMA ChecksKept ==
  ASSUME DbTyped, AStatement, Current.op \notin {"check", "repair"},
         Current.op \in {"ddl", "drop_or_refuse"} =>
           NoCheck(Current.drops) /\ NoCheck(Current.adds)
  PROVE  /\ Checks(db', "user_", Identity) = Checks(db, "user_", Identity)
         /\ Checks(db', "user_resource", Months) = Checks(db, "user_resource", Months)
<1>1. CASE Current.op \in {"ddl", "drop_or_refuse"}
  <2>1. db'.catalog = Remaining(Current.drops) \cup Current.adds
    BY <1>1, CatalogStep
  <2>2. NoCheck(Current.drops) /\ NoCheck(Current.adds)
    BY <1>1
  <2>. QED BY <2>1, <2>2 DEF Remaining, Checks, Variants, NoCheck
<1>2. CASE Current.op \notin {"ddl", "drop_or_refuse"}
  BY <1>2, CatalogStep DEF Checks
<1>. QED BY <1>1, <1>2

\* Whatever the names were, a repair leaves the right one; it does not touch
\* the checks of another table.
LEMMA RepairLeaves ==
  ASSUME DbTyped, AStatement, NEW t, NEW n,
         Current.op = "repair", Current.adds = {<<t, n, 1>>}
  PROVE  /\ Repaired(db', t, n)
         /\ Names(Current) = Checks(db, t, n)
         /\ \A u, m : u # t => Checks(db', u, m) = Checks(db, u, m)
<1>1. db'.catalog = (db.catalog \ Names(Current)) \cup Current.adds
  BY CatalogStep
<1>2. Names(Current) = Variants(t, n, 0..2) \cap db.catalog
  <2>1. <<t, n, 1>>[1] = t /\ <<t, n, 1>>[2] = n
    OBVIOUS
  <2>. QED BY <2>1 DEF Names
<1>3. <<t, n, 1>> \in Variants(t, n, 0..2)
  BY DEF Variants
<1>4. \A u, m : u # t => /\ <<t, n, 1>> \notin Variants(u, m, 0..2)
                         /\ Variants(t, n, 0..2) \cap Variants(u, m, 0..2) = {}
  BY DEF Variants
<1>. QED BY <1>1, <1>2, <1>3, <1>4 DEF Repaired, Checks

LEMMA ChecksNotAdded ==
  ASSUME DbTyped, AStatement, Current.op \notin {"check", "repair"},
         Current.op \in {"ddl", "drop_or_refuse"} => NoCheck(Current.adds)
  PROVE  Checks(db', "user_", Identity) \subseteq Checks(db, "user_", Identity)
<1>1. CASE Current.op \in {"ddl", "drop_or_refuse"}
  <2>1. db'.catalog = Remaining(Current.drops) \cup Current.adds
    BY <1>1, CatalogStep
  <2>. QED BY <1>1, <2>1 DEF Remaining, Checks, Variants, NoCheck
<1>2. CASE Current.op \notin {"ddl", "drop_or_refuse"}
  BY <1>2, CatalogStep DEF Checks
<1>. QED BY <1>1, <1>2

LEMMA RepairScripts ==
  DOMAIN Chain[16].up = 1..2 /\ DOMAIN Chain[16].down = {}
<1>1. DOMAIN RepairChecks.up = 1..2 /\ DOMAIN RepairChecks.down = {}
  BY DEF RepairChecks
<1>. QED BY <1>1, ChainIs

LEMMA ChecksInit == Init => ChecksInv
<1>. SUFFICES ASSUME Init PROVE ChecksInv
  OBVIOUS
<1>1. db.stamp = 0 /\ saved = db
  BY DEF Init
<1>2. mig = Idle
  BY DEF Init
<1>. QED BY <1>1, <1>2 DEF ChecksInv, Past, Idle, RepairedAt

\* From the repair on, the statements leave the checks alone.
LEMMA ChecksStatement ==
  ASSUME MigrationInv, AStatement, db.stamp >= RepairedAt
  PROVE  /\ Checks(db', "user_", Identity) = Checks(db, "user_", Identity)
         /\ Checks(db', "user_resource", Months) = Checks(db, "user_resource", Months)
<1>1. DbTyped /\ Executing
  BY InvTyped, StatementStep
<1>2. \/ KnownUp(db.stamp + 1, mig.pos, Current) /\ db.stamp \in Nat
      \/ /\ KnownDown(db.stamp, mig.pos, Current) /\ db.stamp \in 1..19
         /\ mig.pos \in DOMAIN Chain[db.stamp].down
  BY <1>1, CurrentIs DEF DbTyped, Databases
<1>3. DOMAIN Chain[16].down = {}
  BY RepairScripts
<1>4. /\ Current.op \notin {"check", "repair"}
      /\ Current.op \in {"ddl", "drop_or_refuse"} =>
           NoCheck(Current.drops) /\ NoCheck(Current.adds)
  <2>1. CASE KnownUp(db.stamp + 1, mig.pos, Current) /\ db.stamp \in Nat
    <3>1. db.stamp + 1 \notin {9, 12, 15, 16}
      BY <2>1 DEF RepairedAt
    <3>2. Current.op # "check" /\ Current.op # "repair"
      BY <2>1, <3>1 DEF KnownUp
    <3>3. /\ Current.op # "drop_or_refuse"
          /\ Current.op = "ddl" => NoCheck(Current.drops) /\ NoCheck(Current.adds)
      BY <2>1 DEF KnownUp
    <3>. QED BY <3>2, <3>3
  <2>2. CASE /\ KnownDown(db.stamp, mig.pos, Current) /\ db.stamp \in 1..19
             /\ mig.pos \in DOMAIN Chain[db.stamp].down
    <3>1. db.stamp > 15 /\ db.stamp # 16
      BY <1>3, <2>2 DEF RepairedAt
    <3>. QED BY <2>2, <3>1 DEF KnownDown
  <2>. QED BY <1>2, <2>1, <2>2
<1>. QED BY <1>1, <1>4, ChecksKept

LEMMA ChecksStep ==
  ASSUME MigrationInv, Resting, ChecksInv, [Next]_vars
  PROVE  ChecksInv'
<1>0. DbTyped /\ db.stamp \in Nat /\ mig.pos \in Nat
  BY InvTyped DEF DbTyped, Databases, Commands
<1>. DEFINE Both(d) == Repaired(d, "user_resource", Months) /\ Repaired(d, "user_", Identity)
<1>1. \A d, e : d.catalog = e.catalog => \A t, n : Checks(d, t, n) = Checks(e, t, n)
  BY DEF Checks
<1>2. ASSUME Past("up", RepairedAt, 1)' PROVE Repaired(db', "user_resource", Months)
  <2>1. CASE AStatement /\ Current = ScriptOf("up", 16)[1]
    <3>1. Current = Statement("repair", {"user_resource"}, {},
                              {<<"user_resource", Months, 1>>}, "nothing")
      BY <2>1, Named DEF ScriptOf
    <3>2. Current.op = "repair" /\ Current.adds = {<<"user_resource", Months, 1>>}
      BY <3>1 DEF Statement
    <3>. QED BY <1>0, <2>1, <3>2, RepairLeaves
  <2>2. CASE Past("up", RepairedAt, 1)
    <3>1. /\ mig.dir = "up" /\ db.stamp = 15 /\ mig.pos > 1
          /\ Repaired(db, "user_resource", Months)
      BY <2>2 DEF ChecksInv, Past, RepairedAt
    <3>2. mig'.dir = "up" /\ db'.stamp = 15 /\ mig'.pos > 1
      BY <1>2 DEF Past, RepairedAt
    <3>3. CASE AStatement
      <4>1. mig.pos \in DOMAIN Chain[16].up /\ Current = Chain[16].up[mig.pos]
        BY <1>0, <3>1, <3>3, CurrentIs, StatementStep
      <4>2. mig.pos = 2
        BY <3>1, <4>1, RepairScripts
      <4>3. Current = Statement("repair", {"user_"}, {}, {<<"user_", Identity, 1>>},
                                "identities complete")
        BY <4>1, <4>2, Named
      <4>4. Current.op = "repair" /\ Current.adds = {<<"user_", Identity, 1>>}
        BY <4>3 DEF Statement
      <4>. QED BY <1>0, <3>1, <3>3, <4>4, RepairLeaves DEF Repaired
    <3>4. CASE ~ AStatement
      <4>1. db'.catalog = db.catalog
        BY <1>0, <3>1, <3>2, <3>4, Steps, ConvertStep, StampStep, EndStep,
           StartStep, ServersStep DEF vars
      <4>. QED BY <1>1, <3>1, <4>1 DEF Repaired
    <3>. QED BY <3>3, <3>4
  <2>. QED BY <1>2, <2>1, <2>2, PastStep DEF RepairedAt
<1>3. ASSUME Past("up", RepairedAt, 2)' PROVE Repaired(db', "user_", Identity)
  <2>1. CASE AStatement /\ Current = ScriptOf("up", 16)[2]
    <3>1. Current = Statement("repair", {"user_"}, {}, {<<"user_", Identity, 1>>},
                              "identities complete")
      BY <2>1, Named DEF ScriptOf
    <3>2. Current.op = "repair" /\ Current.adds = {<<"user_", Identity, 1>>}
      BY <3>1 DEF Statement
    <3>. QED BY <1>0, <2>1, <3>2, RepairLeaves
  <2>2. CASE Past("up", RepairedAt, 2)
    <3>1. /\ mig.dir = "up" /\ db.stamp = 15 /\ mig.pos > 2
          /\ Repaired(db, "user_", Identity)
      BY <2>2 DEF ChecksInv, Past, RepairedAt
    <3>2. mig'.dir = "up" /\ db'.stamp = 15 /\ mig'.pos > 2
      BY <1>3 DEF Past, RepairedAt
    <3>3. ~ AStatement
      <4>1. AStatement => mig.pos \in DOMAIN Chain[16].up
        BY <1>0, <3>1, CurrentIs, StatementStep
      <4>. QED BY <3>1, <4>1, RepairScripts
    <3>4. db'.catalog = db.catalog
      BY <1>0, <3>1, <3>2, <3>3, Steps, ConvertStep, StampStep, EndStep,
         StartStep, ServersStep DEF vars
    <3>. QED BY <1>1, <3>1, <3>4 DEF Repaired
  <2>. QED BY <1>3, <2>1, <2>2, PastStep DEF RepairedAt
<1>4. /\ db'.stamp >= RepairedAt => Both(db')
      /\ saved'.stamp >= RepairedAt => Both(saved')
  <2>0. /\ db.stamp >= RepairedAt => Both(db)
        /\ saved.stamp >= RepairedAt => Both(saved)
    BY DEF ChecksInv
  <2>1. CASE AStatement
    <3>1. db'.stamp = db.stamp /\ saved' = saved
      BY <1>0, <2>1, StatementStep
    <3>. QED BY <2>0, <2>1, <3>1, ChecksStatement DEF Repaired
  <2>2. CASE Stamp
    <3>1. db'.catalog = db.catalog /\ saved' = saved
      BY <1>0, <2>2, StampStep
    <3>2. ASSUME db'.stamp >= RepairedAt PROVE Both(db)
      <4>1. CASE db.stamp >= RepairedAt
        BY <2>0, <4>1
      <4>2. CASE db.stamp < RepairedAt
        <5>1. mig.dir = "up" /\ db.stamp = 15
          BY <1>0, <2>2, <3>2, <4>2, StampStep DEF RepairedAt
        <5>2. mig.pos = 3
          <6>1. mig.pos = Len(Chain[db.stamp + 1].up) + 1
            BY <1>0, <2>2, <5>1, StampStep
          <6>2. db.stamp + 1 = 16
            BY <5>1
          <6>3. mig.pos = Len(Chain[16].up) + 1
            BY <6>1, <6>2
          <6>. QED BY <6>3, ScriptLengths
        <5>. QED BY <5>1, <5>2 DEF ChecksInv, Past, RepairedAt
      <4>. QED BY <1>0, <4>1, <4>2 DEF RepairedAt
    <3>. QED BY <1>1, <2>0, <3>1, <3>2 DEF Repaired
  <2>3. CASE \E h \in Holders : Convert(h)
    BY <1>0, <1>1, <2>0, <2>3, ConvertStep DEF Repaired
  <2>4. CASE Commit \/ Fail \/ Killed
    BY <1>0, <2>0, <2>4, EndStep
  <2>5. CASE (\E t \in Targets, key \in BOOLEAN : Start(t, key)) \/ UNCHANGED vars
    BY <1>0, <2>0, <2>5, StartStep DEF vars
  <2>6. CASE Servers
    BY <1>0, <1>1, <2>0, <2>6, ServersStep DEF Repaired
  <2>. QED BY <2>1, <2>2, <2>3, <2>4, <2>5, <2>6, Steps
<1>. HIDE DEF Both
<1>5. \A d \in {db', saved'} : d.stamp >= RepairedAt => Both(d)
  BY <1>4
<1>. QED BY <1>2, <1>3, <1>5 DEF ChecksInv, Both

(***************************************************************************)
(* Identities                                                              *)
(***************************************************************************)
LEMMA IdentitiesInit == Init => IdentitiesInv
<1>. SUFFICES ASSUME Init PROVE IdentitiesInv
  OBVIOUS
<1>1. PICK runs : db = [stamp |-> 0, catalog |-> FirstCatalog,
                secret |-> [h \in Holders |-> NoSecret],
                digest |-> [u \in Users |-> NoText],
                last |-> [h \in Holders |-> NoText], raced |-> {},
                identity |-> [u \in Users |-> "none"],
                job |-> [j \in Jobs |-> "none"], cached |-> {},
                pending |-> {}, logged |-> {}, runs |-> runs]
  BY Zenon DEF Init
<1>2. saved = db
  BY DEF Init
<1>3. Complete(db)
  BY <1>1 DEF Complete
<1>. QED BY <1>2, <1>3 DEF IdentitiesInv

\* The check of the identities appears only when all are complete, and behind
\* a lock on the table.
LEMMA CheckAppears ==
  ASSUME MigrationInv, AStatement,
         Checks(db, "user_", Identity) = {}, Checks(db', "user_", Identity) # {}
  PROVE  Complete(db) /\ "user_" \in mig'.locks
<1>0. DbTyped /\ Executing /\ Error = "none"
  BY InvTyped, StatementStep
<1>1. \A t, n, k : <<t, n, k>>[1] = t /\ <<t, n, k>>[2] = n
  OBVIOUS
<1>2. Current.op \in {"check", "repair"}
  <2>1. Current.op \notin {"check", "repair"} =>
          (Current.op \in {"ddl", "drop_or_refuse"} => NoCheck(Current.adds))
    BY <1>0, CurrentIs DEF KnownUp, KnownDown
  <2>. QED BY <1>0, <2>1, ChecksNotAdded
<1>3. mig.dir = "up" /\ KnownUp(db.stamp + 1, mig.pos, Current)
  BY <1>0, <1>2, CurrentIs DEF KnownDown
<1>4. CASE Current.op = "check"
  <2>1. PICK names : /\ db'.catalog = db.catalog \cup names
                     /\ \/ names = Current.adds
                        \/ \E p \in Earlier :
                             names = UNION {Variants(o[1], o[2], p) : o \in Current.adds}
    BY <1>0, <1>4, CatalogStep
  <2>2. \E k : <<"user_", Identity, k>> \in names
    BY <2>1 DEF Checks, Variants
  <2>3. ASSUME NEW t, NEW n, NEW k, Current.adds = {<<t, n, k>>}
        PROVE  t = "user_" /\ n = Identity
    BY <1>1, <2>1, <2>2, <2>3 DEF Variants
  <2>4. "user_" # "user_resource" /\ Webhook # Identity
    BY DEF Webhook, Identity
  <2>5. Current = CreateCheck("user_", Identity, 0, "identities complete")
    <3>1. \/ Current.adds = {<<"user_resource", Months, 2>>}
          \/ Current = CreateCheck("user_", Identity, 0, "identities complete")
          \/ Current.adds = {<<"user_", Webhook, 1>>}
      BY <1>3, <1>4 DEF KnownUp
    <3>2. Current.adds # {<<"user_resource", Months, 2>>}
      BY <2>3, <2>4
    <3>3. Current.adds # {<<"user_", Webhook, 1>>}
      BY <2>3, <2>4
    <3>. QED BY <3>1, <3>2, <3>3
  <2>6. /\ Current.about = "identities complete" /\ Current.locks = {"user_"}
    BY <2>5 DEF CreateCheck, Statement
  <2>7. Holds(Current.about)
    BY <1>0, <1>4 DEF Error
  <2>8. Complete(db)
    BY <2>6, <2>7 DEF Holds, Complete
  <2>. QED BY <1>0, <1>4, <2>6, <2>8, StatementStep
<1>5. CASE Current.op = "repair"
  <2>1. db.stamp + 1 = 16 /\ mig.pos \in DOMAIN Chain[db.stamp + 1].up
        /\ Current = Chain[db.stamp + 1].up[mig.pos]
    BY <1>0, <1>3, <1>5, CurrentIs DEF KnownUp
  <2>2. mig.pos \in 1..2 /\ Current = Chain[16].up[mig.pos]
    BY <2>1, RepairScripts
  <2>3. mig.pos = 2
    <3>1. CASE mig.pos = 1
      <4>1. Current = Statement("repair", {"user_resource"}, {},
                      {<<"user_resource", Months, 1>>}, "nothing")
        BY <2>2, <3>1, Named
      <4>2. Current.adds = {<<"user_resource", Months, 1>>}
        BY <4>1 DEF Statement
      <4>. QED BY <1>0, <1>5, <4>2, RepairLeaves
    <3>. QED BY <2>2, <3>1
  <2>4. Current = Statement("repair", {"user_"}, {}, {<<"user_", Identity, 1>>},
                            "identities complete")
    BY <2>2, <2>3, Named
  <2>5. /\ Current.adds = {<<"user_", Identity, 1>>} /\ Current.locks = {"user_"}
        /\ Current.about = "identities complete"
    BY <2>4 DEF Statement
  <2>6. Names(Current) = {}
    BY <1>0, <1>5, <2>5, RepairLeaves
  <2>7. Complete(db)
    BY <1>0, <1>5, <2>5, <2>6 DEF Error, Holds, Complete
  <2>8. Repair
    BY <1>5 DEF AStatement, Alter, CreateTheCheck, PassCheck, RewriteRows,
                Fetch, AllConverted, Executes, Rewrites
  <2>9. mig'.locks = mig.locks \cup {"user_"}
    <3>1. PICK c : Proceed([db EXCEPT !.catalog = c],
                           IF Names(Current) = Current.adds THEN {} ELSE Current.locks)
      BY <2>8 DEF Repair
    <3>2. Names(Current) # Current.adds
      BY <2>5, <2>6
    <3>3. Proceed([db EXCEPT !.catalog = c], {"user_"})
      BY <2>5, <3>1, <3>2
    <3>. QED BY <1>0, <3>3 DEF Proceed, DbTyped, Commands
  <2>. QED BY <2>7, <2>9
<1>. QED BY <1>2, <1>4, <1>5

\* A statement changes no identity, or erases all of them.
LEMMA IdentitiesStatement ==
  ASSUME DbTyped, AStatement, Complete(db)
  PROVE  Complete(db')
<1>1. CASE Current.op # "erase_identities"
  BY <1>1, RowsKept DEF Complete
<1>2. CASE Current.op = "erase_identities"
  <2>1. RewriteRows
    BY <1>2 DEF AStatement, Alter, CreateTheCheck, PassCheck, Repair,
                Fetch, AllConverted, Executes, Rewrites
  <2>2. db' = [db EXCEPT !.identity = [u \in Users |-> "none"]]
    BY <1>2, <2>1 DEF RewriteRows, Proceed, Rewritten
  <2>3. db'.identity = [u \in Users |-> "none"]
    BY <2>2 DEF DbTyped, Databases
  <2>. QED BY <2>3 DEF Complete
<1>. QED BY <1>1, <1>2

LEMMA IdentitiesStep ==
  ASSUME MigrationInv, Resting, IdentitiesInv, [Next]_vars
  PROVE  IdentitiesInv'
<1>0. DbTyped
  BY InvTyped
<1>. DEFINE Has(d) == Checks(d, "user_", Identity) # {}
<1>1. \A d, e : d.catalog = e.catalog => Has(d) = Has(e)
  BY DEF Checks
<1>2. /\ Has(db) => Complete(db)
      /\ Has(saved) => Complete(saved)
      /\ Has(db) => Has(saved) \/ "user_" \in mig.locks
  BY DEF IdentitiesInv
<1>. SUFFICES /\ Has(db') => Complete(db')
              /\ Has(saved') => Complete(saved')
              /\ Has(db') => Has(saved') \/ "user_" \in mig'.locks
  BY DEF IdentitiesInv
<1>3. CASE AStatement
  <2>1. saved' = saved /\ mig.locks \subseteq mig'.locks
    BY <1>0, <1>3, StatementStep
  <2>2. ASSUME Has(db') PROVE Complete(db') /\ (Has(saved) \/ "user_" \in mig'.locks)
    <3>1. Has(db) \/ (Complete(db) /\ "user_" \in mig'.locks)
      BY <1>3, <2>2, CheckAppears
    <3>2. Complete(db) /\ (Has(saved) \/ "user_" \in mig'.locks)
      BY <1>2, <2>1, <3>1
    <3>. QED BY <1>0, <1>3, <3>2, IdentitiesStatement
  <2>. QED BY <1>2, <2>1, <2>2
<1>4. CASE Stamp \/ \E h \in Holders : Convert(h)
  <2>1. /\ db'.catalog = db.catalog /\ db'.identity = db.identity
        /\ saved' = saved /\ mig'.locks = mig.locks
    BY <1>0, <1>4, StampStep, ConvertStep
  <2>2. Has(db') = Has(db) /\ Complete(db') = Complete(db)
    BY <1>1, <2>1 DEF Complete
  <2>. QED BY <1>2, <2>1, <2>2
<1>5. CASE Commit \/ Fail \/ Killed
  BY <1>0, <1>2, <1>5, EndStep
<1>6. CASE \E t \in Targets, key \in BOOLEAN : Start(t, key)
  <2>1. db' = db /\ saved' = saved /\ db.catalog = saved.catalog
    BY <1>0, <1>6, StartStep DEF Resting
  <2>2. Has(db) = Has(saved)
    BY <1>1, <2>1
  <2>. QED BY <1>2, <2>1, <2>2
<1>7. CASE Servers
  <2>1. /\ mig' = mig /\ db'.catalog = db.catalog /\ saved'.catalog = saved.catalog
        /\ SameIdentity \/ IdentityWritten
    BY <1>0, <1>7, ServersStep
  <2>2. Has(db') = Has(db) /\ Has(saved') = Has(saved)
    BY <1>1, <2>1
  <2>3. CASE SameIdentity
    <3>1. Complete(db') = Complete(db) /\ Complete(saved') = Complete(saved)
      BY <2>3 DEF SameIdentity, Complete
    <3>. QED BY <1>2, <2>1, <2>2, <3>1
  <2>4. CASE IdentityWritten
    <3>1. PICK u \in Users, v \in {"none", "partial", "complete"} :
            /\ "user_" \notin mig.locks
            /\ v = "partial" => Checks(saved, "user_", Identity) = {}
            /\ db'.identity = [db.identity EXCEPT ![u] = v]
            /\ saved'.identity = [saved.identity EXCEPT ![u] = v]
      BY <2>4 DEF IdentityWritten
    <3>2. /\ db.identity \in [Users -> {"none", "partial", "complete"}]
          /\ saved.identity \in [Users -> {"none", "partial", "complete"}]
      BY <1>0 DEF DbTyped, Databases
    <3>3. v # "partial" => /\ Complete(db) => Complete(db')
                           /\ Complete(saved) => Complete(saved')
      BY <3>1, <3>2 DEF Complete
    <3>4. v = "partial" => ~ Has(db) /\ ~ Has(saved)
      BY <1>2, <3>1
    <3>. QED BY <1>2, <2>1, <2>2, <3>3, <3>4
  <2>. QED BY <2>1, <2>3, <2>4
<1>8. CASE UNCHANGED vars
  BY <1>2, <1>8 DEF vars
<1>. QED BY <1>3, <1>4, <1>5, <1>6, <1>7, <1>8, Steps

(***************************************************************************)
(* Jobs and pending rules                                                  *)
(***************************************************************************)
\* What the statements that delete rows leave.
LEMMA Deleted ==
  ASSUME DbTyped, AStatement
  PROVE  /\ Current.op = "delete_cache" =>
              db'.cached = {j \in db.cached : db.job[j] # "none"}
         /\ Current.op = "activate_pending" => db'.pending = {}
         /\ Current.op = "forget_pending" => db'.logged = {}
<1>. SUFFICES ASSUME Current.op \in {"delete_cache", "activate_pending", "forget_pending"}
              PROVE  /\ Current.op = "delete_cache" =>
                          db'.cached = {j \in db.cached : db.job[j] # "none"}
                     /\ Current.op = "activate_pending" => db'.pending = {}
                     /\ Current.op = "forget_pending" => db'.logged = {}
  OBVIOUS
<1>1. RewriteRows
  BY DEF AStatement, Alter, CreateTheCheck, PassCheck, Repair,
         Fetch, AllConverted, Executes
<1>2. db' = Rewritten(Current.op, Current.about)
  BY <1>1 DEF RewriteRows, Proceed
<1>. QED BY <1>2 DEF Rewritten, DbTyped, Databases

LEMMA RowsInit == Init => JobsInv /\ PendingInv
<1>. SUFFICES ASSUME Init PROVE JobsInv /\ PendingInv
  OBVIOUS
<1>1. PICK runs : db = [stamp |-> 0, catalog |-> FirstCatalog,
                secret |-> [h \in Holders |-> NoSecret],
                digest |-> [u \in Users |-> NoText],
                last |-> [h \in Holders |-> NoText], raced |-> {},
                identity |-> [u \in Users |-> "none"],
                job |-> [j \in Jobs |-> "none"], cached |-> {},
                pending |-> {}, logged |-> {}, runs |-> runs]
  BY Zenon DEF Init
<1>2. saved = db /\ mig.dir = "idle"
  BY DEF Init, Idle
<1>3. db.cached = {} /\ db.pending = {} /\ db.logged = {} /\ db.stamp = 0
  BY <1>1
<1>4. \A dir \in {"up", "down"} : \A rev, n : ~ Past(dir, rev, n)
  BY <1>2 DEF Past
<1>5. JobsInv
  BY <1>2, <1>3, <1>4 DEF JobsInv, CacheOK, JobKeyAt
<1>6. PendingInv
  BY <1>2, <1>3, <1>4 DEF PendingInv, PendingAt
<1>. QED BY <1>5, <1>6

\* A lock that a statement of a script takes is held behind it.
LEMMA LockHeld ==
  ASSUME MigrationInv, [Next]_vars,
         NEW dir \in {"up", "down"}, NEW rev \in 1..19, NEW n \in 1..6, NEW table,
         ScriptOf(dir, rev)[n].op \in {"ddl", "drop_or_refuse", "check"},
         table \in ScriptOf(dir, rev)[n].locks,
         Past(dir, rev, n) => table \in mig.locks,
         Past(dir, rev, n)'
  PROVE  table \in mig'.locks
<1>0. DbTyped
  BY InvTyped
<1>1. CASE AStatement /\ Current = ScriptOf(dir, rev)[n]
  BY <1>0, <1>1, StatementStep
<1>2. CASE Past(dir, rev, n)
  <2>1. mig'.dir = dir /\ mig'.pos > n /\ mig.dir = dir /\ table \in mig.locks
    BY <1>2 DEF Past
  <2>2. mig.locks \subseteq mig'.locks \/ mig'.dir = "idle" \/ mig'.pos = 1 \/ mig.dir = "idle"
    BY <1>0, Steps, StatementStep, ConvertStep, StampStep, EndStep, StartStep,
       ServersStep DEF vars
  <2>3. CASE mig'.pos = 1
    BY <2>1, <2>3
  <2>. QED BY <2>1, <2>2, <2>3
<1>. QED BY <1>1, <1>2, PastStep

\* What the statements are made of.
LEMMA Fields ==
  ASSUME NEW s, NEW locks, NEW old, NEW new, NEW about
  PROVE  /\ s = Swap(locks, old, new, about) =>
              s.op = "ddl" /\ s.locks = locks /\ s.about = about
         /\ s = Validated(locks, new, about) =>
              s.op = "ddl" /\ s.locks = locks /\ s.about = about
         /\ s = Drop(locks, old) => s.op = "ddl" /\ s.locks = locks
         /\ s = Rows(old, about) => s.op = old /\ s.about = about
BY DEF Statement, Swap, Validated, Drop, Rows

LEMMA JobLocks ==
  /\ ScriptOf("up", 5)[1].op = "ddl" /\ "job_cache" \in ScriptOf("up", 5)[1].locks
  /\ ScriptOf("up", 5)[5].op = "ddl" /\ "job" \in ScriptOf("up", 5)[5].locks
  /\ ScriptOf("up", 5)[3].op = "delete_cache"
  /\ ScriptOf("up", 5)[6].op = "ddl"
  /\ Holds(ScriptOf("up", 5)[5].about) => No(db, "null")
  /\ Holds(ScriptOf("up", 5)[6].about) => No(db, "orphan")
<1>2. ScriptOf("up", 5)[1].op = "ddl" /\ ScriptOf("up", 5)[1].locks = {"job_cache"}
  <2>1. ScriptOf("up", 5)[1] = Swap({"job_cache"}, On("job_cache", {"fk_job_cache_job_id_job"}),
                      On("job_cache", {"fk_job_cache_job_id_job"}), "nothing")
    BY Named DEF ScriptOf
  <2>. QED BY <2>1, Fields
<1>3. ScriptOf("up", 5)[3].op = "delete_cache"
  <2>1. ScriptOf("up", 5)[3] = Rows("delete_cache", "nothing")
    BY Named DEF ScriptOf
  <2>. QED BY <2>1, Fields
<1>4. /\ ScriptOf("up", 5)[5].op = "ddl" /\ ScriptOf("up", 5)[5].locks = {"job"}
      /\ ScriptOf("up", 5)[5].about = "no null workflow"
  <2>1. ScriptOf("up", 5)[5] = Validated({"job"}, {}, "no null workflow")
    BY Named DEF ScriptOf
  <2>2. \A rows : ScriptOf("up", 5)[5] = Validated({"job"}, {}, rows) =>
               /\ ScriptOf("up", 5)[5].op = "ddl"
               /\ ScriptOf("up", 5)[5].locks = {"job"}
               /\ ScriptOf("up", 5)[5].about = rows
    BY DEF Validated, Statement
  <2>. QED BY ONLY <2>1, <2>2, Zenon
<1>5. ScriptOf("up", 5)[6].op = "ddl" /\ ScriptOf("up", 5)[6].about = "workflows exist"
  <2>1. ScriptOf("up", 5)[6] = Validated({"job", "workflow"},
                      On("job", {"fk_job_workflow_uuid_workflow"}), "workflows exist")
    BY Named DEF ScriptOf
  <2>2. \A objs, rows : ScriptOf("up", 5)[6] = Validated({"job", "workflow"}, objs, rows) =>
               /\ ScriptOf("up", 5)[6].op = "ddl"
               /\ ScriptOf("up", 5)[6].about = rows
    BY DEF Validated, Statement
  <2>. QED BY ONLY <2>1, <2>2, Zenon
<1>6. /\ Holds("no null workflow") => No(db, "null")
      /\ Holds("workflows exist") => No(db, "orphan")
  BY Zenon DEF Holds, No
<1>7. /\ Holds(ScriptOf("up", 5)[5].about) => No(db, "null")
      /\ Holds(ScriptOf("up", 5)[6].about) => No(db, "orphan")
  BY ONLY <1>4, <1>5, <1>6, Zenon
<1>8. /\ ScriptOf("up", 5)[5].op = "ddl" /\ ScriptOf("up", 5)[5].locks = {"job"}
      /\ ScriptOf("up", 5)[6].op = "ddl"
  BY ONLY <1>4, <1>5, Zenon
<1>. QED BY <1>2, <1>3, <1>7, <1>8

\* A statement that is validated succeeds only if the rows allow it.
LEMMA Validates ==
  Error = "none" /\ Current.op \in {"ddl", "check"} => Holds(Current.about)
BY DEF Error

\* Jobs change in one statement of the chain, and in it none appears.
LEMMA JobsStatement ==
  ASSUME MigrationInv, AStatement
  PROVE  /\ db'.job = db.job \/ (At("up", 5, 2) /\ db.cached = db'.cached)
         /\ Current.op = "delete_cache" \/ db'.cached = db.cached
<1>0. DbTyped /\ Executing
  BY InvTyped, StatementStep
<1>1. CASE Current.op = "delete_jobs"
  <2>1. mig.dir = "up" /\ db.stamp + 1 = 5 /\ mig.pos = 2
    BY <1>0, <1>1, CurrentIs DEF KnownUp, KnownDown
  <2>2. db.stamp = 4
    BY <1>0, <2>1 DEF DbTyped, Databases
  <2>. QED BY <1>0, <1>1, <2>1, <2>2, RowsKept DEF At
<1>2. CASE Current.op # "delete_jobs"
  BY <1>0, <1>2, RowsKept
<1>. QED BY <1>1, <1>2

\* A cached job keeps existing as long as no job goes.
LEMMA CacheKept ==
  ASSUME NEW d, NEW e, CacheOK(d), d.cached \subseteq Jobs,
         \A i \in Jobs : d.job[i] # "none" => e.job[i] # "none",
         \/ e.cached = d.cached
         \/ \E j \in Jobs : d.job[j] # "none" /\ e.cached = d.cached \cup {j}
  PROVE  CacheOK(e)
BY DEF CacheOK

LEMMA JobsStep ==
  ASSUME MigrationInv, Resting, JobsInv, [Next]_vars
  PROVE  JobsInv'
<1>0. DbTyped /\ db.stamp \in Nat /\ saved.stamp \in Nat /\ mig.pos \in Nat
  BY InvTyped DEF DbTyped, Databases, Commands
<1>. DEFINE Tight(d) == No(d, "null") /\ No(d, "orphan")
            Gap == Past("up", 5, 2) /\ mig.pos = 3
<1>3. /\ db.stamp >= 5 => Tight(db)
      /\ saved.stamp >= 5 => Tight(saved)
      /\ Past("up", 5, 5) => No(db, "null") /\ "job" \in mig.locks
      /\ Past("up", 5, 6) => No(db, "orphan")
      /\ db.stamp >= 5 /\ saved.stamp < 5 => "job" \in mig.locks
      /\ CacheOK(saved) /\ (CacheOK(db) \/ Gap)
      /\ Past("up", 5, 1) => "job_cache" \in mig.locks
  BY DEF JobsInv, JobKeyAt
<1>1. ASSUME Past("up", 5, 1)' PROVE "job_cache" \in mig'.locks
  BY <1>1, <1>3, JobLocks, LockHeld
<1>2. ASSUME Past("up", 5, 5)' PROVE "job" \in mig'.locks
  BY <1>2, <1>3, JobLocks, LockHeld
<1>. DEFINE Goal ==
      /\ db'.stamp >= 5 => Tight(db')
      /\ saved'.stamp >= 5 => Tight(saved')
      /\ Past("up", 5, 5)' => No(db', "null")
      /\ Past("up", 5, 6)' => No(db', "orphan")
      /\ db'.stamp >= 5 /\ saved'.stamp < 5 => "job" \in mig'.locks
      /\ CacheOK(saved') /\ (CacheOK(db') \/ Gap')
<1>. SUFFICES Goal
  BY <1>1, <1>2 DEF JobsInv, JobKeyAt
<1>4. \A d, e : d.job = e.job => /\ Tight(d) = Tight(e)
                                 /\ \A k : No(d, k) = No(e, k)
  BY DEF No
<1>5. \A d, e : d.job = e.job /\ d.cached = e.cached => CacheOK(d) = CacheOK(e)
  BY DEF CacheOK
<1>6. CASE AStatement
  <2>1. /\ saved' = saved /\ mig.locks \subseteq mig'.locks /\ db'.stamp = db.stamp
        /\ mig'.pos = mig.pos + 1 /\ mig'.dir = mig.dir /\ Executing /\ Error = "none"
    BY <1>0, <1>6, StatementStep
  <2>2. At("up", 5, 2) => /\ db.stamp < 5 /\ ~ Past("up", 5, 5)' /\ ~ Past("up", 5, 6)'
                          /\ Past("up", 5, 2)' /\ mig'.pos = 3
    BY <1>0, <2>1 DEF At, Past
  <2>3. Past("up", 5, 5)' => No(db', "null")
    <3>1. CASE db'.job = db.job
      <4>1. CASE Past("up", 5, 5)
        BY <1>3, <1>4, <3>1, <4>1
      <4>2. CASE Current = ScriptOf("up", 5)[5]
        <5>1. Holds(Current.about)
          BY <2>1, <4>2, JobLocks, Validates
        <5>. QED BY <1>4, <3>1, <4>2, <5>1, JobLocks
      <4>. QED BY <4>1, <4>2, PastStep
    <3>. QED BY <1>6, <2>2, <3>1, JobsStatement
  <2>4. Past("up", 5, 6)' => No(db', "orphan")
    <3>1. CASE db'.job = db.job
      <4>1. CASE Past("up", 5, 6)
        BY <1>3, <1>4, <3>1, <4>1
      <4>2. CASE Current = ScriptOf("up", 5)[6]
        <5>1. Holds(Current.about)
          BY <2>1, <4>2, JobLocks, Validates
        <5>. QED BY <1>4, <3>1, <4>2, <5>1, JobLocks
      <4>. QED BY <4>1, <4>2, PastStep
    <3>. QED BY <1>6, <2>2, <3>1, JobsStatement
  <2>5. db'.stamp >= 5 => Tight(db')
    <3>1. db.stamp >= 5 => db'.job = db.job
      BY <1>6, <2>2, JobsStatement, <1>0
    <3>. QED BY <1>3, <1>4, <2>1, <3>1
  <2>6. CacheOK(db') \/ Gap'
    <3>1. CASE db'.job # db.job
      BY <1>6, <2>2, <3>1, JobsStatement
    <3>2. CASE db'.job = db.job /\ Current.op = "delete_cache"
      <4>1. db'.cached = {j \in db.cached : db.job[j] # "none"}
        BY <1>0, <1>6, <3>2, Deleted
      <4>. QED BY <3>2, <4>1 DEF CacheOK
    <3>3. CASE db'.job = db.job /\ Current.op # "delete_cache"
      <4>1. db'.cached = db.cached
        BY <1>6, <3>3, JobsStatement
      <4>2. ~ Gap
        <5>1. Gap => Current = ScriptOf("up", 5)[3]
          BY <2>1 DEF Past, ScriptOf, Current, Script
        <5>. QED BY <3>3, <5>1, JobLocks
      <4>. QED BY <1>3, <1>5, <3>3, <4>1, <4>2
    <3>. QED BY <3>1, <3>2, <3>3
  <2>. QED BY <1>3, <2>1, <2>3, <2>4, <2>5, <2>6
<1>7. CASE Stamp
  <2>1. /\ saved' = saved /\ mig'.locks = mig.locks /\ mig'.pos = 1
        /\ db'.job = db.job /\ db'.cached = db.cached
    BY <1>0, <1>7, StampStep
  <2>2. ~ Past("up", 5, 5)' /\ ~ Past("up", 5, 6)'
    BY <2>1 DEF Past
  <2>3. CASE mig.dir = "up" /\ db.stamp = 4
    <3>1. mig.pos = Len(Chain[db.stamp + 1].up) + 1 /\ db.stamp + 1 = 5
      BY <1>0, <1>7, <2>3, StampStep
    <3>2. mig.pos = Len(Chain[5].up) + 1
      BY <3>1
    <3>3. mig.pos = 7
      BY <3>2, ScriptLengths
    <3>4. Past("up", 5, 5) /\ Past("up", 5, 6)
      BY <2>3, <3>3 DEF Past
    <3>. QED BY <1>3, <1>4, <1>5, <2>1, <2>2, <3>3, <3>4
  <2>4. CASE ~ (mig.dir = "up" /\ db.stamp = 4)
    <3>1. db'.stamp >= 5 => db.stamp >= 5
      BY <1>0, <1>7, <2>4, StampStep
    <3>2. ~ Gap
      <4>1. mig.pos = 3 /\ mig.dir = "up" => db.stamp # 4
        BY <2>4
      <4>. QED BY <4>1 DEF Past
    <3>. QED BY <1>3, <1>4, <1>5, <2>1, <2>2, <3>1, <3>2
  <2>. QED BY <2>3, <2>4
<1>8. CASE \E h \in Holders : Convert(h)
  <2>1. /\ saved' = saved /\ mig'.locks = mig.locks /\ mig'.pos = mig.pos
        /\ mig'.dir = mig.dir /\ db'.stamp = db.stamp
        /\ db'.job = db.job /\ db'.cached = db.cached
    BY <1>0, <1>8, ConvertStep
  <2>. QED BY <1>3, <1>4, <1>5, <2>1 DEF Past
<1>9. CASE Commit \/ Fail \/ Killed
  <2>1. /\ mig'.dir = "idle"
        /\ db' = saved' /\ (saved' = saved \/ (saved' = db /\ mig.pos = 1))
    BY <1>0, <1>9, EndStep DEF Resting
  <2>2. ~ Past("up", 5, 5)' /\ ~ Past("up", 5, 6)'
    BY <2>1 DEF Past
  <2>3. saved' # saved => CacheOK(db)
    <3>1. saved' # saved => ~ Gap
      BY <2>1
    <3>. QED BY <1>3, <3>1
  <2>4. db'.stamp \in Nat
    BY <1>0, <2>1
  <2>5. saved' = saved \/ saved' = db
    BY <2>1
  <2>. HIDE DEF Tight, Gap
  <2>6. /\ saved'.stamp >= 5 => Tight(saved')
        /\ CacheOK(saved')
    BY <1>3, <2>3, <2>5
  <2>. QED BY <2>1, <2>2, <2>4, <2>6
<1>10. CASE \E t \in Targets, key \in BOOLEAN : Start(t, key)
  <2>1. /\ db' = db /\ saved' = saved /\ mig'.pos = 1 /\ mig.dir = "idle"
    BY <1>0, <1>10, StartStep
  <2>2. ~ Past("up", 5, 5)' /\ ~ Past("up", 5, 6)' /\ ~ Past("up", 5, 2)
    BY <2>1 DEF Past
  <2>3. db.stamp = saved.stamp
    BY <2>1 DEF Resting
  <2>4. ~ Gap
    BY <2>2
  <2>. HIDE DEF Tight, Gap
  <2>. QED BY <1>0, <1>3, <2>1, <2>2, <2>3, <2>4
<1>11. CASE Servers
  <2>1. /\ mig' = mig /\ db'.stamp = db.stamp /\ saved'.stamp = saved.stamp
        /\ SameJob \/ JobWritten
        /\ SameCache \/ CacheWritten
    BY <1>0, <1>11, ServersStep
  <2>2. /\ Past("up", 5, 5)' <=> Past("up", 5, 5)
        /\ Past("up", 5, 6)' <=> Past("up", 5, 6)
        /\ Gap' <=> Gap
    BY <2>1 DEF Past
  <2>3. Past("up", 5, 6) => Past("up", 5, 5)
    BY <1>0 DEF Past
  <2>4. Gap => Past("up", 5, 1)
    BY DEF Past
  <2>5. /\ db.job \in [Jobs -> JobKinds] /\ saved.job \in [Jobs -> JobKinds]
        /\ db.cached \subseteq Jobs /\ saved.cached \subseteq Jobs
    BY <1>0 DEF DbTyped, Databases
  <2>6. /\ \A j \in Jobs : /\ db.job[j] # "none" => db'.job[j] # "none"
                           /\ saved.job[j] # "none" => saved'.job[j] # "none"
        /\ db'.stamp >= 5 => Tight(db')
        /\ saved'.stamp >= 5 => Tight(saved')
        /\ Past("up", 5, 5)' => No(db', "null")
        /\ Past("up", 5, 6)' => No(db', "orphan")
    <3>1. CASE SameJob
      BY <1>3, <1>4, <2>1, <2>2, <3>1 DEF SameJob
    <3>2. CASE JobWritten
      <4>1. PICK j \in Jobs, k \in JobKinds \ {"none"} :
              /\ "job" \notin mig.locks
              /\ k # "owned" => saved.stamp < JobKeyAt
              /\ db'.job = [db.job EXCEPT ![j] = k]
              /\ saved'.job = [saved.job EXCEPT ![j] = k]
        BY <3>2 DEF JobWritten
      <4>2. ~ Past("up", 5, 5) /\ ~ Past("up", 5, 6)
        BY <1>3, <2>3, <4>1
      <4>3. saved.stamp < 5 => db.stamp < 5
        BY <1>0, <1>3, <4>1
      <4>4. k # "owned" => saved.stamp < 5
        BY <4>1 DEF JobKeyAt
      <4>5. k = "owned" => /\ Tight(db) => Tight(db')
                           /\ Tight(saved) => Tight(saved')
        BY <2>5, <4>1 DEF No
      <4>6. \A i \in Jobs : /\ db.job[i] # "none" => db'.job[i] # "none"
                            /\ saved.job[i] # "none" => saved'.job[i] # "none"
        BY <2>5, <4>1
      <4>. QED BY <1>0, <1>3, <2>1, <2>2, <4>2, <4>3, <4>4, <4>5, <4>6
    <3>. QED BY <2>1, <3>1, <3>2
  <2>8. \A j \in Jobs : /\ db.job[j] # "none" => db'.job[j] # "none"
                        /\ saved.job[j] # "none" => saved'.job[j] # "none"
    BY <2>6
  <2>9. db.cached \subseteq Jobs /\ saved.cached \subseteq Jobs
    BY <2>5
  <2>7. CacheOK(saved') /\ (CacheOK(db') \/ Gap')
    <3>1. CASE SameCache
      <4>1. /\ CacheOK(saved) => CacheOK(saved')
            /\ CacheOK(db) => CacheOK(db')
        <5>1. db'.cached = db.cached /\ saved'.cached = saved.cached
          BY <3>1 DEF SameCache
        <5>2. CacheOK(saved) => CacheOK(saved')
          BY ONLY <2>9, <2>8, <5>1, CacheKept
        <5>3. CacheOK(db) => CacheOK(db')
          BY ONLY <2>9, <2>8, <5>1, CacheKept
        <5>. QED BY <5>2, <5>3
      <4>. QED BY <1>3, <2>2, <4>1
    <3>2. CASE CacheWritten
      <4>1. ~ Gap
        BY <1>3, <2>4, <3>2 DEF CacheWritten
      <4>2. /\ CacheOK(saved) => CacheOK(saved')
            /\ CacheOK(db) => CacheOK(db')
        <5>1. PICK j \in Jobs : /\ db.job[j] # "none" /\ saved.job[j] # "none"
                                /\ db'.cached = db.cached \cup {j}
                                /\ saved'.cached = saved.cached \cup {j}
          BY <3>2 DEF CacheWritten
        <5>2. CacheOK(saved) => CacheOK(saved')
          BY ONLY <2>9, <2>8, <5>1, CacheKept
        <5>3. CacheOK(db) => CacheOK(db')
          BY ONLY <2>9, <2>8, <5>1, CacheKept
        <5>. QED BY <5>2, <5>3
      <4>. QED BY <1>3, <4>1, <4>2
    <3>. QED BY <2>1, <3>1, <3>2
  <2>. QED BY <1>3, <2>1, <2>6, <2>7
<1>12. CASE UNCHANGED vars
  BY <1>3, <1>12 DEF vars, Past
<1>. QED BY <1>6, <1>7, <1>8, <1>9, <1>10, <1>11, <1>12, Steps

LEMMA PendingScript ==
  /\ ScriptOf("down", 1)[2].op = "ddl"
  /\ "workspace_retention_rule" \in ScriptOf("down", 1)[2].locks
  /\ Holds(ScriptOf("down", 1)[2].about) => db.pending = {}
  /\ ScriptOf("down", 1)[3].op = "forget_pending"
<1>1. /\ ScriptOf("down", 1)[2].op = "ddl"
      /\ ScriptOf("down", 1)[2].locks = {"workspace_retention_rule"}
      /\ ScriptOf("down", 1)[2].about = "no pending rule"
  <2>1. ScriptOf("down", 1)[2]
          = Validated({"workspace_retention_rule"}, {}, "no pending rule")
    BY Named DEF ScriptOf
  <2>2. \A rows : ScriptOf("down", 1)[2] = Validated({"workspace_retention_rule"}, {}, rows) =>
               /\ ScriptOf("down", 1)[2].op = "ddl"
               /\ ScriptOf("down", 1)[2].locks = {"workspace_retention_rule"}
               /\ ScriptOf("down", 1)[2].about = rows
    BY DEF Validated, Statement
  <2>. QED BY ONLY <2>1, <2>2, Zenon
<1>2. ScriptOf("down", 1)[3].op = "forget_pending"
  <2>1. ScriptOf("down", 1)[3] = Rows("forget_pending", "nothing")
    BY Named DEF ScriptOf
  <2>. QED BY <2>1, Fields
<1>3. Holds("no pending rule") => db.pending = {}
  BY Zenon DEF Holds
<1>4. Holds(ScriptOf("down", 1)[2].about) => db.pending = {}
  BY ONLY <1>1, <1>3, Zenon
<1>5. /\ ScriptOf("down", 1)[2].op = "ddl"
      /\ "workspace_retention_rule" \in ScriptOf("down", 1)[2].locks
  BY ONLY <1>1, Zenon
<1>. QED BY <1>2, <1>4, <1>5

LEMMA PendingStep ==
  ASSUME MigrationInv, Resting, PendingInv, [Next]_vars
  PROVE  PendingInv'
<1>0. DbTyped /\ db.stamp \in Nat /\ saved.stamp \in Nat /\ mig.pos \in Nat
  BY InvTyped DEF DbTyped, Databases, Commands
<1>. DEFINE None(d) == d.pending = {} /\ d.logged = {}
            locked == "workspace_retention_rule" \in mig.locks
<1>1. /\ db.stamp < 1 => None(db)
      /\ saved.stamp < 1 => None(saved)
      /\ Past("down", 1, 2) => db.pending = {} /\ locked
      /\ Past("down", 1, 3) => db.logged = {}
      /\ db.stamp < 1 /\ saved.stamp >= 1 => locked
  BY DEF PendingInv, PendingAt
<1>2. ASSUME Past("down", 1, 2)' PROVE "workspace_retention_rule" \in mig'.locks
  BY <1>1, <1>2, PendingScript, LockHeld
<1>. DEFINE Goal ==
      /\ db'.stamp < 1 => None(db')
      /\ saved'.stamp < 1 => None(saved')
      /\ Past("down", 1, 2)' => db'.pending = {}
      /\ Past("down", 1, 3)' => db'.logged = {}
      /\ db'.stamp < 1 /\ saved'.stamp >= 1 => locked'
<1>. SUFFICES Goal
  BY <1>2 DEF PendingInv, PendingAt
<1>3. CASE AStatement
  <2>1. /\ saved' = saved /\ mig.locks \subseteq mig'.locks /\ db'.stamp = db.stamp
        /\ Executing /\ Error = "none"
    BY <1>0, <1>3, StatementStep
  <2>2. /\ db'.pending = db.pending \/ db'.pending = {}
        /\ db'.logged = db.logged \/ db'.logged = {}
    BY <1>0, <1>3, RowsKept, Deleted
  <2>3. Past("down", 1, 2)' => db'.pending = {}
    <3>1. CASE Past("down", 1, 2)
      BY <1>1, <2>2, <3>1
    <3>2. CASE Current = ScriptOf("down", 1)[2]
      <4>1. Holds(Current.about)
        BY <2>1, <3>2, PendingScript, Validates
      <4>. QED BY <2>2, <3>2, <4>1, PendingScript
    <3>. QED BY <3>1, <3>2, PastStep
  <2>4. Past("down", 1, 3)' => db'.logged = {}
    <3>1. CASE Past("down", 1, 3)
      BY <1>1, <2>2, <3>1
    <3>2. CASE Current = ScriptOf("down", 1)[3]
      BY <1>0, <1>3, <3>2, PendingScript, Deleted
    <3>. QED BY <3>1, <3>2, PastStep
  <2>. QED BY <1>1, <2>1, <2>2, <2>3, <2>4
<1>4. CASE Stamp
  <2>1. /\ saved' = saved /\ mig'.locks = mig.locks /\ mig'.pos = 1
        /\ db'.pending = db.pending /\ db'.logged = db.logged
    BY <1>0, <1>4, StampStep
  <2>2. ~ Past("down", 1, 2)' /\ ~ Past("down", 1, 3)'
    BY <2>1 DEF Past
  <2>3. CASE db'.stamp < 1
    <3>1. /\ mig.dir = "down" /\ db.stamp = 1
          /\ mig.pos = Len(Chain[db.stamp].down) + 1
      BY <1>0, <1>4, <2>3, StampStep
    <3>2. mig.pos = 5
      BY <3>1, ScriptLengths
    <3>3. Past("down", 1, 2) /\ Past("down", 1, 3)
      BY <3>1, <3>2 DEF Past
    <3>. QED BY <1>1, <2>1, <2>2, <3>3
  <2>4. CASE ~ (db'.stamp < 1)
    BY <1>1, <2>1, <2>2, <2>4
  <2>. QED BY <2>3, <2>4
<1>5. CASE \E h \in Holders : Convert(h)
  <2>1. /\ saved' = saved /\ mig'.locks = mig.locks /\ mig'.pos = mig.pos
        /\ mig'.dir = mig.dir /\ db'.stamp = db.stamp
        /\ db'.pending = db.pending /\ db'.logged = db.logged
    BY <1>0, <1>5, ConvertStep
  <2>. QED BY <1>1, <2>1 DEF Past
<1>6. CASE Commit \/ Fail \/ Killed
  <2>1. /\ mig'.dir = "idle"
        /\ db' = saved' /\ (saved' = saved \/ saved' = db)
    BY <1>0, <1>6, EndStep
  <2>2. ~ Past("down", 1, 2)' /\ ~ Past("down", 1, 3)'
    BY <2>1 DEF Past
  <2>3. db'.stamp \in Nat
    BY <1>0, <2>1
  <2>. QED BY <1>1, <2>1, <2>2, <2>3
<1>7. CASE \E t \in Targets, key \in BOOLEAN : Start(t, key)
  <2>1. /\ db' = db /\ saved' = saved /\ mig'.pos = 1 /\ mig.dir = "idle"
    BY <1>0, <1>7, StartStep
  <2>2. ~ Past("down", 1, 2)' /\ ~ Past("down", 1, 3)'
    BY <2>1 DEF Past
  <2>3. db.stamp = saved.stamp
    BY <2>1 DEF Resting
  <2>. QED BY <1>0, <1>1, <2>1, <2>2, <2>3
<1>8. CASE Servers
  <2>1. /\ mig' = mig /\ db'.stamp = db.stamp /\ saved'.stamp = saved.stamp
        /\ SamePending \/ PendingWritten
    BY <1>0, <1>8, ServersStep
  <2>2. /\ Past("down", 1, 2)' <=> Past("down", 1, 2)
        /\ Past("down", 1, 3)' <=> Past("down", 1, 3)
    BY <2>1 DEF Past
  <2>3. CASE SamePending
    BY <1>1, <2>1, <2>2, <2>3 DEF SamePending
  <2>4. CASE PendingWritten
    <3>1. saved.stamp >= 1 /\ ~ locked
      BY <2>4 DEF PendingWritten, PendingAt
    <3>2. Past("down", 1, 3) => Past("down", 1, 2)
      BY <1>0 DEF Past
    <3>. QED BY <1>0, <1>1, <2>1, <2>2, <3>1, <3>2
  <2>. QED BY <2>1, <2>3, <2>4
<1>9. CASE UNCHANGED vars
  BY <1>1, <1>9 DEF vars, Past
<1>. QED BY <1>3, <1>4, <1>5, <1>6, <1>7, <1>8, <1>9, Steps

(***************************************************************************)
(* Run numbers                                                             *)
(***************************************************************************)
LEMMA Division ==
  /\ \A a \in Nat : /\ a \div 10 \in Nat /\ a % 10 \in 0..9
                    /\ a = 10 * (a \div 10) + (a % 10)
  /\ \A n \in Nat, a \in Nat : /\ (10 * n + a) \div 10 = n + (a \div 10)
                               /\ (10 * n + a) % 10 = a % 10
<1>1. ASSUME NEW a \in Nat
      PROVE  /\ a \div 10 \in Nat /\ a % 10 \in 0..9
             /\ a = 10 * (a \div 10) + (a % 10)
  BY SMT
<1>2. ASSUME NEW n \in Nat, NEW a \in Nat
      PROVE  /\ (10 * n + a) \div 10 = n + (a \div 10)
             /\ (10 * n + a) % 10 = a % 10
  BY SMT
<1>. QED BY <1>1, <1>2

LEMMA Pair ==
  /\ \A a, b, c, d : <<a, b>> = <<c, d>> => a = c /\ b = d
  /\ \A a, b \in Nat : <<a, b>> \in Seq(Nat) /\ <<a>> \in Seq(Nat)
OBVIOUS

LEMMA RunsDomains ==
  ASSUME NEW runs, RunsTyped(runs), NEW f \in Families
  PROVE  /\ DOMAIN runs[f] = 1..Len(runs[f]) /\ Len(runs[f]) \in Nat
         /\ \A k \in DOMAIN runs[f] : k - 1 \in Nat /\ runs[f][k] \in Seq(Nat)
BY DEF RunsTyped

\* A rewriting of every run, whatever it makes of a run.
LEMMA MapTyped ==
  ASSUME NEW runs, RunsTyped(runs), NEW new, DOMAIN new = Families,
         \A f \in Families : /\ new[f] = [k \in DOMAIN runs[f] |-> new[f][k]]
                             /\ \A k \in DOMAIN runs[f] : new[f][k] \in Seq(Nat)
  PROVE  /\ RunsTyped(new)
         /\ \A f \in Families : DOMAIN new[f] = DOMAIN runs[f]
         /\ \A f \in Families : Len(new[f]) = Len(runs[f])
<1>1. ASSUME NEW f \in Families
      PROVE  /\ new[f] \in Seq(Seq(Nat))
             /\ DOMAIN new[f] = DOMAIN runs[f] /\ Len(new[f]) = Len(runs[f])
  <2>1. DOMAIN runs[f] = 1..Len(runs[f]) /\ Len(runs[f]) \in Nat
    BY RunsDomains
  <2>2. /\ new[f] = [k \in 1..Len(runs[f]) |-> new[f][k]]
        /\ \A k \in 1..Len(runs[f]) : new[f][k] \in Seq(Nat)
    BY <2>1
  <2>3. new[f] \in [1..Len(runs[f]) -> Seq(Nat)]
    BY ONLY <2>2
  <2>4. new[f] \in Seq(Seq(Nat))
    BY ONLY <2>1, <2>3
  <2>5. DOMAIN new[f] = 1..Len(runs[f])
    BY ONLY <2>3
  <2>6. Len(new[f]) = Len(runs[f])
    BY ONLY <2>1, <2>4, <2>5
  <2>. QED BY <2>1, <2>4, <2>5, <2>6
<1>. QED BY <1>1 DEF RunsTyped

\* b85c3e601de4 divides: a tenth restart gets the number of the next run.
LEMMA SplitTenths ==
  ASSUME NEW runs, RunsTyped(runs), Distinct(runs), Tenths(runs), NEW new,
         new = [f \in Families |-> [k \in DOMAIN runs[f] |-> SplitNumbers(f, runs[f][k])]]
  PROVE  RunsTyped(new) /\ Distinct(new) /\ Halves(new)
<1>1. ASSUME NEW f \in Families
      PROVE  \E n \in Nat : \A k \in DOMAIN runs[f] :
               /\ runs[f][k] = <<10 * n + k - 1>>
               /\ new[f][k] = <<n + ((k - 1) \div 10), (k - 1) % 10>>
  <2>1. PICK n \in Nat : \A k \in DOMAIN runs[f] : runs[f][k] = <<10 * n + k - 1>>
    BY DEF Tenths
  <2>2. ASSUME NEW k \in DOMAIN runs[f]
        PROVE  new[f][k] = <<n + ((k - 1) \div 10), (k - 1) % 10>>
    <3>1. k \in Nat /\ k - 1 \in Nat
      BY RunsDomains
    <3>2. runs[f][k][1] = 10 * n + (k - 1)
      BY <2>1, <3>1
    <3>3. new[f][k] = <<runs[f][k][1] \div 10, runs[f][k][1] % 10>>
      BY DEF SplitNumbers
    <3>. QED BY <3>1, <3>2, <3>3, Division
  <2>. QED BY <2>1, <2>2
<1>2. RunsTyped(new) /\ \A f \in Families : DOMAIN new[f] = DOMAIN runs[f]
  <2>1. \A f \in Families : \A k \in DOMAIN runs[f] : new[f][k] \in Seq(Nat)
    <3>1. ASSUME NEW f \in Families, NEW k \in DOMAIN runs[f]
          PROVE  new[f][k] \in Seq(Nat)
      <4>1. k - 1 \in Nat
        BY RunsDomains
      <4>2. PICK n \in Nat : new[f][k] = <<n + ((k - 1) \div 10), (k - 1) % 10>>
        BY <1>1
      <4>3. n + ((k - 1) \div 10) \in Nat /\ (k - 1) % 10 \in Nat
        BY <4>1, Division
      <4>4. PICK a \in Nat, b \in Nat : new[f][k] = <<a, b>>
        BY ONLY <4>2, <4>3, Zenon
      <4>. QED BY ONLY <4>4
    <3>. QED BY <3>1
  <2>2. DOMAIN new = Families /\ \A f \in Families : new[f] = [k \in DOMAIN runs[f] |-> new[f][k]]
    OBVIOUS
  <2>. QED BY ONLY <2>1, <2>2, RunsTyped(runs), MapTyped
<1>3. Halves(new)
  BY <1>1, <1>2 DEF Halves
<1>4. Distinct(new)
  <2>1. ASSUME NEW f \in Families, NEW g \in Families,
               NEW i \in DOMAIN runs[f], NEW j \in DOMAIN runs[g],
               new[f][i] = new[g][j]
        PROVE  f = g /\ i = j
    <3>1. PICK n \in Nat : /\ runs[f][i] = <<10 * n + i - 1>>
                           /\ new[f][i] = <<n + ((i - 1) \div 10), (i - 1) % 10>>
      BY <1>1
    <3>2. PICK m \in Nat : /\ runs[g][j] = <<10 * m + j - 1>>
                           /\ new[g][j] = <<m + ((j - 1) \div 10), (j - 1) % 10>>
      BY <1>1
    <3>3. i - 1 \in Nat /\ j - 1 \in Nat
      BY RunsDomains
    <3>4. /\ n + ((i - 1) \div 10) = m + ((j - 1) \div 10)
          /\ (i - 1) % 10 = (j - 1) % 10
      BY <2>1, <3>1, <3>2, Pair
    <3>5. 10 * n + (i - 1) = 10 * m + (j - 1)
      BY <3>3, <3>4, Division
    <3>6. runs[f][i] = runs[g][j]
      BY <3>1, <3>2, <3>3, <3>5, RunsDomains
    <3>. QED BY <3>6 DEF Distinct
  <2>. HIDE DEF SplitNumbers
  <2>2. \A f, g \in Families : \A i \in DOMAIN new[f], j \in DOMAIN new[g] :
          new[f][i] = new[g][j] => f = g /\ i = j
    BY ONLY <1>2, <2>1
  <2>. QED BY ONLY <2>2 DEF Distinct
<1>. QED BY <1>2, <1>3, <1>4

LEMMA MinIs ==
  ASSUME NEW S \in SUBSET Nat, NEW x \in S, \A y \in S : x <= y
  PROVE  Min(S) = x
<1>1. \A z \in S : (\A y \in S : z <= y) => z = x
  OBVIOUS
<1>. QED BY <1>1 DEF Min

\* The first restart of the family that took the number of a run says what the
\* family's own number is: the least of those numbers, less one.
LEMMA TenthIs ==
  ASSUME RunsTyped(db.runs), NEW f \in Families, NEW n \in Nat,
         \A k \in DOMAIN db.runs[f] :
           db.runs[f][k] = <<n + ((k - 1) \div 10), (k - 1) % 10>>
  PROVE  LET rows  == db.runs[f]
             tenth == {rows[k][1] : k \in {i \in DOMAIN rows \ {1} : rows[i][2] = 0}}
         IN /\ tenth = {} => Len(rows) <= 10
            /\ tenth # {} => Min(tenth) = n + 1
<1>. DEFINE rows == db.runs[f]
            whole == {i \in DOMAIN rows \ {1} : rows[i][2] = 0}
            tenth == {rows[k][1] : k \in whole}
<1>1. DOMAIN rows = 1..Len(rows) /\ Len(rows) \in Nat
  BY RunsDomains
<1>2. \A k \in DOMAIN rows : rows[k][1] = n + ((k - 1) \div 10) /\ rows[k][2] = (k - 1) % 10
  OBVIOUS
<1>. HIDE DEF rows
<1>3. ASSUME NEW k \in whole PROVE rows[k][1] \in Nat /\ n + 1 <= rows[k][1] /\ 11 <= Len(rows)
  <2>1. k \in 1..Len(rows) /\ k # 1 /\ rows[k][2] = 0
    BY <1>1
  <2>2. k - 1 \in Nat /\ (k - 1) % 10 = 0
    BY <1>1, <1>2, <2>1
  <2>3. k - 1 = 10 * ((k - 1) \div 10) /\ (k - 1) \div 10 \in Nat
    BY <2>2, Division
  <2>4. (k - 1) \div 10 >= 1
    BY <1>1, <2>1, <2>3
  <2>. QED BY <1>1, <1>2, <2>1, <2>3, <2>4
<1>4. ASSUME 11 <= Len(rows) PROVE n + 1 \in tenth
  <2>1. 11 \in DOMAIN rows
    BY <1>1, <1>4
  <2>2. rows[11][1] = n + 1 /\ rows[11][2] = 0
    <3>1. (11 - 1) \div 10 = 1 /\ (11 - 1) % 10 = 0
      BY SMT
    <3>. QED BY <1>2, <2>1, <3>1
  <2>. QED BY <2>1, <2>2
<1>5. tenth = {} => Len(rows) <= 10
  <2>. HIDE DEF tenth
  <2>1. tenth = {} => ~ (11 <= Len(rows))
    BY <1>4
  <2>. QED BY ONLY <1>1, <2>1
<1>6. tenth # {} => Min(tenth) = n + 1
  <2>1. SUFFICES ASSUME tenth # {} PROVE Min(tenth) = n + 1
    OBVIOUS
  <2>2. tenth \in SUBSET Nat /\ \A y \in tenth : n + 1 <= y
    BY <1>3
  <2>3. n + 1 \in tenth
    BY <1>3, <1>4, <2>1
  <2>. HIDE DEF tenth
  <2>. QED BY <2>2, <2>3, MinIs
<1>. QED BY <1>5, <1>6 DEF rows

\* The renumbering undoes what the division did to tenth restarts.
LEMMA RenumberHalves ==
  ASSUME RunsTyped(db.runs), Distinct(db.runs), Halves(db.runs), NEW new,
         new = [f \in Families |->
                  [k \in DOMAIN db.runs[f] |-> RenumberRestarts(f, db.runs[f][k])]]
  PROVE  RunsTyped(new) /\ Distinct(new) /\ Pairs(new)
<1>1. ASSUME NEW f \in Families
      PROVE  \E n \in Nat : \A k \in DOMAIN db.runs[f] :
               /\ db.runs[f][k] = <<n + ((k - 1) \div 10), (k - 1) % 10>>
               /\ new[f][k] = <<n, k - 1>>
  <2>1. PICK n \in Nat : \A k \in DOMAIN db.runs[f] :
               db.runs[f][k] = <<n + ((k - 1) \div 10), (k - 1) % 10>>
    BY DEF Halves
  <2>. DEFINE rows == db.runs[f]
              tenth == {rows[k][1] : k \in {i \in DOMAIN rows \ {1} : rows[i][2] = 0}}
  <2>2. /\ tenth = {} => Len(rows) <= 10
        /\ tenth # {} => Min(tenth) = n + 1
    BY <2>1, TenthIs
  <2>3. ASSUME NEW k \in DOMAIN rows PROVE new[f][k] = <<n, k - 1>>
    <3>1. k \in Nat /\ k - 1 \in Nat /\ k <= Len(rows) /\ Len(rows) \in Nat
      BY RunsDomains
    <3>2. rows[k][1] = n + ((k - 1) \div 10) /\ rows[k][2] = (k - 1) % 10
      BY <2>1
    <3>3. /\ k - 1 = 10 * ((k - 1) \div 10) + ((k - 1) % 10)
          /\ (k - 1) \div 10 \in Nat /\ (k - 1) % 10 \in Nat
      BY <3>1, Division
    <3>4. new[f][k] = RenumberRestarts(f, rows[k])
      OBVIOUS
    <3>5. new[f][k] = IF tenth = {} THEN rows[k]
                      ELSE <<Min(tenth) - 1, rows[k][2] + (rows[k][1] - (Min(tenth) - 1)) * 10>>
      BY <3>4 DEF RenumberRestarts
    <3>. HIDE DEF tenth
    <3>6. CASE tenth = {}
      <4>1. (k - 1) \div 10 = 0 /\ (k - 1) % 10 = k - 1
        BY <2>2, <3>1, <3>3, <3>6
      <4>2. rows[k] = <<n + 0, k - 1>>
        BY <2>1, <4>1
      <4>. QED BY <3>5, <3>6, <4>2
    <3>7. CASE tenth # {}
      <4>1. Min(tenth) - 1 = n
        BY <2>2, <3>7
      <4>2. rows[k][2] + (rows[k][1] - n) * 10 = k - 1
        <5>. DEFINE q == (k - 1) \div 10
                    r == (k - 1) % 10
        <5>1. rows[k][1] = n + q /\ rows[k][2] = r /\ k - 1 = 10 * q + r
              /\ q \in Nat /\ r \in Nat
          BY <3>2, <3>3
        <5>. HIDE DEF q, r
        <5>. QED BY <5>1
      <4>. QED BY <3>5, <3>7, <4>1, <4>2
    <3>. QED BY <3>6, <3>7
  <2>. QED BY <2>1, <2>3
<1>2. RunsTyped(new) /\ \A f \in Families : DOMAIN new[f] = DOMAIN db.runs[f]
  <2>1. \A f \in Families : \A k \in DOMAIN db.runs[f] : new[f][k] \in Seq(Nat)
    <3>1. ASSUME NEW f \in Families, NEW k \in DOMAIN db.runs[f]
          PROVE  new[f][k] \in Seq(Nat)
      <4>1. k - 1 \in Nat
        BY RunsDomains
      <4>2. PICK a \in Nat, b \in Nat : new[f][k] = <<a, b>>
        BY ONLY <1>1, <4>1, f \in Families, k \in DOMAIN db.runs[f], Zenon
      <4>. QED BY ONLY <4>2
    <3>. QED BY <3>1
  <2>. HIDE DEF RenumberRestarts
  <2>2. DOMAIN new = Families /\ \A f \in Families : new[f] = [k \in DOMAIN db.runs[f] |-> new[f][k]]
    OBVIOUS
  <2>. QED BY ONLY <2>1, <2>2, RunsTyped(db.runs), MapTyped
<1>3. Pairs(new)
  BY <1>1, <1>2 DEF Pairs
<1>4. Distinct(new)
  <2>1. ASSUME NEW f \in Families, NEW g \in Families,
               NEW i \in DOMAIN db.runs[f], NEW j \in DOMAIN db.runs[g],
               new[f][i] = new[g][j]
        PROVE  f = g /\ i = j
    <3>1. PICK n \in Nat : /\ db.runs[f][i] = <<n + ((i - 1) \div 10), (i - 1) % 10>>
                           /\ new[f][i] = <<n, i - 1>>
      BY <1>1
    <3>2. PICK m \in Nat : /\ db.runs[g][j] = <<m + ((j - 1) \div 10), (j - 1) % 10>>
                           /\ new[g][j] = <<m, j - 1>>
      BY <1>1
    <3>3. i - 1 \in Nat /\ j - 1 \in Nat /\ i \in Nat /\ j \in Nat
      BY RunsDomains
    <3>4. n = m /\ i - 1 = j - 1
      BY <2>1, <3>1, <3>2, Pair
    <3>5. i = j
      BY <3>3, <3>4
    <3>6. db.runs[f][i] = db.runs[g][j]
      BY <3>1, <3>2, <3>4, <3>5
    <3>. QED BY <3>6 DEF Distinct
  <2>2. \A f, g \in Families : \A i \in DOMAIN new[f], j \in DOMAIN new[g] :
          new[f][i] = new[g][j] => f = g /\ i = j
    BY ONLY <1>2, <2>1
  <2>. QED BY ONLY <2>2 DEF Distinct
<1>. QED BY <1>2, <1>3, <1>4

\* The downgrade combines the numbers again, which needs fewer than ten
\* restarts.
LEMMA CombinePairs ==
  ASSUME NEW runs, RunsTyped(runs), Distinct(runs), Pairs(runs), FewRestarts(runs),
         NEW new,
         new = [f \in Families |-> [k \in DOMAIN runs[f] |-> CombineNumbers(f, runs[f][k])]]
  PROVE  RunsTyped(new) /\ Distinct(new) /\ Tenths(new) /\ FewRestarts(new)
<1>1. ASSUME NEW f \in Families
      PROVE  \E n \in Nat : \A k \in DOMAIN runs[f] :
               /\ runs[f][k] = <<n, k - 1>>
               /\ new[f][k] = <<10 * n + k - 1>>
  <2>1. PICK n \in Nat : \A k \in DOMAIN runs[f] : runs[f][k] = <<n, k - 1>>
    BY DEF Pairs
  <2>2. ASSUME NEW k \in DOMAIN runs[f] PROVE new[f][k] = <<10 * n + k - 1>>
    <3>1. k \in Nat /\ k - 1 \in Nat
      BY RunsDomains
    <3>2. runs[f][k][1] = n /\ runs[f][k][2] = k - 1
      BY <2>1
    <3>3. new[f][k] = <<runs[f][k][1] * 10 + runs[f][k][2]>>
      BY DEF CombineNumbers
    <3>4. n * 10 + (k - 1) = 10 * n + k - 1
      BY <3>1
    <3>. QED BY <3>2, <3>3, <3>4
  <2>. QED BY <2>1, <2>2
<1>2. /\ RunsTyped(new)
      /\ \A f \in Families : DOMAIN new[f] = DOMAIN runs[f]
      /\ \A f \in Families : Len(new[f]) = Len(runs[f])
  <2>1. \A f \in Families : \A k \in DOMAIN runs[f] : new[f][k] \in Seq(Nat)
    <3>1. ASSUME NEW f \in Families, NEW k \in DOMAIN runs[f]
          PROVE  new[f][k] \in Seq(Nat)
      <4>1. PICK n \in Nat : new[f][k] = <<10 * n + k - 1>>
        BY <1>1
      <4>2. 10 * n + k - 1 \in Nat
        BY RunsDomains
      <4>3. PICK a \in Nat : new[f][k] = <<a>>
        BY ONLY <4>1, <4>2, Zenon
      <4>. QED BY ONLY <4>3
    <3>. QED BY <3>1
  <2>. HIDE DEF CombineNumbers
  <2>2. DOMAIN new = Families
    OBVIOUS
  <2>3. \A f \in Families : new[f] = [k \in DOMAIN runs[f] |-> new[f][k]]
    OBVIOUS
  <2>4. \A f \in Families : /\ new[f] = [k \in DOMAIN runs[f] |-> new[f][k]]
                            /\ \A k \in DOMAIN runs[f] : new[f][k] \in Seq(Nat)
    BY ONLY <2>1, <2>3, Zenon
  <2>. QED BY ONLY <2>2, <2>4, RunsTyped(runs), MapTyped, Zenon
<1>3. Tenths(new)
  BY <1>1, <1>2 DEF Tenths
<1>4. Distinct(new)
  <2>1. ASSUME NEW f \in Families, NEW g \in Families,
               NEW i \in DOMAIN runs[f], NEW j \in DOMAIN runs[g],
               new[f][i] = new[g][j]
        PROVE  f = g /\ i = j
    <3>1. PICK n \in Nat : runs[f][i] = <<n, i - 1>> /\ new[f][i] = <<10 * n + i - 1>>
      BY <1>1
    <3>2. PICK m \in Nat : runs[g][j] = <<m, j - 1>> /\ new[g][j] = <<10 * m + j - 1>>
      BY <1>1
    <3>3. i \in 1..10 /\ j \in 1..10
      <4>1. /\ i \in 1..Len(runs[f]) /\ Len(runs[f]) \in Nat
            /\ j \in 1..Len(runs[g]) /\ Len(runs[g]) \in Nat
        BY RunsDomains
      <4>2. Len(runs[f]) <= 10 /\ Len(runs[g]) <= 10
        BY DEF FewRestarts
      <4>. QED BY ONLY <4>1, <4>2
    <3>4. 10 * n + i - 1 = 10 * m + j - 1
      <4>1. new[f][i][1] = 10 * n + i - 1 /\ new[g][j][1] = 10 * m + j - 1
        BY <3>1, <3>2
      <4>. QED BY <2>1, <4>1
    <3>5. n = m /\ i = j
      BY <3>3, <3>4
    <3>6. runs[f][i] = runs[g][j]
      BY <3>1, <3>2, <3>5
    <3>. QED BY <3>6 DEF Distinct
  <2>2. \A f, g \in Families : \A i \in DOMAIN new[f], j \in DOMAIN new[g] :
          new[f][i] = new[g][j] => f = g /\ i = j
    BY ONLY <1>2, <2>1
  <2>. QED BY ONLY <2>2 DEF Distinct
<1>. QED BY <1>2, <1>3, <1>4 DEF FewRestarts

\* A restart is numbered after the last one of its family.
LEMMA AppendPairs ==
  ASSUME NEW runs, RunsTyped(runs), Distinct(runs), Pairs(runs),
         NEW f \in Families, runs[f] # << >>, NEW new,
         new = [runs EXCEPT ![f] = Append(@, <<runs[f][1][1], Len(runs[f])>>)]
  PROVE  RunsTyped(new) /\ Distinct(new) /\ Pairs(new)
<1>. DEFINE old == runs[f]
            run == <<old[1][1], Len(old)>>
<1>1. PICK n \in Nat : \A k \in DOMAIN old : old[k] = <<n, k - 1>>
  BY DEF Pairs
<1>2. /\ old \in Seq(Seq(Nat)) /\ DOMAIN old = 1..Len(old)
      /\ Len(old) \in Nat /\ Len(old) >= 1
  <2>1. old \in Seq(Seq(Nat)) /\ old # << >>
    BY DEF RunsTyped
  <2>. HIDE DEF old
  <2>. QED BY ONLY <2>1
<1>3. run = <<n, Len(old)>> /\ run \in Seq(Nat)
  <2>1. old[1] = <<n, 1 - 1>>
    BY <1>1, <1>2
  <2>2. old[1][1] = n
    BY ONLY <2>1
  <2>3. run = <<n, Len(old)>>
    BY <2>2
  <2>. HIDE DEF run
  <2>. QED BY <2>3, <1>2
<1>4. /\ DOMAIN new = Families /\ new[f] = Append(old, run)
      /\ \A g \in Families : g # f => new[g] = runs[g]
  BY DEF RunsTyped
<1>. HIDE DEF run, old
<1>5. /\ new[f] \in Seq(Seq(Nat)) /\ DOMAIN new[f] = 1..(Len(old) + 1)
      /\ \A k \in DOMAIN new[f] : new[f][k] = <<n, k - 1>>
      /\ new[f][1] = old[1] /\ 1 \in DOMAIN old
  <2>1. /\ new[f] \in Seq(Seq(Nat)) /\ DOMAIN new[f] = 1..(Len(old) + 1)
        /\ \A k \in 1..Len(old) : new[f][k] = old[k]
        /\ new[f][Len(old) + 1] = run
    BY ONLY <1>2, <1>3, <1>4
  <2>2. ASSUME NEW k \in DOMAIN new[f] PROVE new[f][k] = <<n, k - 1>>
    <3>1. CASE k \in 1..Len(old)
      BY <1>1, <1>2, <2>1, <3>1
    <3>2. CASE k = Len(old) + 1
      <4>1. Len(old) = k - 1
        BY <1>2, <3>2
      <4>. QED BY <1>3, <2>1, <3>2, <4>1
    <3>3. k \in 1..Len(old) \/ k = Len(old) + 1
      <4>1. k \in 1..(Len(old) + 1)
        BY ONLY <2>1, <2>2
      <4>. QED BY ONLY <4>1, <1>2
    <3>. QED BY ONLY <3>1, <3>2, <3>3
  <2>3. 1 \in DOMAIN old /\ 1 \in 1..Len(old)
    BY ONLY <1>2
  <2>. QED BY ONLY <2>1, <2>2, <2>3
<1>6. RunsTyped(new)
  BY <1>4, <1>5 DEF RunsTyped
<1>7. Pairs(new)
  BY <1>4, <1>5 DEF Pairs
<1>8. \A g \in Families : new[g] # << >> =>
        1 \in DOMAIN new[g] /\ 1 \in DOMAIN runs[g] /\ new[g][1] = runs[g][1]
  <2>1. ASSUME NEW g \in Families, g # f, new[g] # << >> PROVE 1 \in DOMAIN runs[g]
    <3>1. runs[g] \in Seq(Seq(Nat)) /\ runs[g] # << >>
      BY <1>4, <2>1 DEF RunsTyped
    <3>. QED BY ONLY <3>1
  <2>2. 1 \in DOMAIN new[f] /\ new[f][1] = runs[f][1] /\ 1 \in DOMAIN runs[f]
    BY <1>2, <1>5 DEF old
  <2>. QED BY <1>4, <2>1, <2>2
<1>9. ASSUME NEW g \in Families, NEW h \in Families,
             NEW i \in DOMAIN new[g], NEW j \in DOMAIN new[h], new[g][i] = new[h][j]
      PROVE  g = h /\ i = j
  <2>1. PICK m \in Nat : \A k \in DOMAIN new[g] : new[g][k] = <<m, k - 1>>
    BY <1>7 DEF Pairs
  <2>2. PICK o \in Nat : \A k \in DOMAIN new[h] : new[h][k] = <<o, k - 1>>
    BY <1>7 DEF Pairs
  <2>3. m = o /\ i - 1 = j - 1
    BY <1>9, <2>1, <2>2, Pair
  <2>4. i \in Nat /\ j \in Nat
    BY <1>6, RunsDomains
  <2>5. new[g] # << >> /\ new[h] # << >>
    OBVIOUS
  <2>6. new[g][1] = new[h][1]
    BY <1>8, <2>1, <2>2, <2>3, <2>5
  <2>7. runs[g][1] = runs[h][1] /\ 1 \in DOMAIN runs[g] /\ 1 \in DOMAIN runs[h]
    BY <1>8, <2>5, <2>6
  <2>8. g = h
    BY ONLY <2>7, g \in Families, h \in Families, Distinct(runs) DEF Distinct
  <2>. QED BY <2>3, <2>4, <2>8
<1>. QED BY <1>6, <1>7, <1>9 DEF Distinct

\* Three statements of the chain rewrite run numbers.
RunsMapped(F(_, _)) ==
  db'.runs = [f \in Families |-> [k \in DOMAIN db.runs[f] |-> F(f, db.runs[f][k])]]

LEMMA RunsStatement ==
  ASSUME MigrationInv, AStatement
  PROVE  \/ /\ db'.runs = db.runs
            /\ Current.op \notin {"split_numbers", "renumber_restarts", "combine_numbers"}
         \/ At("up", 2, 2) /\ RunsMapped(SplitNumbers)
         \/ At("up", 2, 6) /\ RunsMapped(RenumberRestarts)
         \/ At("down", 2, 4) /\ RunsMapped(CombineNumbers)
<1>0. DbTyped /\ Executing
  BY InvTyped, StatementStep
<1>1. CASE Current.op \notin {"split_numbers", "renumber_restarts", "combine_numbers"}
  BY <1>0, <1>1, RowsKept
<1>2. CASE Current.op \in {"split_numbers", "renumber_restarts", "combine_numbers"}
  <2>1. RewriteRows
    BY <1>2 DEF AStatement, Alter, CreateTheCheck, PassCheck, Repair,
                Fetch, AllConverted, Executes
  <2>2. db' = Rewritten(Current.op, Current.about)
    BY <2>1 DEF RewriteRows, Proceed
  <2>. DEFINE Of(F(_, _)) == [f \in Families |-> [k \in DOMAIN db.runs[f] |-> F(f, db.runs[f][k])]]
  <2>3. ASSUME NEW r, db' = [db EXCEPT !.runs = r] PROVE db'.runs = r
    BY <1>0, <2>3 DEF DbTyped, Databases
  <2>4. /\ Current.op = "split_numbers" => db' = [db EXCEPT !.runs = Of(SplitNumbers)]
        /\ Current.op = "renumber_restarts" => db' = [db EXCEPT !.runs = Of(RenumberRestarts)]
        /\ Current.op = "combine_numbers" => db' = [db EXCEPT !.runs = Of(CombineNumbers)]
    BY <2>2, Zenon DEF Rewritten, MapRuns
  <2>5. /\ Current.op = "split_numbers" => RunsMapped(SplitNumbers)
        /\ Current.op = "renumber_restarts" => RunsMapped(RenumberRestarts)
        /\ Current.op = "combine_numbers" => RunsMapped(CombineNumbers)
    <3>1. Current.op = "split_numbers" => db'.runs = Of(SplitNumbers)
      BY ONLY <2>3, <2>4, Zenon
    <3>2. Current.op = "renumber_restarts" => db'.runs = Of(RenumberRestarts)
      BY ONLY <2>3, <2>4, Zenon
    <3>3. Current.op = "combine_numbers" => db'.runs = Of(CombineNumbers)
      BY ONLY <2>3, <2>4, Zenon
    <3>. QED BY ONLY <3>1, <3>2, <3>3, Zenon DEF RunsMapped
  <2>6. /\ Current.op = "split_numbers" => At("up", 2, 2)
        /\ Current.op = "renumber_restarts" => At("up", 2, 6)
        /\ Current.op = "combine_numbers" => At("down", 2, 4)
    <3>1. /\ Current.op = "split_numbers" =>
               mig.dir = "up" /\ db.stamp + 1 = 2 /\ mig.pos = 2
          /\ Current.op = "renumber_restarts" =>
               mig.dir = "up" /\ db.stamp + 1 = 2 /\ mig.pos = 6
          /\ Current.op = "combine_numbers" =>
               mig.dir = "down" /\ db.stamp = 2 /\ mig.pos = 4
      BY <1>0, CurrentIs DEF KnownUp, KnownDown
    <3>2. db.stamp \in Nat
      BY <1>0 DEF DbTyped, Databases
    <3>. QED BY <3>1, <3>2 DEF At
  <2>. QED BY <1>2, <2>5, <2>6
<1>. QED BY <1>1, <1>2

LEMMA RunsScripts ==
  /\ ScriptOf("up", 2)[2].op = "split_numbers"
  /\ ScriptOf("up", 2)[6].op = "renumber_restarts"
  /\ ScriptOf("down", 2)[1].op = "ddl"
  /\ "workflow" \in ScriptOf("down", 2)[1].locks
  /\ ScriptOf("down", 2)[3].op = "refuse_if"
  /\ ~ Refused(ScriptOf("down", 2)[3].about) =>
       \A f \in Families : \A k \in DOMAIN db.runs[f] : ~ (db.runs[f][k][2] >= 10)
  /\ ScriptOf("down", 2)[4].op = "combine_numbers"
<1>1. /\ ScriptOf("up", 2)[2] = Rows("split_numbers", "nothing")
      /\ ScriptOf("down", 2)[1] = Drop({"workflow"}, RunNumberConstraint)
      /\ ScriptOf("down", 2)[4] = Rows("combine_numbers", "nothing")
  BY Named DEF ScriptOf
<1>2. /\ ScriptOf("up", 2)[2].op = "split_numbers"
      /\ ScriptOf("down", 2)[1].op = "ddl"
      /\ "workflow" \in ScriptOf("down", 2)[1].locks
      /\ ScriptOf("down", 2)[4].op = "combine_numbers"
  BY <1>1, Fields
<1>3. ScriptOf("up", 2)[6].op = "renumber_restarts"
  <2>1. ScriptOf("up", 2)[6] = Rows("renumber_restarts", "numbers unique")
    BY Named, Zenon DEF ScriptOf
  <2>2. \A x, rows : ScriptOf("up", 2)[6] = Rows(x, rows) => ScriptOf("up", 2)[6].op = x
    BY DEF Rows, Statement
  <2>. QED BY ONLY <2>1, <2>2, Zenon
<1>4. /\ ScriptOf("down", 2)[3].op = "refuse_if"
      /\ ScriptOf("down", 2)[3].about = "ten restarts"
  <2>1. ScriptOf("down", 2)[3] = Rows("refuse_if", "ten restarts")
    BY Named, Zenon DEF ScriptOf
  <2>2. \A x, rows : ScriptOf("down", 2)[3] = Rows(x, rows) =>
          ScriptOf("down", 2)[3].op = x /\ ScriptOf("down", 2)[3].about = rows
    BY DEF Rows, Statement
  <2>. QED BY ONLY <2>1, <2>2, Zenon
<1>5. ~ Refused("ten restarts") =>
        \A f \in Families : \A k \in DOMAIN db.runs[f] : ~ (db.runs[f][k][2] >= 10)
  BY Zenon DEF Refused
<1>6. /\ ScriptOf("down", 2)[3].op = "refuse_if"
      /\ ~ Refused(ScriptOf("down", 2)[3].about) =>
           \A f \in Families : \A k \in DOMAIN db.runs[f] : ~ (db.runs[f][k][2] >= 10)
  BY ONLY <1>4, <1>5, Zenon
<1>. QED BY <1>2, <1>3, <1>6

\* The downgrade goes on only with at most nine restarts of every run.
LEMMA FewLeft ==
  ASSUME RunsTyped(db.runs), Pairs(db.runs), Error = "none", Executing,
         Current = ScriptOf("down", 2)[3]
  PROVE  FewRestarts(db.runs)
<1>1. ~ Refused(Current.about)
  BY RunsScripts DEF Error
<1>2. \A f \in Families : \A k \in DOMAIN db.runs[f] : ~ (db.runs[f][k][2] >= 10)
  BY <1>1, RunsScripts
<1>3. ASSUME NEW f \in Families PROVE Len(db.runs[f]) <= 10
  <2>1. PICK n \in Nat : \A k \in DOMAIN db.runs[f] : db.runs[f][k] = <<n, k - 1>>
    BY DEF Pairs
  <2>2. DOMAIN db.runs[f] = 1..Len(db.runs[f]) /\ Len(db.runs[f]) \in Nat
    BY RunsDomains
  <2>3. SUFFICES ASSUME ~ (Len(db.runs[f]) <= 10) PROVE FALSE
    BY <2>2
  <2>4. 11 \in DOMAIN db.runs[f]
    BY <2>2, <2>3
  <2>5. db.runs[f][11] = <<n, 11 - 1>>
    BY <2>1, <2>4
  <2>6. db.runs[f][11][2] = 10
    BY ONLY <2>5
  <2>. QED BY <1>2, <2>4, <2>6
<1>. QED BY <1>3 DEF FewRestarts

LEMMA FirstRunsAre ==
  ASSUME NEW runs \in FirstRuns
  PROVE  RunsTyped(runs) /\ Tenths(runs)
<1>. DEFINE First(a, b) == IF a = 0 THEN << >>
                           ELSE [k \in 1..(b + 1) |-> <<10 * a + k - 1>>]
<1>1. PICK n \in [Families -> (0..MaxMajor) \X RestartCounts] :
        runs = [f \in Families |-> First(n[f][1], n[f][2])]
  BY DEF FirstRuns
<1>2. ASSUME NEW f \in Families
      PROVE  /\ runs[f] \in Seq(Seq(Nat))
             /\ \E a \in Nat : \A k \in DOMAIN runs[f] : runs[f][k] = <<10 * a + k - 1>>
  <2>1. PICK a \in Nat, b \in Nat : runs[f] = First(a, b)
    <3>1. n[f][1] \in Nat /\ n[f][2] \in Nat
      <4>1. n[f] \in (0..MaxMajor) \X RestartCounts
        BY ONLY f \in Families, n \in [Families -> (0..MaxMajor) \X RestartCounts]
      <4>2. n[f][1] \in 0..MaxMajor /\ n[f][2] \in RestartCounts
        BY ONLY <4>1
      <4>3. RestartCounts \subseteq Nat
        BY BoundsAssumption
      <4>4. 0..MaxMajor \subseteq Nat
        OBVIOUS
      <4>. QED BY ONLY <4>2, <4>3, <4>4, Zenon
    <3>. QED BY <1>1, <3>1
  <2>2. CASE a = 0
    <3>1. runs[f] = << >>
      BY <2>1, <2>2
    <3>. QED BY ONLY <3>1
  <2>3. CASE a # 0
    <3>1. runs[f] = [k \in 1..(b + 1) |-> <<10 * a + k - 1>>]
      BY <2>1, <2>3
    <3>2. \A k \in 1..(b + 1) : 10 * a + k - 1 \in Nat
      OBVIOUS
    <3>3. \A c \in Nat : <<c>> \in Seq(Nat)
      OBVIOUS
    <3>4. \A k \in 1..(b + 1) : <<10 * a + k - 1>> \in Seq(Nat)
      BY ONLY <3>2, <3>3, Zenon
    <3>5. runs[f] \in [1..(b + 1) -> Seq(Nat)]
      BY ONLY <3>1, <3>4, Zenon
    <3>6. runs[f] \in Seq(Seq(Nat))
      BY ONLY <3>5, b \in Nat
    <3>7. \A k \in DOMAIN runs[f] : runs[f][k] = <<10 * a + k - 1>>
      BY ONLY <3>1
    <3>. QED BY <3>6, <3>7
  <2>. QED BY <2>2, <2>3
<1>3. DOMAIN runs = Families
  BY <1>1
<1>. QED BY <1>2, <1>3 DEF RunsTyped, Tenths

LEMMA RunsInit == Init => RunsInv
<1>. SUFFICES ASSUME Init PROVE RunsInv
  OBVIOUS
<1>1. PICK runs \in FirstRuns :
        /\ Distinct(runs)
        /\ db = [stamp |-> 0, catalog |-> FirstCatalog,
                secret |-> [h \in Holders |-> NoSecret],
                digest |-> [u \in Users |-> NoText],
                last |-> [h \in Holders |-> NoText], raced |-> {},
                identity |-> [u \in Users |-> "none"],
                job |-> [j \in Jobs |-> "none"], cached |-> {},
                pending |-> {}, logged |-> {}, runs |-> runs]
  BY Zenon DEF Init
<1>2. db.runs = runs /\ db.stamp = 0
  BY <1>1
<1>3. saved = db /\ mig.dir = "idle"
  BY DEF Init, Idle
<1>4. RunsTyped(db.runs) /\ Tenths(db.runs) /\ Distinct(db.runs)
  BY <1>1, <1>2, FirstRunsAre
<1>5. ~ Split /\ ~ Renumbered /\ ~ Combined /\ ~ Past("down", SplitAt, 1)
      /\ ~ Past("down", SplitAt, 3)
  BY <1>3 DEF Split, Renumbered, Combined, Past
<1>. QED BY <1>2, <1>3, <1>4, <1>5 DEF RunsInv, SplitAt

LEMMA RunsStep ==
  ASSUME MigrationInv, Resting, RunsInv, [Next]_vars
  PROVE  RunsInv'
<1>0. DbTyped /\ db.stamp \in Nat /\ saved.stamp \in Nat /\ mig.pos \in Nat
  BY InvTyped DEF DbTyped, Databases, Commands
<1>. DEFINE OK(d) == RunsTyped(d.runs) /\ Distinct(d.runs)
            locked == "workflow" \in mig.locks
<1>1. /\ OK(db) /\ OK(saved)
      /\ saved.stamp < 2 => Tenths(saved.runs)
      /\ saved.stamp >= 2 => Pairs(saved.runs)
      /\ db.stamp < 2 /\ ~ Split => Tenths(db.runs)
      /\ Split /\ ~ Renumbered => Halves(db.runs)
      /\ Renumbered => Pairs(db.runs)
      /\ db.stamp >= 2 /\ ~ Combined => Pairs(db.runs)
      /\ Combined => Tenths(db.runs)
      /\ Past("down", 2, 1) => locked
      /\ Past("down", 2, 3) => FewRestarts(db.runs)
      /\ db.stamp < 2 /\ saved.stamp >= 2 => locked
      /\ db.stamp >= 2 /\ saved.stamp >= 2 /\ ~ Combined => db.runs = saved.runs
      /\ mig.dir = "idle" => db.runs = saved.runs
  BY DEF RunsInv, SplitAt
<1>2. ASSUME Past("down", 2, 1)' PROVE "workflow" \in mig'.locks
  BY <1>1, <1>2, RunsScripts, LockHeld
<1>. DEFINE Goal ==
      /\ OK(db') /\ OK(saved')
      /\ saved'.stamp < 2 => Tenths(saved'.runs)
      /\ saved'.stamp >= 2 => Pairs(saved'.runs)
      /\ db'.stamp < 2 /\ ~ Split' => Tenths(db'.runs)
      /\ Split' /\ ~ Renumbered' => Halves(db'.runs)
      /\ Renumbered' => Pairs(db'.runs)
      /\ db'.stamp >= 2 /\ ~ Combined' => Pairs(db'.runs)
      /\ Combined' => Tenths(db'.runs)
      /\ Past("down", 2, 3)' => FewRestarts(db'.runs)
      /\ db'.stamp < 2 /\ saved'.stamp >= 2 => locked'
      /\ db'.stamp >= 2 /\ saved'.stamp >= 2 /\ ~ Combined' => db'.runs = saved'.runs
      /\ mig'.dir = "idle" => db'.runs = saved'.runs
<1>. SUFFICES Goal
  <2>1. \A d \in {db', saved'} : RunsTyped(d.runs) /\ Distinct(d.runs)
    OBVIOUS
  <2>. HIDE DEF OK
  <2>. QED BY <1>2, <2>1 DEF RunsInv, SplitAt
<1>3. /\ Split <=> Past("up", 2, 2)
      /\ Renumbered <=> Past("up", 2, 6)
      /\ Combined <=> Past("down", 2, 4)
      /\ Split' <=> Past("up", 2, 2)'
      /\ Renumbered' <=> Past("up", 2, 6)'
      /\ Combined' <=> Past("down", 2, 4)'
  BY DEF Split, Renumbered, Combined, SplitAt
<1>4. /\ Split => mig.dir = "up" /\ db.stamp = 1 /\ mig.pos > 2
      /\ Renumbered => mig.dir = "up" /\ db.stamp = 1 /\ mig.pos > 6
      /\ Combined => mig.dir = "down" /\ db.stamp = 2 /\ mig.pos > 4
      /\ Past("down", 2, 3) => mig.dir = "down" /\ db.stamp = 2 /\ mig.pos > 3
      /\ Split' => mig'.dir = "up" /\ db'.stamp = 1 /\ mig'.pos > 2
      /\ Renumbered' => mig'.dir = "up" /\ db'.stamp = 1 /\ mig'.pos > 6
      /\ Combined' => mig'.dir = "down" /\ db'.stamp = 2 /\ mig'.pos > 4
      /\ Past("down", 2, 3)' => mig'.dir = "down" /\ db'.stamp = 2 /\ mig'.pos > 3
  BY <1>3 DEF Past
<1>5. CASE AStatement
  <2>1. /\ saved' = saved /\ mig.locks \subseteq mig'.locks /\ db'.stamp = db.stamp
        /\ mig'.pos = mig.pos + 1 /\ mig'.dir = mig.dir /\ Executing /\ Error = "none"
        /\ mig.dir # "idle"
    BY <1>0, <1>5, StatementStep DEF Executing, Running
  <2>2. /\ Split => Split'
        /\ Renumbered => Renumbered'
        /\ Combined => Combined'
        /\ Past("down", 2, 3) => Past("down", 2, 3)'
    BY <1>0, <1>3, <2>1 DEF Past
  <2>3. CASE At("up", 2, 2) /\ RunsMapped(SplitNumbers)
    <3>1. mig.dir = "up" /\ db.stamp = 1 /\ mig.pos = 2
      BY <2>3 DEF At
    <3>2. ~ Split /\ Split' /\ ~ Renumbered'
      BY <1>3, <1>4, <2>1, <3>1 DEF Past
    <3>3. RunsTyped(db'.runs) /\ Distinct(db'.runs) /\ Halves(db'.runs)
      <4>1. RunsTyped(db.runs) /\ Distinct(db.runs) /\ Tenths(db.runs)
        BY <1>1, <3>1, <3>2
      <4>2. db'.runs = [f \in Families |-> [k \in DOMAIN db.runs[f] |->
                           SplitNumbers(f, db.runs[f][k])]]
        BY <2>3 DEF RunsMapped
      <4>. QED BY ONLY <4>1, <4>2, SplitTenths
    <3>. QED BY <1>1, <1>4, <2>1, <3>1, <3>2, <3>3
  <2>4. CASE At("up", 2, 6) /\ RunsMapped(RenumberRestarts)
    <3>1. mig.dir = "up" /\ db.stamp = 1 /\ mig.pos = 6
      BY <2>4 DEF At
    <3>2. Split /\ ~ Renumbered /\ Split' /\ Renumbered'
      BY <1>3, <1>4, <2>1, <3>1 DEF Past
    <3>3. RunsTyped(db'.runs) /\ Distinct(db'.runs) /\ Pairs(db'.runs)
      <4>1. RunsTyped(db.runs) /\ Distinct(db.runs) /\ Halves(db.runs)
        BY <1>1, <3>2
      <4>2. db'.runs = [f \in Families |-> [k \in DOMAIN db.runs[f] |->
                           RenumberRestarts(f, db.runs[f][k])]]
        BY <2>4 DEF RunsMapped
      <4>. QED BY ONLY <4>1, <4>2, RenumberHalves
    <3>. QED BY <1>1, <1>4, <2>1, <3>1, <3>2, <3>3
  <2>5. CASE At("down", 2, 4) /\ RunsMapped(CombineNumbers)
    <3>1. mig.dir = "down" /\ db.stamp = 2 /\ mig.pos = 4
      BY <2>5 DEF At
    <3>2. ~ Combined /\ Combined' /\ Past("down", 2, 3)
      BY <1>3, <1>4, <2>1, <3>1 DEF Past
    <3>3. RunsTyped(db'.runs) /\ Distinct(db'.runs) /\ Tenths(db'.runs) /\ FewRestarts(db'.runs)
      <4>1. RunsTyped(db.runs) /\ Distinct(db.runs) /\ Pairs(db.runs) /\ FewRestarts(db.runs)
        BY <1>1, <3>1, <3>2
      <4>2. db'.runs = [f \in Families |-> [k \in DOMAIN db.runs[f] |->
                           CombineNumbers(f, db.runs[f][k])]]
        BY <2>5 DEF RunsMapped
      <4>. QED BY ONLY <4>1, <4>2, CombinePairs
    <3>. QED BY <1>1, <1>4, <2>1, <3>1, <3>2, <3>3
  <2>6. CASE /\ db'.runs = db.runs
             /\ Current.op \notin {"split_numbers", "renumber_restarts", "combine_numbers"}
    <3>1. (Split' <=> Split) /\ (Renumbered' <=> Renumbered) /\ (Combined' <=> Combined)
      <4>1. Past("up", 2, 2)' => Past("up", 2, 2)
        BY <2>6, PastStep, RunsScripts
      <4>2. Past("up", 2, 6)' => Past("up", 2, 6)
        BY <2>6, PastStep, RunsScripts
      <4>3. Past("down", 2, 4)' => Past("down", 2, 4)
        BY <2>6, PastStep, RunsScripts
      <4>. QED BY ONLY <1>3, <2>2, <4>1, <4>2, <4>3, Zenon
    <3>2. Past("down", 2, 3)' => FewRestarts(db.runs)
      <4>1. CASE Past("down", 2, 3)
        BY <1>1, <4>1
      <4>2. CASE At("down", 2, 3) /\ Current = ScriptOf("down", 2)[3]
        <5>1. db.stamp >= 2 /\ ~ Combined
          BY <1>3, <4>2 DEF At, Past
        <5>. QED BY <1>1, <2>1, <4>2, <5>1, FewLeft
      <4>. QED BY <4>1, <4>2, PastStep
    <3>. QED BY <1>1, <2>1, <2>6, <3>1, <3>2
  <2>. QED BY <1>5, <2>3, <2>4, <2>5, <2>6, RunsStatement
<1>6. CASE Stamp
  <2>1. /\ saved' = saved /\ mig'.locks = mig.locks /\ mig'.pos = 1
        /\ db'.runs = db.runs /\ mig'.dir = mig.dir /\ mig.dir # "idle"
    BY <1>0, <1>6, StampStep DEF Running
  <2>2. ~ Split' /\ ~ Renumbered' /\ ~ Combined' /\ ~ Past("down", 2, 3)'
    BY <1>4, <2>1
  <2>3. CASE mig.dir = "up" /\ db.stamp = 1
    <3>1. /\ mig.pos = Len(Chain[db.stamp + 1].up) + 1 /\ db.stamp + 1 = 2
          /\ db'.stamp = 2
      BY <1>0, <1>6, <2>3, StampStep
    <3>2. mig.pos = Len(Chain[2].up) + 1
      BY <3>1
    <3>3. mig.pos = 7
      BY <3>2, ScriptLengths
    <3>4. Renumbered
      BY <1>3, <2>3, <3>3 DEF Past
    <3>5. saved.stamp <= 1
      BY <2>3 DEF Resting
    <3>. QED BY <1>0, <1>1, <2>1, <2>2, <3>1, <3>4, <3>5
  <2>4. CASE mig.dir = "down" /\ db.stamp = 2
    <3>1. mig.pos = Len(Chain[2].down) + 1 /\ db'.stamp = 1
      BY <1>0, <1>6, <2>4, StampStep
    <3>2. mig.pos = 7
      BY <3>1, ScriptLengths
    <3>3. Combined /\ Past("down", 2, 1)
      BY <1>3, <2>4, <3>2 DEF Past
    <3>. QED BY <1>0, <1>1, <2>1, <2>2, <3>1, <3>3
  <2>5. CASE ~ (mig.dir = "up" /\ db.stamp = 1) /\ ~ (mig.dir = "down" /\ db.stamp = 2)
    <3>1. (db'.stamp < 2 <=> db.stamp < 2) /\ (db'.stamp >= 2 <=> db.stamp >= 2)
      BY <1>0, <1>6, <2>5, StampStep
    <3>2. ~ Split /\ ~ Renumbered /\ ~ Combined
      BY <1>4, <2>5
    <3>. QED BY <1>1, <2>1, <2>2, <3>1, <3>2
  <2>. QED BY <2>3, <2>4, <2>5
<1>7. CASE \E h \in Holders : Convert(h)
  <2>1. /\ saved' = saved /\ mig'.locks = mig.locks /\ mig'.pos = mig.pos
        /\ mig'.dir = mig.dir /\ db'.stamp = db.stamp /\ db'.runs = db.runs
    BY <1>0, <1>7, ConvertStep
  <2>2. /\ (Split' <=> Split) /\ (Renumbered' <=> Renumbered) /\ (Combined' <=> Combined)
        /\ (Past("down", 2, 3)' <=> Past("down", 2, 3))
    BY <1>3, <2>1 DEF Past
  <2>. QED BY <1>1, <2>1, <2>2
<1>8. CASE Commit \/ Fail \/ Killed
  <2>1. /\ mig'.dir = "idle"
        /\ db' = saved' /\ (saved' = saved \/ (saved' = db /\ mig.pos = 1))
    BY <1>0, <1>8, EndStep DEF Resting
  <2>2. ~ Split' /\ ~ Renumbered' /\ ~ Combined' /\ ~ Past("down", 2, 3)'
    BY <1>4, <2>1
  <2>3. CASE saved' = saved
    BY <1>0, <1>1, <2>1, <2>2, <2>3
  <2>4. CASE saved' = db /\ mig.pos = 1
    <3>1. ~ Split /\ ~ Renumbered /\ ~ Combined
      BY <1>4, <2>4
    <3>. QED BY <1>0, <1>1, <2>1, <2>2, <2>4, <3>1
  <2>. QED BY <2>1, <2>3, <2>4
<1>9. CASE \E t \in Targets, key \in BOOLEAN : Start(t, key)
  <2>1. /\ db' = db /\ saved' = saved /\ mig'.pos = 1 /\ mig.dir = "idle"
    BY <1>0, <1>9, StartStep
  <2>2. ~ Split' /\ ~ Renumbered' /\ ~ Combined' /\ ~ Past("down", 2, 3)'
    BY <1>4, <2>1
  <2>3. ~ Split /\ ~ Renumbered /\ ~ Combined
    BY <1>4, <2>1
  <2>4. db.stamp = saved.stamp
    BY <2>1 DEF Resting
  <2>. QED BY <1>0, <1>1, <2>1, <2>2, <2>3, <2>4
<1>10. CASE Servers
  <2>1. /\ mig' = mig /\ db'.stamp = db.stamp /\ saved'.stamp = saved.stamp
        /\ SameRuns \/ RestartWritten
    BY <1>0, <1>10, ServersStep
  <2>2. /\ (Split' <=> Split) /\ (Renumbered' <=> Renumbered) /\ (Combined' <=> Combined)
        /\ (Past("down", 2, 3)' <=> Past("down", 2, 3))
    BY <1>3, <2>1 DEF Past
  <2>3. CASE SameRuns
    BY <1>1, <2>1, <2>2, <2>3 DEF SameRuns
  <2>4. CASE RestartWritten
    <3>1. PICK f \in Families :
            /\ saved.stamp >= 2 /\ ~ locked
            /\ saved.runs[f] # << >>
            /\ db'.runs = [db.runs EXCEPT ![f] =
                  Append(@, <<saved.runs[f][1][1], Len(saved.runs[f])>>)]
            /\ saved'.runs = [saved.runs EXCEPT ![f] =
                  Append(@, <<saved.runs[f][1][1], Len(saved.runs[f])>>)]
      BY <2>4 DEF RestartWritten, SplitAt
    <3>2. ~ Combined /\ ~ Past("down", 2, 3)
      <4>1. Combined \/ Past("down", 2, 3) => Past("down", 2, 1)
        BY <1>0, <1>3 DEF Past
      <4>. QED BY <1>1, <3>1, <4>1
    <3>3. db.stamp >= 2 /\ ~ (db.stamp < 2)
      BY <1>0, <1>1, <3>1
    <3>4. db.runs = saved.runs /\ Pairs(saved.runs)
      BY <1>1, <3>1, <3>2, <3>3
    <3>5. OK(saved') /\ Pairs(saved'.runs)
      BY <1>1, <3>1, <3>4, AppendPairs
    <3>6. db'.runs = saved'.runs
      BY <3>1, <3>4
    <3>7. ~ Split /\ ~ Renumbered
      BY <1>4, <3>3
    <3>. QED BY <1>0, <2>1, <2>2, <3>1, <3>2, <3>3, <3>5, <3>6, <3>7
  <2>. QED BY <2>1, <2>3, <2>4
<1>11. CASE UNCHANGED vars
  <2>1. db' = db /\ saved' = saved /\ mig' = mig
    BY <1>11 DEF vars
  <2>2. /\ (Split' <=> Split) /\ (Renumbered' <=> Renumbered) /\ (Combined' <=> Combined)
        /\ (Past("down", 2, 3)' <=> Past("down", 2, 3))
    BY <1>3, <2>1 DEF Past
  <2>. QED BY <1>1, <2>1, <2>2
<1>. QED BY <1>5, <1>6, <1>7, <1>8, <1>9, <1>10, <1>11, Steps

(***************************************************************************)
(* Readable secrets                                                        *)
(***************************************************************************)
LEMMA TableIs ==
  ASSUME NEW h \in Holders
  PROVE  \/ Table(h) = "user_" /\ GcmFrom[Table(h)] = 15 /\ FetchOf(Table(h)) = 2
         \/ /\ Table(h) = "interactive_session" /\ GcmFrom[Table(h)] = 17
            /\ FetchOf(Table(h)) = 1
BY DEF Table, GcmFrom, FetchOf

LEMMA ConversionScripts ==
  ASSUME NEW h \in Holders
  PROVE  LET from == GcmFrom[Table(h)]
             n    == FetchOf(Table(h))
         IN /\ ScriptOf("up", from)[n].op = "fetch"
            /\ ScriptOf("up", from)[n].about = Table(h)
            /\ ScriptOf("up", from)[n + 1].op = "convert_to_gcm"
            /\ ScriptOf("down", from)[1].op = "fetch"
            /\ ScriptOf("down", from)[1].about = Table(h)
            /\ ScriptOf("down", from)[2].op = "convert_to_cbc"
<1>1. \A op, t : Rows(op, t).op = op /\ Rows(op, t).about = t
  BY DEF Rows, Statement
<1>2. CASE Table(h) = "user_" /\ GcmFrom[Table(h)] = 15 /\ FetchOf(Table(h)) = 2
  <2>1. /\ ScriptOf("up", 15)[2] = Rows("fetch", "user_")
        /\ ScriptOf("up", 15)[3] = Rows("convert_to_gcm", "user_")
        /\ ScriptOf("down", 15)[1] = Rows("fetch", "user_")
        /\ ScriptOf("down", 15)[2] = Rows("convert_to_cbc", "user_")
    <3>1. \A k : ScriptOf("up", k) = Chain[k].up /\ ScriptOf("down", k) = Chain[k].down
      BY DEF ScriptOf
    <3>. QED BY ONLY <3>1, Named, Zenon
  <2>2. 2 + 1 = 3
    OBVIOUS
  <2>. QED BY ONLY <1>1, <1>2, <2>1, <2>2
<1>3. CASE /\ Table(h) = "interactive_session" /\ GcmFrom[Table(h)] = 17
           /\ FetchOf(Table(h)) = 1
  <2>1. /\ ScriptOf("up", 17)[1] = Rows("fetch", "interactive_session")
        /\ ScriptOf("up", 17)[2] = Rows("convert_to_gcm", "interactive_session")
        /\ ScriptOf("down", 17)[1] = Rows("fetch", "interactive_session")
        /\ ScriptOf("down", 17)[2] = Rows("convert_to_cbc", "interactive_session")
    <3>1. \A k : ScriptOf("up", k) = Chain[k].up /\ ScriptOf("down", k) = Chain[k].down
      BY DEF ScriptOf
    <3>. QED BY ONLY <3>1, Named, Zenon
  <2>2. 1 + 1 = 2
    OBVIOUS
  <2>. QED BY ONLY <1>1, <1>3, <2>1, <2>2
<1>. QED BY <1>2, <1>3, TableIs

\* A statement changes the engine of a table by fetching its secrets.
LEMMA EngineKept ==
  ASSUME MigrationInv, AStatement, NEW h \in Holders,
         ~ (Current.op = "fetch" /\ Current.about = Table(h))
  PROVE  Engine(h)' = Engine(h)
<1>. DEFINE from == GcmFrom[Table(h)]
            n == FetchOf(Table(h))
<1>0. DbTyped /\ mig.pos \in Nat
  BY InvTyped DEF DbTyped, Commands
<1>1. mig'.dir = mig.dir /\ db'.stamp = db.stamp /\ mig'.pos = mig.pos + 1
  BY <1>0, StatementStep
<1>2. from \in 1..19 /\ n \in 1..6
  BY TableIs
<1>3. Next
  BY DEF AStatement, Next, Migration
<1>4. Past("up", from, n)' <=> Past("up", from, n)
  <2>1. Past("up", from, n)' => Past("up", from, n)
    <3>1. Current # ScriptOf("up", from)[n]
      BY ConversionScripts
    <3>. HIDE DEF from, n
    <3>. QED BY <1>2, <1>3, <3>1, PastStep
  <2>2. Past("up", from, n) => Past("up", from, n)'
    <3>. HIDE DEF from
    <3>. QED BY <1>0, <1>1, <1>2 DEF Past
  <2>. QED BY <2>1, <2>2
<1>5. Past("down", from, 1)' <=> Past("down", from, 1)
  <2>1. Past("down", from, 1)' => Past("down", from, 1)
    <3>1. Current # ScriptOf("down", from)[1]
      BY ConversionScripts
    <3>. HIDE DEF from
    <3>. QED BY <1>2, <1>3, <3>1, PastStep
  <2>2. Past("down", from, 1) => Past("down", from, 1)'
    <3>. HIDE DEF from
    <3>. QED BY <1>0, <1>1, <1>2 DEF Past
  <2>. QED BY <2>1, <2>2
<1>. HIDE DEF Past, FetchOf
<1>. QED BY <1>1, <1>4, <1>5 DEF Engine

\* The engine of a table between two scripts is that of the stamp.
LEMMA EngineAtRest ==
  ASSUME NEW h \in Holders, mig.dir = "idle" \/ mig.pos = 1
  PROVE  Engine(h) = IF db.stamp >= GcmFrom[Table(h)] THEN "gcm" ELSE "cbc"
<1>1. ~ Past("down", GcmFrom[Table(h)], 1) /\ ~ Past("up", GcmFrom[Table(h)], FetchOf(Table(h)))
  BY TableIs DEF Past
<1>. QED BY <1>1 DEF Engine

LEMMA EngineStamp ==
  ASSUME MigrationInv, Stamp, NEW h \in Holders
  PROVE  /\ Engine(h)' = Engine(h)
         /\ ~ Converting(Table(h))
<1>. DEFINE from == GcmFrom[Table(h)]
            n == FetchOf(Table(h))
<1>0. DbTyped /\ db.stamp \in Nat /\ mig.pos \in Nat
  BY InvTyped DEF DbTyped, Databases, Commands
<1>1. /\ mig'.dir = mig.dir /\ mig'.pos = 1
      /\ \/ /\ mig.dir = "up" /\ db'.stamp = db.stamp + 1
            /\ mig.pos = Len(Chain[db.stamp + 1].up) + 1
         \/ /\ mig.dir = "down" /\ db'.stamp = db.stamp - 1
            /\ mig.pos = Len(Chain[db.stamp].down) + 1
  BY <1>0, StampStep
<1>2. from \in {15, 17} /\ n \in {1, 2}
  BY TableIs
<1>3. Len(ScriptOf("up", from)) > n /\ Len(ScriptOf("down", from)) >= 2
      /\ Len(ScriptOf("up", from)) \in Nat /\ Len(ScriptOf("down", from)) \in Nat
  <2>1. \/ Len(Chain[15].up) = 5 /\ Len(Chain[15].down) = 6 /\ from = 15 /\ n = 2
        \/ Len(Chain[17].up) = 2 /\ Len(Chain[17].down) = 2 /\ from = 17 /\ n = 1
    BY ScriptLengths, TableIs
  <2>. HIDE DEF from, n
  <2>2. ScriptOf("up", from) = Chain[from].up /\ ScriptOf("down", from) = Chain[from].down
    BY DEF ScriptOf
  <2>3. \/ /\ Len(ScriptOf("up", from)) = 5 /\ Len(ScriptOf("down", from)) = 6
           /\ n = 2
        \/ /\ Len(ScriptOf("up", from)) = 2 /\ Len(ScriptOf("down", from)) = 2
           /\ n = 1
    BY ONLY <2>1, <2>2, Zenon
  <2>. QED BY ONLY <2>3
<1>4. Engine(h) = IF (db.stamp >= from /\ ~ Past("down", from, 1)) \/ Past("up", from, n)
                  THEN "gcm" ELSE "cbc"
  BY Zenon DEF Engine
<1>5. Engine(h)' = IF db'.stamp >= from THEN "gcm" ELSE "cbc"
  <2>1. ~ Past("down", from, 1)' /\ ~ Past("up", from, n)'
    BY <1>1, <1>2 DEF Past
  <2>. QED BY <2>1 DEF Engine
<1>6. Converting(Table(h)) <=> \/ Past("up", from, n) /\ mig.pos = n + 1
                               \/ Past("down", from, 1) /\ mig.pos = 2
  BY Zenon DEF Converting
<1>. HIDE DEF from, n
<1>7. CASE mig.dir = "up" /\ db.stamp + 1 = from
  <2>1. mig.pos = Len(ScriptOf("up", from)) + 1 /\ db'.stamp = from
    BY <1>1, <1>7 DEF ScriptOf
  <2>2. Past("up", from, n) /\ ~ Past("down", from, 1)
    BY <1>0, <1>2, <1>3, <1>7, <2>1 DEF Past
  <2>3. mig.pos # n + 1
    BY <1>2, <1>3, <2>1
  <2>. QED BY <1>2, <1>4, <1>5, <1>6, <2>1, <2>2, <2>3
<1>8. CASE mig.dir = "down" /\ db.stamp = from
  <2>1. mig.pos = Len(ScriptOf("down", from)) + 1 /\ db'.stamp = from - 1
    BY <1>1, <1>8 DEF ScriptOf
  <2>2. Past("down", from, 1) /\ ~ Past("up", from, n)
    BY <1>0, <1>2, <1>3, <1>8, <2>1 DEF Past
  <2>3. mig.pos # 2
    BY <1>3, <2>1
  <2>. QED BY <1>2, <1>4, <1>5, <1>6, <2>1, <2>2, <2>3
<1>9. CASE ~ (mig.dir = "up" /\ db.stamp + 1 = from) /\ ~ (mig.dir = "down" /\ db.stamp = from)
  <2>1. ~ Past("up", from, n) /\ ~ Past("down", from, 1)
    BY <1>0, <1>2, <1>9 DEF Past
  <2>2. db'.stamp >= from <=> db.stamp >= from
    BY <1>0, <1>1, <1>2, <1>9
  <2>. QED BY <1>4, <1>5, <1>6, <2>1, <2>2
<1>. QED BY <1>7, <1>8, <1>9

LEMMA ReadableInit == Init => ReadableInv
<1>. SUFFICES ASSUME Init PROVE ReadableInv
  OBVIOUS
<1>1. PICK runs : db = [stamp |-> 0, catalog |-> FirstCatalog,
                secret |-> [h \in Holders |-> NoSecret],
                digest |-> [u \in Users |-> NoText],
                last |-> [h \in Holders |-> NoText], raced |-> {},
                identity |-> [u \in Users |-> "none"],
                job |-> [j \in Jobs |-> "none"], cached |-> {},
                pending |-> {}, logged |-> {}, runs |-> runs]
  BY Zenon DEF Init
<1>2. saved = db /\ mig.dir = "idle" /\ mig.fetched = NoRows
  BY DEF Init, Idle
<1>3. db.last = [h \in Holders |-> NoText]
  BY <1>1
<1>4. \A h \in Holders : \A e : Readable(db, h, e)
  BY <1>3 DEF Readable
<1>5. \A h \in Holders : Engine(h) = ServerEngine(h)
  BY <1>2, EngineAtRest DEF ServerEngine
<1>. QED BY <1>2, <1>4, <1>5, NoRowsType DEF ReadableInv

\* A statement keeps the secret of a row, or erases it with what was written.
LEMMA SecretKept ==
  ASSUME DbTyped, AStatement, NEW h \in Holders
  PROVE  \/ db'.last[h] = NoText /\ db'.secret[h] = NoSecret
         \/ db'.last[h] = db.last[h] /\ db'.secret[h] = db.secret[h]
<1>1. CASE Current.op # "erase_secrets"
  BY <1>1, RowsKept
<1>2. CASE Current.op = "erase_secrets"
  <2>1. RewriteRows
    BY <1>2 DEF AStatement, Alter, CreateTheCheck, PassCheck, Repair,
                Fetch, AllConverted, Executes, Rewrites
  <2>2. db' = [db EXCEPT !.secret = Erased(@, NoSecret, Current.about),
                         !.last = Erased(@, NoText, Current.about)]
    BY <1>2, <2>1 DEF RewriteRows, Proceed, Rewritten
  <2>3. /\ db'.secret = Erased(db.secret, NoSecret, Current.about)
        /\ db'.last = Erased(db.last, NoText, Current.about)
    <3>1. ASSUME NEW a, NEW b, db' = [db EXCEPT !.secret = a, !.last = b]
          PROVE  db'.secret = a /\ db'.last = b
      BY <3>1 DEF DbTyped, Databases
    <3>. QED BY <2>2, <3>1
  <2>4. h \in DOMAIN db.secret /\ h \in DOMAIN db.last
    BY DEF DbTyped, Databases
  <2>. QED BY <2>3, <2>4 DEF Erased
<1>. QED BY <1>1, <1>2

\* Digests go when the secrets are encrypted with AES-CBC again.
LEMMA DigestKept ==
  ASSUME MigrationInv, AStatement, NEW h \in Users, Engine(h) = "gcm"
  PROVE  db'.digest = db.digest
<1>0. DbTyped /\ Executing
  BY InvTyped, StatementStep
<1>1. CASE Current.op = "erase_digests"
  <2>1. mig.dir = "down" /\ db.stamp = 15 /\ mig.pos = 6
    BY <1>0, <1>1, CurrentIs DEF KnownUp, KnownDown
  <2>2. GcmFrom[Table(h)] = 15 /\ FetchOf(Table(h)) = 2
    BY DEF Table, GcmFrom, FetchOf
  <2>3. Past("down", 15, 1) /\ ~ Past("up", 15, 2)
    BY <2>1 DEF Past
  <2>4. Engine(h) = IF (db.stamp >= 15 /\ ~ Past("down", 15, 1)) \/ Past("up", 15, 2)
                    THEN "gcm" ELSE "cbc"
    BY ONLY <2>2, Zenon DEF Engine
  <2>. QED BY <2>3, <2>4
<1>2. CASE Current.op # "erase_digests"
  BY <1>0, <1>2, RowsKept
<1>. QED BY <1>1, <1>2

LEMMA ConvertingIs ==
  ASSUME NEW h \in Holders, Executing, Converting(Table(h))
  PROVE  /\ Current.op \in {"convert_to_gcm", "convert_to_cbc"}
         /\ Engine(h) = To(Current.op)
<1>. DEFINE from == GcmFrom[Table(h)]
            n == FetchOf(Table(h))
<1>1. \/ Past("up", from, n) /\ mig.pos = n + 1
      \/ Past("down", from, 1) /\ mig.pos = 2
  BY Zenon DEF Converting
<1>2. from \in {15, 17} /\ n \in {1, 2}
  BY TableIs
<1>3. Engine(h) = IF (db.stamp >= from /\ ~ Past("down", from, 1)) \/ Past("up", from, n)
                  THEN "gcm" ELSE "cbc"
  BY Zenon DEF Engine
<1>4. CASE Past("up", from, n) /\ mig.pos = n + 1
  <2>1. Current = ScriptOf("up", from)[n + 1]
    <3>1. mig.dir = "up" /\ db.stamp = from - 1
      BY <1>4 DEF Past
    <3>. HIDE DEF from, n
    <3>2. db.stamp + 1 = from
      BY <1>2, <3>1
    <3>. QED BY <1>4, <3>1, <3>2 DEF Current, Script, ScriptOf
  <2>2. Current.op = "convert_to_gcm"
    BY <2>1, ConversionScripts
  <2>. QED BY <1>3, <1>4, <2>2 DEF To
<1>5. CASE Past("down", from, 1) /\ mig.pos = 2
  <2>0. mig.dir = "down" /\ db.stamp = from
    BY <1>5 DEF Past
  <2>1. Current = ScriptOf("down", from)[2]
    <3>. HIDE DEF from
    <3>. QED BY <1>5, <2>0 DEF Current, Script, ScriptOf
  <2>2. Current.op = "convert_to_cbc"
    BY <2>1, ConversionScripts
  <2>3. ~ Past("up", from, n)
    BY <2>0 DEF Past
  <2>. QED BY <1>3, <1>5, <2>2, <2>3 DEF To
<1>. QED BY <1>1, <1>4, <1>5

LEMMA ReadableStatement ==
  ASSUME MigrationInv, ReadableInv, AStatement
  PROVE  ReadableInv'
<1>0. DbTyped /\ mig.pos \in Nat /\ db.stamp \in Nat
  BY InvTyped DEF DbTyped, Databases, Commands
<1>1. /\ saved' = saved /\ db'.stamp = db.stamp /\ mig'.dir = mig.dir
      /\ mig'.pos = mig.pos + 1 /\ Executing /\ db'.raced = db.raced
  BY <1>0, StatementStep
<1>2. DOMAIN mig.fetched = {}
  <2>1. SUFFICES ASSUME NEW h \in DOMAIN mig.fetched PROVE FALSE
    OBVIOUS
  <2>2. h \in Holders
    BY FetchedTypes DEF MigrationInv
  <2>3. Current.op \in {"convert_to_gcm", "convert_to_cbc"}
    <3>1. Converting(Table(h))
      BY DEF ReadableInv
    <3>. QED BY <1>1, <2>2, <3>1, ConvertingIs
  <2>4. AllConverted
    BY <2>3 DEF AStatement, Alter, CreateTheCheck, PassCheck, Repair, RewriteRows,
                Fetch, Executes, Rewrites
  <2>. QED BY <2>4 DEF AllConverted
<1>. DEFINE Fetches(h) == Current.op = "fetch" /\ Current.about = Table(h)
<1>3. ASSUME NEW h \in Holders PROVE ServerEngine(h)' = ServerEngine(h)
  BY <1>1 DEF ServerEngine
<1>4. ASSUME NEW h \in Holders PROVE Readable(saved', h, ServerEngine(h)')
  BY <1>1, <1>3 DEF ReadableInv
<1>5. ASSUME NEW h \in Holders, h \notin DOMAIN mig'.fetched
      PROVE  Readable(db', h, Engine(h)')
  <2>1. CASE Fetches(h)
    <3>1. db' = db /\ DOMAIN mig'.fetched = SecretRows(Table(h))
      BY <1>0, <2>1, ReadStep
    <3>2. db.secret[h] = NoSecret
      BY <1>5, <3>1 DEF SecretRows
    <3>3. ~ Raced(db, h) => db.last[h] = NoText
      BY <3>2, SecretTypes DEF MigrationInv, SecretsKept
    <3>. QED BY <3>1, <3>3 DEF Readable
  <2>2. CASE ~ Fetches(h)
    <3>1. Engine(h)' = Engine(h)
      BY <2>2, EngineKept
    <3>2. Readable(db, h, Engine(h))
      BY <1>2 DEF ReadableInv
    <3>3. Raced(db', h) <=> Raced(db, h)
      BY <1>1 DEF Raced
    <3>4. h \in Users /\ Engine(h) = "gcm" => db'.digest = db.digest
      BY DigestKept
    <3>. HIDE DEF Engine
    <3>. QED BY <1>0, <3>1, <3>2, <3>3, <3>4, SecretKept DEF Readable
  <2>. QED BY <2>1, <2>2
<1>6. ASSUME NEW h \in DOMAIN mig'.fetched PROVE Converting(Table(h))'
  <2>1. Current.op = "fetch" /\ h \in SecretRows(Current.about)
    BY <1>0, ReadStep, NoRowsType
  <2>2. h \in Holders /\ Table(h) = Current.about
    BY <2>1 DEF SecretRows
  <2>. DEFINE from == GcmFrom[Table(h)]
              n == FetchOf(Table(h))
  <2>3. \/ mig.dir = "up" /\ db.stamp + 1 = from /\ mig.pos = n
        \/ mig.dir = "down" /\ db.stamp = from /\ mig.pos = 1
    BY <1>0, <1>1, <2>1, <2>2, CurrentIs DEF KnownUp, KnownDown, GcmFrom, FetchOf
  <2>4. from \in {15, 17} /\ n \in {1, 2}
    BY <2>2, TableIs
  <2>. HIDE DEF from, n
  <2>5. \/ Past("up", from, n)' /\ mig'.pos = n + 1
        \/ Past("down", from, 1)' /\ mig'.pos = 2
    BY <1>0, <1>1, <2>3, <2>4 DEF Past
  <2>. QED BY <2>5 DEF Converting, from, n
<1>7. ASSUME NEW h \in Holders, Engine(h)' # ServerEngine(h)'
      PROVE  Table(h) \in mig'.read
  <2>1. CASE Fetches(h)
    BY <1>0, <2>1, ReadStep
  <2>2. CASE ~ Fetches(h)
    <3>1. Engine(h) # ServerEngine(h)
      BY <1>3, <1>7, <2>2, EngineKept
    <3>2. Table(h) \in mig.read
      BY <3>1 DEF ReadableInv
    <3>. QED BY <1>0, <3>2, ReadStep
  <2>. QED BY <2>1, <2>2
<1>. QED BY <1>4, <1>5, <1>6, <1>7 DEF ReadableInv

LEMMA ReadableConvert ==
  ASSUME MigrationInv, ReadableInv, NEW h \in Holders, Convert(h)
  PROVE  ReadableInv'
<1>. DEFINE text == mig.fetched[h].text
            code == Encrypted(To(Current.op), text)
            digest == IF h \in Users /\ To(Current.op) = "gcm"
                      THEN [db.digest EXCEPT ![h] = text] ELSE db.digest
            rest == [g \in DOMAIN mig.fetched \ {h} |-> mig.fetched[g]]
<1>0. DbTyped
  BY InvTyped
<1>1. /\ saved' = saved /\ mig'.dir = mig.dir /\ mig'.pos = mig.pos
      /\ mig'.read = mig.read /\ db'.stamp = db.stamp /\ db'.raced = db.raced
      /\ db'.last = db.last /\ Executing
  BY <1>0, ConvertStep
<1>2. /\ h \in DOMAIN mig.fetched
      /\ db' = [db EXCEPT !.secret[h] = code, !.digest = digest]
      /\ mig' = [mig EXCEPT !.converted = mig.converted \cup {h}, !.fetched = rest]
  BY DEF Convert
<1>3. /\ db'.secret = [db.secret EXCEPT ![h] = code] /\ db'.digest = digest
      /\ mig'.fetched = rest
  BY <1>0, <1>2 DEF DbTyped, Databases, Commands
<1>4. \A g \in Holders : /\ Engine(g)' = Engine(g) /\ ServerEngine(g)' = ServerEngine(g)
                         /\ Converting(Table(g))' = Converting(Table(g))
  BY <1>1 DEF Engine, ServerEngine, Converting, Past
<1>5. Engine(h) = To(Current.op)
  <2>1. Converting(Table(h))
    BY <1>2 DEF ReadableInv
  <2>. QED BY <1>1, <2>1, ConvertingIs
<1>6. ~ Raced(db, h) => text = db.last[h]
  BY <1>2 DEF MigrationInv, FetchedCurrent
<1>7. \A g \in Holders : Raced(db', g) <=> Raced(db, g)
  BY <1>1 DEF Raced
<1>8. /\ DOMAIN db.secret = Holders /\ DOMAIN db.digest = Users
  BY <1>0 DEF DbTyped, Databases
<1>9. Readable(db', h, Engine(h)')
  <2>1. db'.secret[h] = Encrypted(Engine(h), text)
    BY <1>3, <1>5, <1>8
  <2>2. h \in Users /\ Engine(h) = "gcm" => db'.digest[h] = text
    BY <1>3, <1>5, <1>8
  <2>. HIDE DEF text, Engine
  <2>. QED BY <1>1, <1>4, <1>6, <1>7, <2>1, <2>2 DEF Readable
<1>10. ASSUME NEW g \in Holders, g # h, g \notin DOMAIN rest
       PROVE  Readable(db', g, Engine(g)')
  <2>1. g \notin DOMAIN mig.fetched
    BY <1>10
  <2>2. Readable(db, g, Engine(g))
    BY <2>1 DEF ReadableInv
  <2>3. db'.secret[g] = db.secret[g] /\ (g \in Users => db'.digest[g] = db.digest[g])
    BY <1>3, <1>8, <1>10
  <2>. HIDE DEF Engine
  <2>. QED BY <1>1, <1>4, <1>7, <2>2, <2>3 DEF Readable
<1>11. \A g \in Holders : Readable(saved', g, ServerEngine(g)')
  BY <1>1, <1>4 DEF ReadableInv
<1>12. \A g \in DOMAIN rest : Converting(Table(g))'
  <2>1. \A g \in DOMAIN mig.fetched : g \in Holders /\ Converting(Table(g))
    BY FetchedTypes DEF MigrationInv, ReadableInv
  <2>. QED BY <1>4, <2>1
<1>13. \A g \in Holders : Engine(g)' # ServerEngine(g)' => Table(g) \in mig'.read
  BY <1>1, <1>4 DEF ReadableInv
<1>. HIDE DEF rest
<1>. QED BY <1>3, <1>9, <1>10, <1>11, <1>12, <1>13 DEF ReadableInv

\* What a server's write to a row of secrets leaves.
LEMMA SecretWrite ==
  ASSUME DbTyped, NEW h \in Holders, NEW x \in Texts \cup {NoText}, WriteSecret(h, x)
  PROVE  LET others == {h} \X Directions
             now == IF Table(h) \in mig.read THEN {<<h, mig.dir>>} ELSE {}
             code == IF x = NoText THEN NoSecret ELSE Encrypted(ServerEngine(h), x)
             digest(d) == IF h \in Users /\ ServerEngine(h) = "gcm"
                          THEN [d.digest EXCEPT ![h] = x] ELSE d.digest
         IN /\ mig' = mig
            /\ saved'.stamp = saved.stamp /\ saved'.raced = saved.raced \ others
            /\ saved'.secret = [saved.secret EXCEPT ![h] = code]
            /\ saved'.last = [saved.last EXCEPT ![h] = x]
            /\ saved'.digest = digest(saved)
            /\ db'.stamp = db.stamp /\ db'.raced = (db.raced \ others) \cup now
            /\ db'.secret = [db.secret EXCEPT ![h] = code]
            /\ db'.last = [db.last EXCEPT ![h] = x]
            /\ db'.digest = digest(db)
<1>. DEFINE others == {h} \X Directions
            now == IF Table(h) \in mig.read THEN {<<h, mig.dir>>} ELSE {}
            code == IF x = NoText THEN NoSecret ELSE Encrypted(ServerEngine(h), x)
            digest(d) == IF h \in Users /\ ServerEngine(h) = "gcm"
                         THEN [d.digest EXCEPT ![h] = x] ELSE d.digest
            W(d, r) == [d EXCEPT !.secret[h] = code, !.last[h] = x,
                                 !.digest = digest(d), !.raced = r]
<1>0. db \in Databases(db) /\ saved \in Databases(saved) /\ mig \in Commands(mig)
  BY DEF DbTyped
<1>1. /\ saved' = [WithSecret(saved, h, x) EXCEPT !.raced = @ \ others]
      /\ db' = [WithSecret(db, h, x) EXCEPT !.raced = (@ \ others) \cup now]
      /\ mig' = mig
  BY DEF WriteSecret, Write
<1>2. /\ [WithSecret(saved, h, x) EXCEPT !.raced = @ \ others]
           = W(saved, saved.raced \ others)
      /\ [WithSecret(db, h, x) EXCEPT !.raced = (@ \ others) \cup now]
           = W(db, (db.raced \ others) \cup now)
  <2>. HIDE DEF others, now
  <2>. QED BY <1>0 DEF WithSecret, Databases
<1>3. ASSUME NEW d, NEW r, d \in Databases(d)
      PROVE  /\ W(d, r).stamp = d.stamp /\ W(d, r).raced = r
             /\ W(d, r).secret = [d.secret EXCEPT ![h] = code]
             /\ W(d, r).last = [d.last EXCEPT ![h] = x]
             /\ W(d, r).digest = digest(d)
  <2>. HIDE DEF code, digest
  <2>. QED BY <1>3 DEF Databases
<1>4. /\ saved' = W(saved, saved.raced \ others)
      /\ db' = W(db, (db.raced \ others) \cup now)
  BY ONLY <1>1, <1>2
<1>5. /\ saved'.stamp = saved.stamp /\ saved'.raced = saved.raced \ others
      /\ saved'.secret = [saved.secret EXCEPT ![h] = code]
      /\ saved'.last = [saved.last EXCEPT ![h] = x]
      /\ saved'.digest = digest(saved)
      /\ db'.stamp = db.stamp /\ db'.raced = (db.raced \ others) \cup now
      /\ db'.secret = [db.secret EXCEPT ![h] = code]
      /\ db'.last = [db.last EXCEPT ![h] = x]
      /\ db'.digest = digest(db)
  <2>. HIDE DEF W, others, now, code, digest
  <2>. QED BY <1>0, <1>3, <1>4
<1>. QED BY ONLY <1>1, <1>5

\* What a server writes it can read, and so can the transaction, unless it has
\* read the table before.
LEMMA ReadableWrite ==
  ASSUME MigrationInv, ReadableInv, NEW h \in Holders, NEW x \in Texts \cup {NoText},
         WriteSecret(h, x)
  PROVE  ReadableInv'
<1>. DEFINE others == {h} \X Directions
            now == IF Table(h) \in mig.read THEN {<<h, mig.dir>>} ELSE {}
            code == IF x = NoText THEN NoSecret ELSE Encrypted(ServerEngine(h), x)
            digest(d) == IF h \in Users /\ ServerEngine(h) = "gcm"
                         THEN [d.digest EXCEPT ![h] = x] ELSE d.digest
<1>0. db \in Databases(db) /\ saved \in Databases(saved) /\ mig \in Commands(mig)
  BY DEF MigrationInv, TypeOK
<1>1. /\ mig' = mig
      /\ saved'.stamp = saved.stamp /\ saved'.raced = saved.raced \ others
      /\ saved'.secret = [saved.secret EXCEPT ![h] = code]
      /\ saved'.last = [saved.last EXCEPT ![h] = x]
      /\ saved'.digest = digest(saved)
      /\ db'.stamp = db.stamp /\ db'.raced = (db.raced \ others) \cup now
      /\ db'.secret = [db.secret EXCEPT ![h] = code]
      /\ db'.last = [db.last EXCEPT ![h] = x]
      /\ db'.digest = digest(db)
  <2>1. DbTyped
    BY InvTyped
  <2>. QED BY <2>1, SecretWrite
<1>2. \A g \in Holders : /\ Engine(g)' = Engine(g) /\ ServerEngine(g)' = ServerEngine(g)
                         /\ Converting(Table(g))' = Converting(Table(g))
  BY <1>1 DEF Engine, ServerEngine, Converting, Past
<1>3. /\ DOMAIN db.secret = Holders /\ DOMAIN db.digest = Users /\ DOMAIN db.last = Holders
      /\ DOMAIN saved.secret = Holders /\ DOMAIN saved.digest = Users
      /\ DOMAIN saved.last = Holders
  BY <1>0 DEF Databases
<1>4. ASSUME NEW g \in Holders, g # h
      PROVE  /\ \A e : Readable(saved, g, e) => Readable(saved', g, e)
             /\ \A e : Readable(db, g, e) => Readable(db', g, e)
  <2>1. /\ Raced(saved', g) <=> Raced(saved, g)
        /\ Raced(db', g) <=> Raced(db, g)
    BY <1>1, <1>4 DEF Raced
  <2>2. /\ saved'.secret[g] = saved.secret[g] /\ saved'.last[g] = saved.last[g]
        /\ db'.secret[g] = db.secret[g] /\ db'.last[g] = db.last[g]
        /\ g \in Users => db'.digest[g] = db.digest[g] /\ saved'.digest[g] = saved.digest[g]
    BY <1>1, <1>3, <1>4
  <2>. QED BY <2>1, <2>2 DEF Readable
<1>5. /\ Readable(saved', h, ServerEngine(h))
      /\ Readable(db', h, ServerEngine(h))
  <2>1. /\ saved'.secret[h] = code /\ saved'.last[h] = x
        /\ db'.secret[h] = code /\ db'.last[h] = x
        /\ h \in Users /\ ServerEngine(h) = "gcm" => db'.digest[h] = x /\ saved'.digest[h] = x
    BY <1>1, <1>3
  <2>2. x # NoText => code = Encrypted(ServerEngine(h), x)
    OBVIOUS
  <2>. HIDE DEF code
  <2>. QED BY <2>1, <2>2 DEF Readable
<1>6. Readable(db', h, Engine(h))
  <2>1. CASE Table(h) \in mig.read
    <3>1. mig.dir \in Directions
      BY <1>0, <2>1 DEF MigrationInv, Course, Commands
    <3>2. <<h, mig.dir>> \in db'.raced
      BY <1>1, <2>1
    <3>. QED BY <3>1, <3>2 DEF Readable, Raced
  <2>2. CASE Table(h) \notin mig.read
    <3>1. Engine(h) = ServerEngine(h)
      BY <2>2 DEF ReadableInv
    <3>. QED BY <1>5, <3>1
  <2>. QED BY <2>1, <2>2
<1>. HIDE DEF Engine, ServerEngine
<1>7. \A g \in Holders : Readable(saved', g, ServerEngine(g)')
  BY <1>2, <1>4, <1>5 DEF ReadableInv
<1>8. \A g \in Holders \ DOMAIN mig'.fetched : Readable(db', g, Engine(g)')
  BY <1>1, <1>2, <1>4, <1>6 DEF ReadableInv
<1>9. \A g \in DOMAIN mig'.fetched : Converting(Table(g))'
  <2>1. \A g \in DOMAIN mig.fetched : g \in Holders /\ Converting(Table(g))
    BY FetchedTypes DEF MigrationInv, ReadableInv
  <2>. QED BY <1>1, <1>2, <2>1
<1>10. \A g \in Holders : Engine(g)' # ServerEngine(g)' => Table(g) \in mig'.read
  BY <1>1, <1>2 DEF ReadableInv
<1>. QED BY <1>7, <1>8, <1>9, <1>10 DEF ReadableInv

\* At rest the two engines are one, and nothing is waiting to be converted.
LEMMA ReadableAtRest ==
  ASSUME ReadableInv, MigrationInv, mig.dir = "idle" \/ mig.pos = 1
  PROVE  DOMAIN mig.fetched = {}
<1>1. SUFFICES ASSUME NEW h \in DOMAIN mig.fetched PROVE FALSE
  OBVIOUS
<1>2. h \in Holders /\ Converting(Table(h))
  BY FetchedTypes DEF MigrationInv, ReadableInv
<1>. QED BY <1>2, TableIs DEF Converting, Past

LEMMA ReadableStep ==
  ASSUME MigrationInv, Resting, ReadableInv, [Next]_vars
  PROVE  ReadableInv'
<1>0. DbTyped
  BY InvTyped
<1>1. CASE AStatement
  BY <1>1, ReadableStatement
<1>2. CASE \E h \in Holders : Convert(h)
  BY <1>2, ReadableConvert
<1>3. CASE Stamp
  <2>1. /\ saved' = saved /\ mig'.fetched = mig.fetched /\ mig'.read = mig.read
        /\ db'.raced = db.raced /\ db'.last = db.last
        /\ db'.secret = db.secret /\ db'.digest = db.digest
    BY <1>0, <1>3, StampStep
  <2>2. \A h \in Holders : /\ Engine(h)' = Engine(h) /\ ServerEngine(h)' = ServerEngine(h)
                           /\ ~ Converting(Table(h))
    BY <1>3, <2>1, EngineStamp DEF ServerEngine
  <2>3. DOMAIN mig.fetched = {}
    BY <2>2, FetchedTypes DEF MigrationInv, ReadableInv
  <2>4. \A h \in Holders : \A e : Readable(db', h, e) = Readable(db, h, e)
    BY <2>1 DEF Readable, Raced
  <2>. HIDE DEF Engine, ServerEngine
  <2>. QED BY <2>1, <2>2, <2>3, <2>4 DEF ReadableInv
<1>4. CASE \/ Commit \/ Fail \/ Killed
           \/ \E t \in Targets, key \in BOOLEAN : Start(t, key)
  <2>1. /\ mig'.pos = 1 /\ mig'.fetched = NoRows
        /\ db'.stamp = saved'.stamp
    BY <1>0, <1>4, EndStep, StartStep DEF Resting
  <2>2. \A h \in Holders : Engine(h)' = ServerEngine(h)'
    <3>1. ASSUME NEW h \in Holders
          PROVE  Engine(h)' = IF db'.stamp >= GcmFrom[Table(h)] THEN "gcm" ELSE "cbc"
      <4>1. ~ Past("down", GcmFrom[Table(h)], 1)'
            /\ ~ Past("up", GcmFrom[Table(h)], FetchOf(Table(h)))'
        BY <2>1, TableIs DEF Past
      <4>. QED BY <4>1 DEF Engine
    <3>. QED BY <2>1, <3>1 DEF ServerEngine
  <2>3. CASE db' = saved /\ saved' = saved
    <3>1. \A h \in Holders : ServerEngine(h)' = ServerEngine(h)
      BY <2>3 DEF ServerEngine
    <3>. HIDE DEF Engine, ServerEngine
    <3>. QED BY <2>1, <2>2, <2>3, <3>1, NoRowsType DEF ReadableInv
  <2>4. CASE db' = db /\ (mig.pos = 1 \/ mig.dir = "idle") /\ (saved' = db \/ saved' = saved)
    <3>1. DOMAIN mig.fetched = {}
      BY <2>4, ReadableAtRest
    <3>2. \A h \in Holders : Engine(h)' = Engine(h)
      <4>1. \A h \in Holders : Engine(h) = IF db.stamp >= GcmFrom[Table(h)] THEN "gcm" ELSE "cbc"
        BY <2>4, EngineAtRest
      <4>2. \A h \in Holders : ServerEngine(h)' = IF db.stamp >= GcmFrom[Table(h)] THEN "gcm" ELSE "cbc"
        BY <2>1, <2>4 DEF ServerEngine
      <4>. QED BY <2>2, <4>1, <4>2
    <3>3. \A h \in Holders : Readable(db', h, Engine(h)')
      BY <2>4, <3>1, <3>2 DEF ReadableInv
    <3>4. \A h \in Holders : Readable(saved', h, ServerEngine(h)')
      <4>1. CASE saved' = db
        BY <2>2, <2>4, <3>3, <4>1
      <4>2. CASE saved' = saved
        BY <4>2 DEF ReadableInv, ServerEngine
      <4>. QED BY <2>4, <4>1, <4>2
    <3>. HIDE DEF Engine, ServerEngine
    <3>. QED BY <2>1, <2>2, <3>3, <3>4, NoRowsType DEF ReadableInv
  <2>5. \/ db' = saved /\ saved' = saved
        \/ db' = db /\ (mig.pos = 1 \/ mig.dir = "idle") /\ (saved' = db \/ saved' = saved)
    BY <1>0, <1>4, EndStep, StartStep DEF Resting
  <2>. QED BY <2>3, <2>4, <2>5
<1>5. CASE Servers
  <2>1. CASE SecretWritten
    BY <2>1, ReadableWrite DEF SecretWritten
  <2>2. CASE SameSecrets
    <3>1. mig' = mig /\ db'.stamp = db.stamp /\ saved'.stamp = saved.stamp
      BY <1>0, <1>5, ServersStep
    <3>2. \A h \in Holders : /\ Engine(h)' = Engine(h) /\ ServerEngine(h)' = ServerEngine(h)
                             /\ Converting(Table(h))' = Converting(Table(h))
      BY <3>1 DEF Engine, ServerEngine, Converting, Past
    <3>3. \A h \in Holders : \A e : /\ Readable(db', h, e) = Readable(db, h, e)
                                    /\ Readable(saved', h, e) = Readable(saved, h, e)
      BY <2>2 DEF SameSecrets, Readable, Raced
    <3>4. \A h \in DOMAIN mig.fetched : h \in Holders
      BY FetchedTypes DEF MigrationInv
    <3>. HIDE DEF Engine, ServerEngine, Converting
    <3>. QED BY <3>1, <3>2, <3>3, <3>4 DEF ReadableInv
  <2>. QED BY <1>0, <1>5, <2>1, <2>2, ServersStep
<1>6. CASE UNCHANGED vars
  <2>1. db' = db /\ saved' = saved /\ mig' = mig
    BY <1>6 DEF vars
  <2>2. \A h \in Holders : /\ Engine(h)' = Engine(h) /\ ServerEngine(h)' = ServerEngine(h)
                           /\ Converting(Table(h))' = Converting(Table(h))
    BY <2>1 DEF Engine, ServerEngine, Converting, Past
  <2>3. \A h \in DOMAIN mig.fetched : h \in Holders
    BY FetchedTypes DEF MigrationInv
  <2>. HIDE DEF Engine, ServerEngine, Converting
  <2>. QED BY <2>1, <2>2, <2>3 DEF ReadableInv
<1>. QED BY <1>1, <1>2, <1>3, <1>4, <1>5, <1>6, Steps

(***************************************************************************)
(* The theorems                                                            *)
(***************************************************************************)
ChainInv ==
  /\ MigrationInv /\ Resting
  /\ WebhookLocked /\ ChecksInv /\ IdentitiesInv
  /\ JobsInv /\ PendingInv /\ RunsInv /\ ReadableInv

LEMMA ChainStep == ChainInv /\ [Next]_vars => ChainInv'
<1>. SUFFICES ASSUME ChainInv, [Next]_vars PROVE ChainInv'
  OBVIOUS
<1>. USE DEF ChainInv
<1>1. MigrationInv' /\ Resting'
  BY NextInv, RestingStep
<1>2. WebhookLocked' /\ ChecksInv' /\ IdentitiesInv'
  BY WebhookStep, ChecksStep, IdentitiesStep
<1>3. JobsInv' /\ PendingInv' /\ RunsInv' /\ ReadableInv'
  BY JobsStep, PendingStep, RunsStep, ReadableStep
<1>. QED BY <1>1, <1>2, <1>3

\* What the revisions of the chain keep at every statement, under every
\* interleaving with the servers, failure and crash.
THEOREM ChainHolds == Spec => []ChainInv
<1>1. Init => ChainInv
  BY InitInv, RestingInit, WebhookInit, ChecksInit, IdentitiesInit, RowsInit,
     RunsInit, ReadableInit DEF ChainInv
<1>. QED BY <1>1, ChainStep, PTL DEF Spec

\* 8ae7b67c2d41 and e940248e5165: whatever command ended last, and however,
\* servers of the stamped release decrypt every secret that was not written
\* beneath a conversion, and find a webhook secret by its digest.
THEOREM ServersRead == Spec => []SecretsReadable
<1>1. ChainInv => SecretsReadable
  BY DEF ChainInv, ReadableInv, Readable, SecretsReadable
<1>. QED BY <1>1, ChainHolds, PTL

\* 8ae7b67c2d41 adds its column before it selects: no webhook secret is ever
\* written beneath its upgrade.
THEOREM WebhookNotRaced == Spec => []WebhookUpgradeNotRaced
<1>1. ChainInv => WebhookUpgradeNotRaced
  BY DEF ChainInv, WebhookLocked, NotRaced, WebhookUpgradeNotRaced
<1>. QED BY <1>1, ChainHolds, PTL

\* 3f6c0d2a1b7e leaves one check with the ORM's name, whatever names earlier
\* releases had shipped, and no later revision disturbs it.
THEOREM OneCheckLeft == Spec => []ChecksConverge
<1>1. ASSUME ChainInv PROVE ChecksConverge
  <2>1. SUFFICES ASSUME saved.stamp >= RepairedAt,
                        NEW c \in {<<"user_", Identity>>, <<"user_resource", Months>>}
                 PROVE  Variants(c[1], c[2], 0..2) \cap saved.catalog = {<<c[1], c[2], 1>>}
    BY DEF ChecksConverge
  <2>2. /\ Repaired(saved, "user_resource", Months)
        /\ Repaired(saved, "user_", Identity)
    BY <1>1, <2>1 DEF ChainInv, ChecksInv
  <2>3. CASE c = <<"user_", Identity>>
    <3>1. c[1] = "user_" /\ c[2] = Identity
      BY ONLY <2>3
    <3>. QED BY ONLY <2>2, <3>1, Zenon DEF Repaired, Checks
  <2>4. CASE c = <<"user_resource", Months>>
    <3>1. c[1] = "user_resource" /\ c[2] = Months
      BY ONLY <2>4
    <3>. QED BY ONLY <2>2, <3>1, Zenon DEF Repaired, Checks
  <2>. QED BY <2>3, <2>4
<1>. QED BY <1>1, ChainHolds, PTL

\* 972826f7f99f and 3f6c0d2a1b7e: where the check of the identities exists, or
\* the repair has run, no user has half an identity, whatever servers wrote
\* between the count and the check.
THEOREM NoHalfIdentity == Spec => []IdentitiesComplete
<1>1. ASSUME ChainInv PROVE IdentitiesComplete
  <2>1. saved.stamp >= RepairedAt => Checks(saved, "user_", Identity) # {}
    BY <1>1 DEF ChainInv, ChecksInv, Repaired
  <2>2. Checks(saved, "user_", Identity) # {} => Complete(saved)
    BY <1>1 DEF ChainInv, IdentitiesInv
  <2>. QED BY <2>1, <2>2 DEF IdentitiesComplete, Checks, Complete
<1>. QED BY <1>1, ChainHolds, PTL

\* b85c3e601de4 gives the k-th restart of run n the number n.k, of however many
\* restarts, and never gives two runs one number, in either direction.
THEOREM EveryRestartInPlace == Spec => []RestartsKeepTheirPlace
<1>1. ASSUME ChainInv PROVE RestartsKeepTheirPlace
  <2>1. RunsTyped(saved.runs) /\ Distinct(saved.runs)
    BY <1>1 DEF ChainInv, RunsInv
  <2>2. ASSUME saved.stamp >= SplitAt, NEW f \in Families, NEW k \in DOMAIN saved.runs[f]
        PROVE  saved.runs[f][k] = <<saved.runs[f][1][1], k - 1>>
    <3>1. Pairs(saved.runs)
      BY <1>1, <2>2 DEF ChainInv, RunsInv
    <3>2. PICK n \in Nat : \A i \in DOMAIN saved.runs[f] : saved.runs[f][i] = <<n, i - 1>>
      BY <3>1 DEF Pairs
    <3>3. 1 \in DOMAIN saved.runs[f]
      BY <2>1, RunsDomains
    <3>4. saved.runs[f][1] = <<n, 1 - 1>>
      BY <3>2, <3>3
    <3>5. saved.runs[f][1][1] = n
      BY ONLY <3>4
    <3>. QED BY <3>2, <3>5
  <2>. QED BY <2>1, <2>2 DEF RestartsKeepTheirPlace
<1>. QED BY <1>1, ChainHolds, PTL

\* 86435bb00714: with its foreign key every job has its workflow, and at any
\* time a cached job exists.
THEOREM EveryJobBelongs == Spec => []JobsBelong
<1>1. ASSUME ChainInv PROVE JobsBelong
  <2>1. /\ saved.stamp >= JobKeyAt => No(saved, "null") /\ No(saved, "orphan")
        /\ CacheOK(saved)
    BY <1>1 DEF ChainInv, JobsInv
  <2>. QED BY <2>1 DEF JobsBelong, No, CacheOK
<1>. QED BY <1>1, ChainHolds, PTL

\* 377cfbfccf75: a release that does not know pending rules never finds one, nor
\* a log entry about one.
THEOREM NoUnknownStatus == Spec => []PendingIsKnown
<1>1. ASSUME ChainInv PROVE PendingIsKnown
  <2>1. saved.stamp < PendingAt => saved.pending = {} /\ saved.logged = {}
    BY <1>1 DEF ChainInv, PendingInv
  <2>. QED BY <2>1 DEF PendingIsKnown
<1>. QED BY <1>1, ChainHolds, PTL
=============================================================================
