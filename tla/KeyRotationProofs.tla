-------------------------- MODULE KeyRotationProofs --------------------------
(***************************************************************************)
(* Proofs of the safety properties of KeyRotation, for any sets of rows,   *)
(* secrets, rotations and servers.  Each part of the inductive invariant   *)
(* IInv is shown to be preserved by a lemma of its own, with one step per  *)
(* action of KeyRotation.                                                  *)
(***************************************************************************)
EXTENDS KeyRotation, TLAPS

\* A column is NULL exactly when there is no secret in it.
LEMMA ColumnFacts ==
  \A c \in Columns : /\ c.plain \in Secrets \cup {NoSecret}
                     /\ c = Null <=> c.plain = NoSecret
                     /\ c # Null => c.key \in Keys
  BY SecretsAssumption DEF Columns, Ciphertexts, Null

\* Encryption keeps the plaintext, and NULL.
LEMMA EncryptFacts ==
  \A k \in Keys, v \in Secrets \cup {NoSecret} :
    /\ Encrypt(k, v) \in Columns
    /\ Encrypt(k, v).plain = v
    /\ Encrypt(k, v) = Null <=> v = NoSecret
    /\ v # NoSecret => Encrypt(k, v).key = k
  BY SecretsAssumption DEF Columns, Ciphertexts, Null, Encrypt

\* The row written by the setter of the secret.
LEMMA RowFacts ==
  \A r \in Rows, k \in Keys, v \in Secrets \cup {NoSecret} :
    /\ Row(r, k, v) \in RowValues
    /\ Row(r, k, v) # Untouched
    /\ Row(r, k, v).col = Encrypt(k, v)
    /\ r \in Users => Row(r, k, v).digest = v
  BY EncryptFacts, UntouchedAssumption DEF Row, Digest, RowValues

\* The row written by a rotation.
LEMMA ReEncryptedFacts ==
  \A k \in Keys, v \in Secrets \cup {NoSecret}, d \in Secrets \cup {NoSecret} :
    /\ [col |-> Encrypt(k, v), digest |-> d] \in RowValues
    /\ [col |-> Encrypt(k, v), digest |-> d] # Untouched
  BY EncryptFacts, UntouchedAssumption DEF RowValues

\* The parts of a row have the types of the columns.
LEMMA RowValuesFacts ==
  \A x \in RowValues : x.col \in Columns /\ x.digest \in Secrets \cup {NoSecret}
  BY DEF RowValues

\* A step keeps the type of every variable.
LEMMA TypeInductive ==
  ASSUME TypeOK, [Next]_vars
  PROVE  TypeOK'
<1>. USE RowsAssumption, ProcsAssumption
         DEF TypeOK, Procs, RotatorPCs, ServerPCs, Keys, AtRow
<1>1. ASSUME NEW p \in Rotators, FetchUserIds(p) PROVE TypeOK'
  BY <1>1 DEF FetchUserIds, Rows
<1>2. ASSUME NEW p \in Rotators, FetchSessionIds(p) PROVE TypeOK'
  BY <1>2 DEF FetchSessionIds, Rows
<1>3. ASSUME NEW p \in Rotators, NEW x \in Rows, Visit(p, x) PROVE TypeOK'
  BY <1>3 DEF Visit, NextIds
<1>4. ASSUME NEW p \in Rotators, SelectForUpdate(p) PROVE TypeOK'
  <2>1. cur[p] \in Rows
    BY <1>4 DEF SelectForUpdate
  <2>2. table[cur[p]].col.plain \in Secrets \cup {NoSecret}
    BY <2>1, RowValuesFacts, ColumnFacts
  <2>3. val' \in [Procs -> Secrets \cup {NoSecret}]
    BY <1>4, <2>2 DEF SelectForUpdate
  <2>4. pc' \in [Procs -> RotatorPCs \cup ServerPCs] /\ pc'[p] \in RotatorPCs
    BY <1>4 DEF SelectForUpdate
  <2>. QED
    BY <1>4, <2>1, <2>3, <2>4 DEF SelectForUpdate, Acquire
<1>5. ASSUME NEW p \in Rotators, ReEncrypt(p) PROVE TypeOK'
  BY <1>5, ReEncryptedFacts, RowValuesFacts DEF ReEncrypt, Acquire, Lockable
<1>6. ASSUME NEW p \in Rotators, SkipRotated(p) PROVE TypeOK'
  BY <1>6 DEF SkipRotated, Acquire, Lockable
<1>7. ASSUME NEW p \in Rotators, Undecryptable(p) PROVE TypeOK'
  BY <1>7 DEF Undecryptable, Fail, Rollback, EndTransaction
<1>8. ASSUME NEW p \in Rotators, CommitRotation(p) PROVE TypeOK'
  BY <1>8 DEF CommitRotation, WriteBack, EndTransaction
<1>9. ASSUME NEW p \in Rotators, DeadlockVictim(p) PROVE TypeOK'
  BY <1>9 DEF DeadlockVictim, Fail, Rollback, EndTransaction
<1>10. ASSUME NEW p \in Rotators, CrashRotation(p) PROVE TypeOK'
  BY <1>10 DEF CrashRotation, Fail, Rollback, EndTransaction
<1>11. ASSUME NEW p \in Servers, NEW x \in Rows, Request(p, x) PROVE TypeOK'
  BY <1>11 DEF Request
<1>12. ASSUME NEW p \in Servers, Renew(p) PROVE TypeOK'
  BY <1>12, RowFacts DEF Renew, Acquire, Lockable, SetSecret
<1>13. ASSUME NEW p \in Servers, Clear(p) PROVE TypeOK'
  BY <1>13, RowFacts DEF Clear, Acquire, Lockable, SetSecret
<1>14. ASSUME NEW p \in Servers, LockAndRead(p) PROVE TypeOK'
  BY <1>14, RowValuesFacts, ColumnFacts DEF LockAndRead, Acquire, Lockable
<1>15. ASSUME NEW p \in Servers, ReturnOrCreate(p) PROVE TypeOK'
  <2>1. CASE UNCHANGED <<val, staged>>
    BY <1>15, <2>1 DEF ReturnOrCreate
  <2>2. ASSUME NEW v \in Secrets, SetSecret(p, cur[p], v), val' = [val EXCEPT ![p] = v]
        PROVE  TypeOK'
    <3>1. cur[p] \in Rows /\ Row(cur[p], key[p], v) \in RowValues
      BY <1>15, RowFacts DEF ReturnOrCreate
    <3>. QED
      BY <1>15, <2>2, <3>1 DEF ReturnOrCreate, SetSecret
  <2>. QED
    BY <1>15, <2>1, <2>2 DEF ReturnOrCreate
<1>16. ASSUME NEW p \in Servers, CommitRequest(p) PROVE TypeOK'
  BY <1>16 DEF CommitRequest, Answered, WriteBack, EndTransaction
<1>17. ASSUME NEW p \in Servers, AbortRequest(p) PROVE TypeOK'
  BY <1>17 DEF AbortRequest, Answered, Rollback, EndTransaction
<1>18. CASE UNCHANGED vars
  BY <1>18 DEF vars
<1>. QED
  BY <1>1, <1>2, <1>3, <1>4, <1>5, <1>6, <1>7, <1>8, <1>9, <1>10, <1>11,
    <1>12, <1>13, <1>14, <1>15, <1>16, <1>17, <1>18 DEF Next, RotationStep,
    ServerStep

\* A step keeps every pending write under its lock.
LEMMA LocksOKInductive ==
  ASSUME TypeOK, LocksOK, [Next]_vars
  PROVE  LocksOK'
<1>. USE RowsAssumption, ProcsAssumption
         DEF TypeOK, LocksOK, Procs, RotatorPCs, ServerPCs, AtRow
<1>1. ASSUME NEW p \in Rotators, FetchUserIds(p) PROVE LocksOK'
  BY <1>1 DEF FetchUserIds
<1>2. ASSUME NEW p \in Rotators, FetchSessionIds(p) PROVE LocksOK'
  BY <1>2 DEF FetchSessionIds
<1>3. ASSUME NEW p \in Rotators, NEW x \in Rows, Visit(p, x) PROVE LocksOK'
  BY <1>3 DEF Visit
<1>4. ASSUME NEW p \in Rotators, SelectForUpdate(p) PROVE LocksOK'
  BY <1>4 DEF SelectForUpdate, Acquire, Lockable
<1>5. ASSUME NEW p \in Rotators, ReEncrypt(p) PROVE LocksOK'
  BY <1>5 DEF ReEncrypt, Acquire, Lockable
<1>6. ASSUME NEW p \in Rotators, SkipRotated(p) PROVE LocksOK'
  BY <1>6 DEF SkipRotated, Acquire, Lockable
<1>7. ASSUME NEW p \in Rotators, Undecryptable(p) PROVE LocksOK'
  BY <1>7 DEF Undecryptable, Fail, Rollback, EndTransaction
<1>8. ASSUME NEW p \in Rotators, CommitRotation(p) PROVE LocksOK'
  BY <1>8 DEF CommitRotation, WriteBack, EndTransaction
<1>9. ASSUME NEW p \in Rotators, DeadlockVictim(p) PROVE LocksOK'
  BY <1>9 DEF DeadlockVictim, Fail, Rollback, EndTransaction
<1>10. ASSUME NEW p \in Rotators, CrashRotation(p) PROVE LocksOK'
  BY <1>10 DEF CrashRotation, Fail, Rollback, EndTransaction
<1>11. ASSUME NEW p \in Servers, NEW x \in Rows, Request(p, x) PROVE LocksOK'
  BY <1>11 DEF Request
<1>12. ASSUME NEW p \in Servers, Renew(p) PROVE LocksOK'
  BY <1>12 DEF Renew, Acquire, Lockable, SetSecret
<1>13. ASSUME NEW p \in Servers, Clear(p) PROVE LocksOK'
  BY <1>13 DEF Clear, Acquire, Lockable, SetSecret
<1>14. ASSUME NEW p \in Servers, LockAndRead(p) PROVE LocksOK'
  BY <1>14 DEF LockAndRead, Acquire, Lockable
<1>15. ASSUME NEW p \in Servers, ReturnOrCreate(p) PROVE LocksOK'
  BY <1>15 DEF ReturnOrCreate, SetSecret
<1>16. ASSUME NEW p \in Servers, CommitRequest(p) PROVE LocksOK'
  BY <1>16 DEF CommitRequest, Answered, WriteBack, EndTransaction
<1>17. ASSUME NEW p \in Servers, AbortRequest(p) PROVE LocksOK'
  BY <1>17 DEF AbortRequest, Answered, Rollback, EndTransaction
<1>18. CASE UNCHANGED vars
  BY <1>18 DEF vars
<1>. QED
  BY <1>1, <1>2, <1>3, <1>4, <1>5, <1>6, <1>7, <1>8, <1>9, <1>10, <1>11,
    <1>12, <1>13, <1>14, <1>15, <1>16, <1>17, <1>18 DEF Next, RotationStep,
    ServerStep

\* A step writes under the new key only.
LEMMA KeysOKInductive ==
  ASSUME TypeOK, LocksOK, KeysOK, [Next]_vars
  PROVE  KeysOK'
<1>. USE RowsAssumption, ProcsAssumption
         DEF TypeOK, LocksOK, KeysOK, Procs, RotatorPCs, ServerPCs, Keys
<1>1. ASSUME NEW p \in Rotators, FetchUserIds(p) PROVE KeysOK'
  BY <1>1 DEF FetchUserIds
<1>2. ASSUME NEW p \in Rotators, FetchSessionIds(p) PROVE KeysOK'
  BY <1>2 DEF FetchSessionIds
<1>3. ASSUME NEW p \in Rotators, NEW x \in Rows, Visit(p, x) PROVE KeysOK'
  BY <1>3 DEF Visit
<1>4. ASSUME NEW p \in Rotators, SelectForUpdate(p) PROVE KeysOK'
  BY <1>4 DEF SelectForUpdate, Acquire, Lockable
<1>5. ASSUME NEW p \in Rotators, ReEncrypt(p) PROVE KeysOK'
  BY <1>5, EncryptFacts DEF ReEncrypt, Acquire, Lockable
<1>6. ASSUME NEW p \in Rotators, SkipRotated(p) PROVE KeysOK'
  BY <1>6 DEF SkipRotated, Acquire, Lockable
<1>7. ASSUME NEW p \in Rotators, Undecryptable(p) PROVE KeysOK'
  BY <1>7 DEF Undecryptable, Fail, Rollback, EndTransaction
<1>8. ASSUME NEW p \in Rotators, CommitRotation(p) PROVE KeysOK'
  BY <1>8 DEF CommitRotation, WriteBack, EndTransaction
<1>9. ASSUME NEW p \in Rotators, DeadlockVictim(p) PROVE KeysOK'
  BY <1>9 DEF DeadlockVictim, Fail, Rollback, EndTransaction
<1>10. ASSUME NEW p \in Rotators, CrashRotation(p) PROVE KeysOK'
  BY <1>10 DEF CrashRotation, Fail, Rollback, EndTransaction
<1>11. ASSUME NEW p \in Servers, NEW x \in Rows, Request(p, x) PROVE KeysOK'
  BY <1>11 DEF Request
<1>12. ASSUME NEW p \in Servers, Renew(p) PROVE KeysOK'
  BY <1>12, RowFacts, EncryptFacts DEF Renew, Acquire, Lockable, SetSecret
<1>13. ASSUME NEW p \in Servers, Clear(p) PROVE KeysOK'
  BY <1>13, RowFacts, EncryptFacts DEF Clear, Acquire, Lockable, SetSecret
<1>14. ASSUME NEW p \in Servers, LockAndRead(p) PROVE KeysOK'
  BY <1>14 DEF LockAndRead, Acquire, Lockable
<1>15. ASSUME NEW p \in Servers, ReturnOrCreate(p) PROVE KeysOK'
  <2>1. CASE UNCHANGED <<val, staged>>
    BY <1>15, <2>1 DEF ReturnOrCreate
  <2>2. ASSUME NEW v \in Secrets, val[p] = NoSecret, Fresh(v), SetSecret(p, cur[p], v),
               val' = [val EXCEPT ![p] = v]
        PROVE  KeysOK'
    <3>1. /\ cur[p] \in Rows
          /\ staged'[p][cur[p]] = Row(cur[p], key[p], v)
          /\ \A q \in Procs, r \in Rows : q # p \/ r # cur[p] => staged'[q][r] = staged[q][r]
      BY <1>15, <2>2 DEF ReturnOrCreate, SetSecret
    <3>2. /\ staged'[p][cur[p]].col # Null
          /\ staged'[p][cur[p]].col.key = key[p]
          /\ staged'[p][cur[p]].col.plain = v
      BY <3>1, RowFacts, EncryptFacts, SecretsAssumption
    <3>. QED
      BY <1>15, <2>2, <3>1, <3>2 DEF ReturnOrCreate
  <2>. QED
    BY <1>15, <2>1, <2>2 DEF ReturnOrCreate
<1>16. ASSUME NEW p \in Servers, CommitRequest(p) PROVE KeysOK'
  BY <1>16 DEF CommitRequest, Answered, WriteBack, EndTransaction
<1>17. ASSUME NEW p \in Servers, AbortRequest(p) PROVE KeysOK'
  BY <1>17 DEF AbortRequest, Answered, Rollback, EndTransaction
<1>18. CASE UNCHANGED vars
  BY <1>18 DEF vars
<1>. QED
  BY <1>1, <1>2, <1>3, <1>4, <1>5, <1>6, <1>7, <1>8, <1>9, <1>10, <1>11,
    <1>12, <1>13, <1>14, <1>15, <1>16, <1>17, <1>18 DEF Next, RotationStep,
    ServerStep

\* A step leaves what a process has read under a lock as it is.
LEMMA ReadsOKInductive ==
  ASSUME TypeOK, LocksOK, ReadsOK, [Next]_vars
  PROVE  ReadsOK'
<1>. USE RowsAssumption, ProcsAssumption
         DEF TypeOK, LocksOK, ReadsOK, Procs, RotatorPCs, ServerPCs, AtRow
<1>1. ASSUME NEW p \in Rotators, FetchUserIds(p) PROVE ReadsOK'
  BY <1>1 DEF FetchUserIds
<1>2. ASSUME NEW p \in Rotators, FetchSessionIds(p) PROVE ReadsOK'
  BY <1>2 DEF FetchSessionIds
<1>3. ASSUME NEW p \in Rotators, NEW x \in Rows, Visit(p, x) PROVE ReadsOK'
  BY <1>3 DEF Visit
<1>4. ASSUME NEW p \in Rotators, SelectForUpdate(p) PROVE ReadsOK'
  BY <1>4 DEF SelectForUpdate, Acquire, Lockable
<1>5. ASSUME NEW p \in Rotators, ReEncrypt(p) PROVE ReadsOK'
  BY <1>5 DEF ReEncrypt, Acquire, Lockable
<1>6. ASSUME NEW p \in Rotators, SkipRotated(p) PROVE ReadsOK'
  BY <1>6 DEF SkipRotated, Acquire, Lockable
<1>7. ASSUME NEW p \in Rotators, Undecryptable(p) PROVE ReadsOK'
  BY <1>7 DEF Undecryptable, Fail, Rollback, EndTransaction
<1>8. ASSUME NEW p \in Rotators, CommitRotation(p) PROVE ReadsOK'
  BY <1>8 DEF CommitRotation, WriteBack, EndTransaction
<1>9. ASSUME NEW p \in Rotators, DeadlockVictim(p) PROVE ReadsOK'
  BY <1>9 DEF DeadlockVictim, Fail, Rollback, EndTransaction
<1>10. ASSUME NEW p \in Rotators, CrashRotation(p) PROVE ReadsOK'
  BY <1>10 DEF CrashRotation, Fail, Rollback, EndTransaction
<1>11. ASSUME NEW p \in Servers, NEW x \in Rows, Request(p, x) PROVE ReadsOK'
  BY <1>11 DEF Request
<1>12. ASSUME NEW p \in Servers, Renew(p) PROVE ReadsOK'
  BY <1>12 DEF Renew, Acquire, Lockable, SetSecret
<1>13. ASSUME NEW p \in Servers, Clear(p) PROVE ReadsOK'
  BY <1>13 DEF Clear, Acquire, Lockable, SetSecret
<1>14. ASSUME NEW p \in Servers, LockAndRead(p) PROVE ReadsOK'
  BY <1>14 DEF LockAndRead, Acquire, Lockable
<1>15. ASSUME NEW p \in Servers, ReturnOrCreate(p) PROVE ReadsOK'
  BY <1>15 DEF ReturnOrCreate, SetSecret
<1>16. ASSUME NEW p \in Servers, CommitRequest(p) PROVE ReadsOK'
  BY <1>16 DEF CommitRequest, Answered, WriteBack, EndTransaction
<1>17. ASSUME NEW p \in Servers, AbortRequest(p) PROVE ReadsOK'
  BY <1>17 DEF AbortRequest, Answered, Rollback, EndTransaction
<1>18. CASE UNCHANGED vars
  BY <1>18 DEF vars
<1>. QED
  BY <1>1, <1>2, <1>3, <1>4, <1>5, <1>6, <1>7, <1>8, <1>9, <1>10, <1>11,
    <1>12, <1>13, <1>14, <1>15, <1>16, <1>17, <1>18 DEF Next, RotationStep,
    ServerStep

\* A step keeps the pending writes of rotations equal to the rows.
LEMMA RotationKeepsSecretsInductive ==
  ASSUME TypeOK, LocksOK, KeysOK, ReadsOK,
         RotationKeepsSecrets, [Next]_vars
  PROVE  RotationKeepsSecrets'
<1>. USE RowsAssumption, ProcsAssumption
         DEF TypeOK, LocksOK, KeysOK, ReadsOK, RotationKeepsSecrets, Procs, Keys
<1>1. ASSUME NEW p \in Rotators, FetchUserIds(p) PROVE RotationKeepsSecrets'
  BY <1>1 DEF FetchUserIds
<1>2. ASSUME NEW p \in Rotators, FetchSessionIds(p) PROVE RotationKeepsSecrets'
  BY <1>2 DEF FetchSessionIds
<1>3. ASSUME NEW p \in Rotators, NEW x \in Rows, Visit(p, x) PROVE RotationKeepsSecrets'
  BY <1>3 DEF Visit
<1>4. ASSUME NEW p \in Rotators, SelectForUpdate(p) PROVE RotationKeepsSecrets'
  BY <1>4 DEF SelectForUpdate, Acquire, Lockable
<1>5. ASSUME NEW p \in Rotators, ReEncrypt(p) PROVE RotationKeepsSecrets'
  BY <1>5, EncryptFacts, ReEncryptedFacts DEF ReEncrypt, Acquire, Lockable
<1>6. ASSUME NEW p \in Rotators, SkipRotated(p) PROVE RotationKeepsSecrets'
  BY <1>6 DEF SkipRotated, Acquire, Lockable
<1>7. ASSUME NEW p \in Rotators, Undecryptable(p) PROVE RotationKeepsSecrets'
  BY <1>7 DEF Undecryptable, Fail, Rollback, EndTransaction
<1>8. ASSUME NEW p \in Rotators, CommitRotation(p) PROVE RotationKeepsSecrets'
  BY <1>8 DEF CommitRotation, WriteBack, EndTransaction
<1>9. ASSUME NEW p \in Rotators, DeadlockVictim(p) PROVE RotationKeepsSecrets'
  BY <1>9 DEF DeadlockVictim, Fail, Rollback, EndTransaction
<1>10. ASSUME NEW p \in Rotators, CrashRotation(p) PROVE RotationKeepsSecrets'
  BY <1>10 DEF CrashRotation, Fail, Rollback, EndTransaction
<1>11. ASSUME NEW p \in Servers, NEW x \in Rows, Request(p, x) PROVE RotationKeepsSecrets'
  BY <1>11 DEF Request
<1>12. ASSUME NEW p \in Servers, Renew(p) PROVE RotationKeepsSecrets'
  BY <1>12 DEF Renew, Acquire, Lockable, SetSecret
<1>13. ASSUME NEW p \in Servers, Clear(p) PROVE RotationKeepsSecrets'
  BY <1>13 DEF Clear, Acquire, Lockable, SetSecret
<1>14. ASSUME NEW p \in Servers, LockAndRead(p) PROVE RotationKeepsSecrets'
  BY <1>14 DEF LockAndRead, Acquire, Lockable
<1>15. ASSUME NEW p \in Servers, ReturnOrCreate(p) PROVE RotationKeepsSecrets'
  BY <1>15 DEF ReturnOrCreate, SetSecret
<1>16. ASSUME NEW p \in Servers, CommitRequest(p) PROVE RotationKeepsSecrets'
  BY <1>16 DEF CommitRequest, Answered, WriteBack, EndTransaction
<1>17. ASSUME NEW p \in Servers, AbortRequest(p) PROVE RotationKeepsSecrets'
  BY <1>17 DEF AbortRequest, Answered, Rollback, EndTransaction
<1>18. CASE UNCHANGED vars
  BY <1>18 DEF vars
<1>. QED
  BY <1>1, <1>2, <1>3, <1>4, <1>5, <1>6, <1>7, <1>8, <1>9, <1>10, <1>11,
    <1>12, <1>13, <1>14, <1>15, <1>16, <1>17, <1>18 DEF Next, RotationStep,
    ServerStep

\* A step drops no row that is still under the old key from a rotation.
LEMMA CoverageOKInductive ==
  ASSUME TypeOK, LocksOK, KeysOK, CoverageOK, [Next]_vars
  PROVE  CoverageOK'
<1>. USE RowsAssumption, ProcsAssumption
         DEF TypeOK, LocksOK, KeysOK, CoverageOK, Procs, Rows, Keys,
             RotatorPCs, ServerPCs, AtRow
<1>1. ASSUME NEW p \in Rotators, FetchUserIds(p) PROVE CoverageOK'
  BY <1>1 DEF FetchUserIds
<1>2. ASSUME NEW p \in Rotators, FetchSessionIds(p) PROVE CoverageOK'
  BY <1>2 DEF FetchSessionIds
<1>3. ASSUME NEW p \in Rotators, NEW x \in Rows, Visit(p, x) PROVE CoverageOK'
  BY <1>3 DEF Visit
<1>4. ASSUME NEW p \in Rotators, SelectForUpdate(p) PROVE CoverageOK'
  BY <1>4 DEF SelectForUpdate, Acquire, Lockable
<1>5. ASSUME NEW p \in Rotators, ReEncrypt(p) PROVE CoverageOK'
  <2>1. cur[p] \in Rows /\ staged'[p][cur[p]] # Untouched
    BY <1>5, ReEncryptedFacts, RowValuesFacts, ColumnFacts DEF ReEncrypt
  <2>2. \A q \in Procs, r \in Rows : q # p \/ r # cur[p] => staged'[q][r] = staged[q][r]
    BY <1>5 DEF ReEncrypt
  <2>. QED
    BY <1>5, <2>1, <2>2 DEF ReEncrypt
<1>6. ASSUME NEW p \in Rotators, SkipRotated(p) PROVE CoverageOK'
  BY <1>6 DEF SkipRotated, Acquire, Lockable, Decrypts
<1>7. ASSUME NEW p \in Rotators, Undecryptable(p) PROVE CoverageOK'
  BY <1>7 DEF Undecryptable, Fail, Rollback, EndTransaction
<1>8. ASSUME NEW p \in Rotators, CommitRotation(p) PROVE CoverageOK'
  BY <1>8 DEF CommitRotation, WriteBack, EndTransaction
<1>9. ASSUME NEW p \in Rotators, DeadlockVictim(p) PROVE CoverageOK'
  BY <1>9 DEF DeadlockVictim, Fail, Rollback, EndTransaction
<1>10. ASSUME NEW p \in Rotators, CrashRotation(p) PROVE CoverageOK'
  BY <1>10 DEF CrashRotation, Fail, Rollback, EndTransaction
<1>11. ASSUME NEW p \in Servers, NEW x \in Rows, Request(p, x) PROVE CoverageOK'
  BY <1>11 DEF Request
<1>12. ASSUME NEW p \in Servers, Renew(p) PROVE CoverageOK'
  BY <1>12 DEF Renew, Acquire, Lockable, SetSecret
<1>13. ASSUME NEW p \in Servers, Clear(p) PROVE CoverageOK'
  BY <1>13 DEF Clear, Acquire, Lockable, SetSecret
<1>14. ASSUME NEW p \in Servers, LockAndRead(p) PROVE CoverageOK'
  BY <1>14 DEF LockAndRead, Acquire, Lockable
<1>15. ASSUME NEW p \in Servers, ReturnOrCreate(p) PROVE CoverageOK'
  BY <1>15 DEF ReturnOrCreate, SetSecret
<1>16. ASSUME NEW p \in Servers, CommitRequest(p) PROVE CoverageOK'
  BY <1>16 DEF CommitRequest, Answered, WriteBack, EndTransaction
<1>17. ASSUME NEW p \in Servers, AbortRequest(p) PROVE CoverageOK'
  BY <1>17 DEF AbortRequest, Answered, Rollback, EndTransaction
<1>18. CASE UNCHANGED vars
  BY <1>18 DEF vars
<1>. QED
  BY <1>1, <1>2, <1>3, <1>4, <1>5, <1>6, <1>7, <1>8, <1>9, <1>10, <1>11,
    <1>12, <1>13, <1>14, <1>15, <1>16, <1>17, <1>18 DEF Next, RotationStep,
    ServerStep

\* A rotation that is done leaves, and finds later, no row under another key.
LEMMA RotationCompleteInductive ==
  ASSUME TypeOK, LocksOK, KeysOK, RotationKeepsSecrets, CoverageOK,
         RotationComplete, [Next]_vars
  PROVE  RotationComplete'
<1>. USE RowsAssumption, ProcsAssumption
         DEF TypeOK, LocksOK, KeysOK, RotationKeepsSecrets, CoverageOK,
             RotationComplete, Procs, RotatorPCs, ServerPCs, AtRow
<1>1. ASSUME NEW p \in Rotators, FetchUserIds(p) PROVE RotationComplete'
  BY <1>1 DEF FetchUserIds
<1>2. ASSUME NEW p \in Rotators, FetchSessionIds(p) PROVE RotationComplete'
  BY <1>2 DEF FetchSessionIds
<1>3. ASSUME NEW p \in Rotators, NEW x \in Rows, Visit(p, x) PROVE RotationComplete'
  BY <1>3 DEF Visit
<1>4. ASSUME NEW p \in Rotators, SelectForUpdate(p) PROVE RotationComplete'
  BY <1>4 DEF SelectForUpdate, Acquire, Lockable
<1>5. ASSUME NEW p \in Rotators, ReEncrypt(p) PROVE RotationComplete'
  BY <1>5 DEF ReEncrypt, Acquire, Lockable
<1>6. ASSUME NEW p \in Rotators, SkipRotated(p) PROVE RotationComplete'
  BY <1>6 DEF SkipRotated, Acquire, Lockable
<1>7. ASSUME NEW p \in Rotators, Undecryptable(p) PROVE RotationComplete'
  BY <1>7 DEF Undecryptable, Fail, Rollback, EndTransaction
<1>8. ASSUME NEW p \in Rotators, CommitRotation(p) PROVE RotationComplete'
  BY <1>8 DEF CommitRotation, WriteBack, EndTransaction
<1>9. ASSUME NEW p \in Rotators, DeadlockVictim(p) PROVE RotationComplete'
  BY <1>9 DEF DeadlockVictim, Fail, Rollback, EndTransaction
<1>10. ASSUME NEW p \in Rotators, CrashRotation(p) PROVE RotationComplete'
  BY <1>10 DEF CrashRotation, Fail, Rollback, EndTransaction
<1>11. ASSUME NEW p \in Servers, NEW x \in Rows, Request(p, x) PROVE RotationComplete'
  BY <1>11 DEF Request
<1>12. ASSUME NEW p \in Servers, Renew(p) PROVE RotationComplete'
  BY <1>12 DEF Renew, Acquire, Lockable, SetSecret
<1>13. ASSUME NEW p \in Servers, Clear(p) PROVE RotationComplete'
  BY <1>13 DEF Clear, Acquire, Lockable, SetSecret
<1>14. ASSUME NEW p \in Servers, LockAndRead(p) PROVE RotationComplete'
  BY <1>14 DEF LockAndRead, Acquire, Lockable
<1>15. ASSUME NEW p \in Servers, ReturnOrCreate(p) PROVE RotationComplete'
  BY <1>15 DEF ReturnOrCreate, SetSecret
<1>16. ASSUME NEW p \in Servers, CommitRequest(p) PROVE RotationComplete'
  BY <1>16 DEF CommitRequest, Answered, WriteBack, EndTransaction
<1>17. ASSUME NEW p \in Servers, AbortRequest(p) PROVE RotationComplete'
  BY <1>17 DEF AbortRequest, Answered, Rollback, EndTransaction
<1>18. CASE UNCHANGED vars
  BY <1>18 DEF vars
<1>. QED
  BY <1>1, <1>2, <1>3, <1>4, <1>5, <1>6, <1>7, <1>8, <1>9, <1>10, <1>11,
    <1>12, <1>13, <1>14, <1>15, <1>16, <1>17, <1>18 DEF Next, RotationStep,
    ServerStep

\* A step writes secrets together with their digests.
LEMMA DigestsOKInductive ==
  ASSUME TypeOK, LocksOK, KeysOK, DigestsOK, [Next]_vars
  PROVE  DigestsOK'
<1>. USE RowsAssumption, ProcsAssumption
         DEF TypeOK, LocksOK, KeysOK, DigestsOK, Procs, Keys, Rows
<1>1. ASSUME NEW p \in Rotators, FetchUserIds(p) PROVE DigestsOK'
  BY <1>1 DEF FetchUserIds
<1>2. ASSUME NEW p \in Rotators, FetchSessionIds(p) PROVE DigestsOK'
  BY <1>2 DEF FetchSessionIds
<1>3. ASSUME NEW p \in Rotators, NEW x \in Rows, Visit(p, x) PROVE DigestsOK'
  BY <1>3 DEF Visit
<1>4. ASSUME NEW p \in Rotators, SelectForUpdate(p) PROVE DigestsOK'
  BY <1>4 DEF SelectForUpdate, Acquire, Lockable
<1>5. ASSUME NEW p \in Rotators, ReEncrypt(p) PROVE DigestsOK'
  BY <1>5 DEF ReEncrypt, Acquire, Lockable
<1>6. ASSUME NEW p \in Rotators, SkipRotated(p) PROVE DigestsOK'
  BY <1>6 DEF SkipRotated, Acquire, Lockable
<1>7. ASSUME NEW p \in Rotators, Undecryptable(p) PROVE DigestsOK'
  BY <1>7 DEF Undecryptable, Fail, Rollback, EndTransaction
<1>8. ASSUME NEW p \in Rotators, CommitRotation(p) PROVE DigestsOK'
  BY <1>8 DEF CommitRotation, WriteBack, EndTransaction
<1>9. ASSUME NEW p \in Rotators, DeadlockVictim(p) PROVE DigestsOK'
  BY <1>9 DEF DeadlockVictim, Fail, Rollback, EndTransaction
<1>10. ASSUME NEW p \in Rotators, CrashRotation(p) PROVE DigestsOK'
  BY <1>10 DEF CrashRotation, Fail, Rollback, EndTransaction
<1>11. ASSUME NEW p \in Servers, NEW x \in Rows, Request(p, x) PROVE DigestsOK'
  BY <1>11 DEF Request
<1>12. ASSUME NEW p \in Servers, Renew(p) PROVE DigestsOK'
  BY <1>12, RowFacts, EncryptFacts DEF Renew, Acquire, Lockable, SetSecret
<1>13. ASSUME NEW p \in Servers, Clear(p) PROVE DigestsOK'
  BY <1>13, RowFacts, EncryptFacts DEF Clear, Acquire, Lockable, SetSecret
<1>14. ASSUME NEW p \in Servers, LockAndRead(p) PROVE DigestsOK'
  BY <1>14 DEF LockAndRead, Acquire, Lockable
<1>15. ASSUME NEW p \in Servers, ReturnOrCreate(p) PROVE DigestsOK'
  BY <1>15, RowFacts, EncryptFacts DEF ReturnOrCreate, SetSecret
<1>16. ASSUME NEW p \in Servers, CommitRequest(p) PROVE DigestsOK'
  BY <1>16 DEF CommitRequest, Answered, WriteBack, EndTransaction
<1>17. ASSUME NEW p \in Servers, AbortRequest(p) PROVE DigestsOK'
  BY <1>17 DEF AbortRequest, Answered, Rollback, EndTransaction
<1>18. CASE UNCHANGED vars
  BY <1>18 DEF vars
<1>. QED
  BY <1>1, <1>2, <1>3, <1>4, <1>5, <1>6, <1>7, <1>8, <1>9, <1>10, <1>11,
    <1>12, <1>13, <1>14, <1>15, <1>16, <1>17, <1>18 DEF Next, RotationStep,
    ServerStep

\* A step keeps the digests of the committed secrets.
LEMMA DigestMatchesInductive ==
  ASSUME TypeOK, LocksOK, RotationKeepsSecrets, DigestsOK, DigestMatches, [Next]_vars
  PROVE  DigestMatches'
<1>. USE RowsAssumption, ProcsAssumption
         DEF TypeOK, RotationKeepsSecrets, DigestsOK, DigestMatches, Rows
<1>1. ASSUME NEW p \in Rotators, FetchUserIds(p) PROVE DigestMatches'
  BY <1>1 DEF FetchUserIds
<1>2. ASSUME NEW p \in Rotators, FetchSessionIds(p) PROVE DigestMatches'
  BY <1>2 DEF FetchSessionIds
<1>3. ASSUME NEW p \in Rotators, NEW x \in Rows, Visit(p, x) PROVE DigestMatches'
  BY <1>3 DEF Visit
<1>4. ASSUME NEW p \in Rotators, SelectForUpdate(p) PROVE DigestMatches'
  BY <1>4 DEF SelectForUpdate, Acquire, Lockable
<1>5. ASSUME NEW p \in Rotators, ReEncrypt(p) PROVE DigestMatches'
  BY <1>5 DEF ReEncrypt, Acquire, Lockable
<1>6. ASSUME NEW p \in Rotators, SkipRotated(p) PROVE DigestMatches'
  BY <1>6 DEF SkipRotated, Acquire, Lockable
<1>7. ASSUME NEW p \in Rotators, Undecryptable(p) PROVE DigestMatches'
  BY <1>7 DEF Undecryptable, Fail, Rollback, EndTransaction
<1>8. ASSUME NEW p \in Rotators, CommitRotation(p) PROVE DigestMatches'
  BY <1>8 DEF CommitRotation, WriteBack, EndTransaction
<1>9. ASSUME NEW p \in Rotators, DeadlockVictim(p) PROVE DigestMatches'
  BY <1>9 DEF DeadlockVictim, Fail, Rollback, EndTransaction
<1>10. ASSUME NEW p \in Rotators, CrashRotation(p) PROVE DigestMatches'
  BY <1>10 DEF CrashRotation, Fail, Rollback, EndTransaction
<1>11. ASSUME NEW p \in Servers, NEW x \in Rows, Request(p, x) PROVE DigestMatches'
  BY <1>11 DEF Request
<1>12. ASSUME NEW p \in Servers, Renew(p) PROVE DigestMatches'
  BY <1>12 DEF Renew, Acquire, Lockable, SetSecret
<1>13. ASSUME NEW p \in Servers, Clear(p) PROVE DigestMatches'
  BY <1>13 DEF Clear, Acquire, Lockable, SetSecret
<1>14. ASSUME NEW p \in Servers, LockAndRead(p) PROVE DigestMatches'
  BY <1>14 DEF LockAndRead, Acquire, Lockable
<1>15. ASSUME NEW p \in Servers, ReturnOrCreate(p) PROVE DigestMatches'
  BY <1>15 DEF ReturnOrCreate, SetSecret
<1>16. ASSUME NEW p \in Servers, CommitRequest(p) PROVE DigestMatches'
  BY <1>16 DEF CommitRequest, Answered, WriteBack, EndTransaction
<1>17. ASSUME NEW p \in Servers, AbortRequest(p) PROVE DigestMatches'
  BY <1>17 DEF AbortRequest, Answered, Rollback, EndTransaction
<1>18. CASE UNCHANGED vars
  BY <1>18 DEF vars
<1>. QED
  BY <1>1, <1>2, <1>3, <1>4, <1>5, <1>6, <1>7, <1>8, <1>9, <1>10, <1>11,
    <1>12, <1>13, <1>14, <1>15, <1>16, <1>17, <1>18 DEF Next, RotationStep,
    ServerStep

\* A step keeps the answers of get_or_create_bearer_secret right.
LEMMA AnswersAgreeInductive ==
  ASSUME TypeOK, LocksOK, KeysOK, ReadsOK, AnswersAgree, [Next]_vars
  PROVE  AnswersAgree'
<1>. USE RowsAssumption, ProcsAssumption
         DEF TypeOK, LocksOK, KeysOK, ReadsOK, AnswersAgree, Procs, Keys,
             RotatorPCs, ServerPCs
<1>1. ASSUME NEW p \in Rotators, FetchUserIds(p) PROVE AnswersAgree'
  BY <1>1 DEF FetchUserIds
<1>2. ASSUME NEW p \in Rotators, FetchSessionIds(p) PROVE AnswersAgree'
  BY <1>2 DEF FetchSessionIds
<1>3. ASSUME NEW p \in Rotators, NEW x \in Rows, Visit(p, x) PROVE AnswersAgree'
  BY <1>3 DEF Visit
<1>4. ASSUME NEW p \in Rotators, SelectForUpdate(p) PROVE AnswersAgree'
  BY <1>4 DEF SelectForUpdate, Acquire, Lockable
<1>5. ASSUME NEW p \in Rotators, ReEncrypt(p) PROVE AnswersAgree'
  BY <1>5 DEF ReEncrypt, Acquire, Lockable
<1>6. ASSUME NEW p \in Rotators, SkipRotated(p) PROVE AnswersAgree'
  BY <1>6 DEF SkipRotated, Acquire, Lockable
<1>7. ASSUME NEW p \in Rotators, Undecryptable(p) PROVE AnswersAgree'
  BY <1>7 DEF Undecryptable, Fail, Rollback, EndTransaction
<1>8. ASSUME NEW p \in Rotators, CommitRotation(p) PROVE AnswersAgree'
  BY <1>8 DEF CommitRotation, WriteBack, EndTransaction
<1>9. ASSUME NEW p \in Rotators, DeadlockVictim(p) PROVE AnswersAgree'
  BY <1>9 DEF DeadlockVictim, Fail, Rollback, EndTransaction
<1>10. ASSUME NEW p \in Rotators, CrashRotation(p) PROVE AnswersAgree'
  BY <1>10 DEF CrashRotation, Fail, Rollback, EndTransaction
<1>11. ASSUME NEW p \in Servers, NEW x \in Rows, Request(p, x) PROVE AnswersAgree'
  BY <1>11 DEF Request
<1>12. ASSUME NEW p \in Servers, Renew(p) PROVE AnswersAgree'
  BY <1>12, RowFacts, EncryptFacts DEF Renew, Acquire, Lockable, SetSecret
<1>13. ASSUME NEW p \in Servers, Clear(p) PROVE AnswersAgree'
  BY <1>13, RowFacts, EncryptFacts DEF Clear, Acquire, Lockable, SetSecret
<1>14. ASSUME NEW p \in Servers, LockAndRead(p) PROVE AnswersAgree'
  BY <1>14 DEF LockAndRead, Acquire, Lockable
<1>15. ASSUME NEW p \in Servers, ReturnOrCreate(p) PROVE AnswersAgree'
  <2>1. CASE UNCHANGED <<val, staged>>
    BY <1>15, <2>1 DEF ReturnOrCreate
  <2>2. ASSUME NEW v \in Secrets, val[p] = NoSecret, Fresh(v), SetSecret(p, cur[p], v),
               val' = [val EXCEPT ![p] = v]
        PROVE  AnswersAgree'
    <3>1. /\ cur[p] \in Rows
          /\ staged'[p][cur[p]] = Row(cur[p], key[p], v)
          /\ \A q \in Procs, r \in Rows : q # p \/ r # cur[p] => staged'[q][r] = staged[q][r]
      BY <1>15, <2>2 DEF ReturnOrCreate, SetSecret
    <3>2. /\ staged'[p][cur[p]].col # Null
          /\ staged'[p][cur[p]].col.key = key[p]
          /\ staged'[p][cur[p]].col.plain = v
      BY <3>1, RowFacts, EncryptFacts, SecretsAssumption
    <3>3. table[cur[p]].col = Null
      BY <1>15, <2>2, <3>1, RowValuesFacts, ColumnFacts DEF ReturnOrCreate
    <3>4. staged'[p][cur[p]] # Untouched
      BY <3>1, <2>2, RowFacts
    <3>5. \A q \in Servers : q # p => /\ pc'[q] = pc[q] /\ val'[q] = val[q]
                                     /\ cur'[q] = cur[q] /\ staged'[q] = staged[q]
      BY <1>15, <2>2 DEF ReturnOrCreate, SetSecret
    <3>. QED
      BY <1>15, <2>2, <3>1, <3>2, <3>3, <3>4, <3>5 DEF ReturnOrCreate
  <2>. QED
    BY <1>15, <2>1, <2>2 DEF ReturnOrCreate
<1>16. ASSUME NEW p \in Servers, CommitRequest(p) PROVE AnswersAgree'
  BY <1>16 DEF CommitRequest, Answered, WriteBack, EndTransaction
<1>17. ASSUME NEW p \in Servers, AbortRequest(p) PROVE AnswersAgree'
  BY <1>17 DEF AbortRequest, Answered, Rollback, EndTransaction
<1>18. CASE UNCHANGED vars
  BY <1>18 DEF vars
<1>. QED
  BY <1>1, <1>2, <1>3, <1>4, <1>5, <1>6, <1>7, <1>8, <1>9, <1>10, <1>11,
    <1>12, <1>13, <1>14, <1>15, <1>16, <1>17, <1>18 DEF Next, RotationStep,
    ServerStep

\* The commit of a rotation changes no plaintext and stores no new secret.
LEMMA CommitRotationEffect ==
  ASSUME TypeOK, RotationKeepsSecrets, FreshOK,
         NEW p \in Rotators, CommitRotation(p)
  PROVE  /\ stored' = stored
         /\ \A r \in Rows : table'[r].col.plain = table[r].col.plain
<1>1. \A r \in Rows : table'[r].col.plain = table[r].col.plain
  BY DEF CommitRotation, WriteBack, RotationKeepsSecrets
<1>2. ASSUME NEW v \in Secrets, NEW r \in Rows,
             staged[p][r] # Untouched, staged[p][r].col.plain = v
      PROVE  v \in stored
  <2>1. table[r].col.plain = v
    BY <1>2 DEF RotationKeepsSecrets
  <2>2. table[r].col # Null
    BY <2>1, SecretsAssumption DEF Null
  <2>. QED
    BY <2>1, <2>2 DEF FreshOK
<1>. QED
  BY <1>1, <1>2 DEF CommitRotation, WriteBack

\* The commit of a request writes at most the row of the request.
LEMMA CommitRequestEffect ==
  ASSUME TypeOK, LocksOK,
         NEW p \in Servers, CommitRequest(p)
  PROVE  /\ cur[p] \in Rows
         /\ \/ table' = table /\ stored' = stored
            \/ /\ staged[p][cur[p]] \in RowValues
               /\ staged[p][cur[p]] # Untouched
               /\ table' = [table EXCEPT ![cur[p]] = staged[p][cur[p]]]
               /\ stored' = stored \cup ({staged[p][cur[p]].col.plain} \cap Secrets)
<1>1. /\ p \in Procs
      /\ cur[p] \in Rows
      /\ \A r \in Rows : r # cur[p] => staged[p][r] = Untouched
      /\ staged[p] \in [Rows -> RowValues \cup {Untouched}]
      /\ table \in [Rows -> RowValues]
  BY DEF CommitRequest, TypeOK, LocksOK, Procs
<1>2. CASE staged[p][cur[p]] = Untouched
  BY <1>1, <1>2 DEF CommitRequest, WriteBack
<1>3. CASE staged[p][cur[p]] # Untouched
  <2>1. table' = [table EXCEPT ![cur[p]] = staged[p][cur[p]]]
    BY <1>1, <1>3 DEF CommitRequest, WriteBack
  <2>2. {v \in Secrets : \E r \in Rows : staged[p][r] # Untouched /\ staged[p][r].col.plain = v}
          = {staged[p][cur[p]].col.plain} \cap Secrets
    BY <1>1, <1>3
  <2>. QED
    BY <1>1, <1>3, <2>1, <2>2 DEF CommitRequest, WriteBack
<1>. QED
  BY <1>2, <1>3, <1>1

\* A step stores a secret once at most, and only a new one.
LEMMA FreshOKInductive ==
  ASSUME TypeOK, LocksOK, KeysOK, RotationKeepsSecrets, FreshOK, [Next]_vars
  PROVE  FreshOK'
<1>. USE RowsAssumption, ProcsAssumption
         DEF TypeOK, LocksOK, KeysOK, FreshOK, Procs, Keys
<1>1. ASSUME NEW p \in Rotators, FetchUserIds(p) PROVE FreshOK'
  BY <1>1 DEF FetchUserIds
<1>2. ASSUME NEW p \in Rotators, FetchSessionIds(p) PROVE FreshOK'
  BY <1>2 DEF FetchSessionIds
<1>3. ASSUME NEW p \in Rotators, NEW x \in Rows, Visit(p, x) PROVE FreshOK'
  BY <1>3 DEF Visit
<1>4. ASSUME NEW p \in Rotators, SelectForUpdate(p) PROVE FreshOK'
  BY <1>4 DEF SelectForUpdate, Acquire, Lockable
<1>5. ASSUME NEW p \in Rotators, ReEncrypt(p) PROVE FreshOK'
  BY <1>5 DEF ReEncrypt, Acquire, Lockable
<1>6. ASSUME NEW p \in Rotators, SkipRotated(p) PROVE FreshOK'
  BY <1>6 DEF SkipRotated, Acquire, Lockable
<1>7. ASSUME NEW p \in Rotators, Undecryptable(p) PROVE FreshOK'
  BY <1>7 DEF Undecryptable, Fail, Rollback, EndTransaction
<1>8. ASSUME NEW p \in Rotators, CommitRotation(p) PROVE FreshOK'
  <2>1. /\ stored' = stored
        /\ \A r \in Rows : table'[r].col.plain = table[r].col.plain
    BY <1>8, CommitRotationEffect
  <2>2. \A q \in Servers : staged'[q] = staged[q]
    BY <1>8 DEF CommitRotation, EndTransaction
  <2>3. \A r \in Rows : table'[r].col # Null <=> table[r].col # Null
    <3>1. TypeOK'
      BY <1>8, TypeInductive DEF Next, RotationStep
    <3>2. ASSUME NEW r \in Rows
          PROVE  table'[r].col # Null <=> table[r].col # Null
      <4>1. table[r] \in RowValues /\ table'[r] \in RowValues
        BY <3>1
      <4>2. table[r].col \in Columns /\ table'[r].col \in Columns
        BY <4>1, RowValuesFacts
      <4>. QED
        BY <2>1, <4>2, ColumnFacts
    <3>. QED
      BY <3>2
  <2>. QED
    BY <2>1, <2>2, <2>3
<1>9. ASSUME NEW p \in Rotators, DeadlockVictim(p) PROVE FreshOK'
  BY <1>9 DEF DeadlockVictim, Fail, Rollback, EndTransaction
<1>10. ASSUME NEW p \in Rotators, CrashRotation(p) PROVE FreshOK'
  BY <1>10 DEF CrashRotation, Fail, Rollback, EndTransaction
<1>11. ASSUME NEW p \in Servers, NEW x \in Rows, Request(p, x) PROVE FreshOK'
  BY <1>11 DEF Request
<1>12. ASSUME NEW p \in Servers, Renew(p) PROVE FreshOK'
  <2>1. PICK v \in Secrets : Fresh(v) /\ SetSecret(p, cur[p], v)
    BY <1>12 DEF Renew
  <2>2. /\ cur[p] \in Rows
        /\ staged'[p][cur[p]] = Row(cur[p], key[p], v)
        /\ \A q \in Procs, r \in Rows : q # p \/ r # cur[p] => staged'[q][r] = staged[q][r]
        /\ UNCHANGED <<table, stored>>
    BY <1>12, <2>1 DEF Renew, SetSecret
  <2>3. staged'[p][cur[p]].col.plain = v
    BY <2>2, RowFacts, EncryptFacts
  <2>4. \A r \in Rows : staged[p][r] = Untouched
    BY <1>12 DEF Renew
  <2>. QED
    BY <2>1, <2>2, <2>3, <2>4 DEF Fresh
<1>13. ASSUME NEW p \in Servers, Clear(p) PROVE FreshOK'
  <2>2. /\ cur[p] \in Rows
        /\ staged'[p][cur[p]] = Row(cur[p], key[p], NoSecret)
        /\ \A q \in Procs, r \in Rows : q # p \/ r # cur[p] => staged'[q][r] = staged[q][r]
        /\ UNCHANGED <<table, stored>>
    BY <1>13 DEF Clear, SetSecret
  <2>3. staged'[p][cur[p]].col = Null /\ staged'[p][cur[p]].col.plain = NoSecret
    BY <2>2, RowFacts, EncryptFacts
  <2>4. \A q \in Servers, r \in Rows : staged[q][r] # Untouched /\ staged[q][r].col # Null =>
          staged[q][r].col.plain # NoSecret
    BY RowValuesFacts, ColumnFacts
  <2>. QED
    BY <2>2, <2>3, <2>4
<1>14. ASSUME NEW p \in Servers, LockAndRead(p) PROVE FreshOK'
  BY <1>14 DEF LockAndRead, Acquire, Lockable
<1>15. ASSUME NEW p \in Servers, ReturnOrCreate(p) PROVE FreshOK'
  <2>1. CASE UNCHANGED <<val, staged>>
    BY <1>15, <2>1 DEF ReturnOrCreate
  <2>2. ASSUME NEW v \in Secrets, val[p] = NoSecret, Fresh(v), SetSecret(p, cur[p], v),
               val' = [val EXCEPT ![p] = v]
        PROVE  FreshOK'
    <3>1. /\ cur[p] \in Rows
          /\ staged'[p][cur[p]] = Row(cur[p], key[p], v)
          /\ \A q \in Procs, r \in Rows : q # p \/ r # cur[p] => staged'[q][r] = staged[q][r]
      BY <1>15, <2>2 DEF ReturnOrCreate, SetSecret
    <3>2. /\ staged'[p][cur[p]].col # Null
          /\ staged'[p][cur[p]].col.key = key[p]
          /\ staged'[p][cur[p]].col.plain = v
      BY <3>1, RowFacts, EncryptFacts, SecretsAssumption
    <3>3. /\ v \notin stored
          /\ \A q \in Procs, r \in Rows : staged[q][r] # Untouched => staged[q][r].col.plain # v
      BY <2>2 DEF Fresh
    <3>4. UNCHANGED <<table, stored>>
      BY <1>15 DEF ReturnOrCreate
    <3>. QED
      BY <1>15, <2>2, <3>1, <3>2, <3>3, <3>4 DEF ReturnOrCreate
  <2>. QED
    BY <1>15, <2>1, <2>2 DEF ReturnOrCreate
<1>16. ASSUME NEW p \in Servers, CommitRequest(p) PROVE FreshOK'
  <2>1. /\ \A q \in Servers, r \in Rows : staged'[q][r] # Untouched =>
             q # p /\ staged'[q][r] = staged[q][r]
        /\ cur[p] \in Rows
    BY <1>16, CommitRequestEffect DEF CommitRequest, EndTransaction
  <2>2. CASE table' = table /\ stored' = stored
    BY <2>1, <2>2
  <2>3. CASE /\ staged[p][cur[p]] \in RowValues
             /\ staged[p][cur[p]] # Untouched
             /\ table' = [table EXCEPT ![cur[p]] = staged[p][cur[p]]]
             /\ stored' = stored \cup ({staged[p][cur[p]].col.plain} \cap Secrets)
    <3> DEFINE x == staged[p][cur[p]]
    <3>1. /\ x.col.plain \in Secrets \cup {NoSecret}
          /\ x.col = Null <=> x.col.plain = NoSecret
          /\ \A r \in Rows : table[r].col = Null <=> table[r].col.plain = NoSecret
          /\ table'[cur[p]] = x
          /\ \A r \in Rows : r # cur[p] => table'[r] = table[r]
      BY <2>1, <2>3, RowValuesFacts, ColumnFacts
    <3>2. CASE x.col = Null
      <4>1. stored' = stored
        BY <2>3, <3>1, <3>2, SecretsAssumption
      <4>2. \A r \in Rows : table'[r].col # Null =>
              r # cur[p] /\ table'[r].col.plain # NoSecret
        BY <3>1, <3>2
      <4>3. \A r, q \in Rows : r # q /\ table'[r].col # Null =>
              table'[r].col.plain # table'[q].col.plain
        BY <3>1, <3>2, <4>2
      <4>. QED
        BY <2>1, <3>1, <4>1, <4>2, <4>3
    <3>3. CASE x.col # Null
      <4>1. stored' = stored \cup {x.col.plain} /\ x.col.plain \notin stored
        BY <2>1, <2>3, <3>1, <3>3
      <4>2. \A r \in Rows : table'[r].col # Null => table'[r].col.plain \in stored'
        BY <2>1, <3>1, <3>3, <4>1
      <4>3. \A r \in Rows : r # cur[p] => table'[r].col.plain # x.col.plain
        BY <2>1, <3>1, <3>3, <4>1
      <4>4. \A r, q \in Rows : r # q /\ table'[r].col # Null =>
              table'[r].col.plain # table'[q].col.plain
        BY <2>1, <3>1, <3>3, <4>3
      <4>5. \A q \in Servers, r \in Rows :
              staged'[q][r] # Untouched => staged[q][r].col.plain # x.col.plain
        BY <2>1, <2>3, <3>3
      <4>. QED
        BY <2>1, <4>1, <4>2, <4>4, <4>5
    <3>. QED
      BY <3>2, <3>3
  <2>. QED
    BY <1>16, <2>2, <2>3, CommitRequestEffect
<1>17. ASSUME NEW p \in Servers, AbortRequest(p) PROVE FreshOK'
  BY <1>17 DEF AbortRequest, Answered, Rollback, EndTransaction
<1>18. CASE UNCHANGED vars
  BY <1>18 DEF vars
<1>. QED
  BY <1>1, <1>2, <1>3, <1>4, <1>5, <1>6, <1>7, <1>8, <1>9, <1>10, <1>11,
    <1>12, <1>13, <1>14, <1>15, <1>16, <1>17, <1>18 DEF Next, RotationStep,
    ServerStep

\* The invariant holds before anything runs.
LEMMA IInvInit == Init => IInv
<1> SUFFICES ASSUME Init PROVE IInv
  OBVIOUS
<1> USE ProcsAssumption, RowsAssumption
<1>1. PICK k \in [Rows -> Keys], v \in [Rows -> Secrets \cup {NoSecret}] :
        /\ \A r, q \in Rows : r # q /\ v[r] # NoSecret => v[r] # v[q]
        /\ table = [r \in Rows |-> Row(r, k[r], v[r])]
        /\ stored = {v[r] : r \in Rows} \ {NoSecret}
  BY DEF Init
<1>2. \A r \in Rows : /\ table[r] \in RowValues
                      /\ table[r].col.plain = v[r]
                      /\ table[r].col = Null <=> v[r] = NoSecret
                      /\ r \in Users => table[r].digest = v[r]
  BY <1>1, RowFacts, EncryptFacts
<1>3. TypeOK
  <2>1. table \in [Rows -> RowValues] /\ stored \in SUBSET Secrets
    BY <1>1, <1>2
  <2>. QED
    BY <2>1 DEF Init, TypeOK, Procs, RotatorPCs, ServerPCs, Keys, AtRow
<1>4. LocksOK /\ KeysOK /\ ReadsOK /\ CoverageOK /\ DigestsOK /\ RotationComplete
        /\ RotationKeepsSecrets /\ AnswersAgree
  BY DEF Init, Procs, Rows, AtRow, LocksOK, KeysOK, ReadsOK, CoverageOK, DigestsOK,
     RotationComplete, RotationKeepsSecrets, AnswersAgree
<1>5. DigestMatches
  BY <1>2 DEF DigestMatches, Rows
<1>6. FreshOK
  <2>1. \A p \in Servers, r \in Rows : staged[p][r] = Untouched
    BY DEF Init, Procs
  <2>. QED
    BY <1>1, <1>2, <2>1 DEF FreshOK
<1>. QED
  BY <1>3, <1>4, <1>5, <1>6 DEF IInv

\* The invariant is inductive.
LEMMA IInvInductive == IInv /\ [Next]_vars => IInv'
  BY TypeInductive, LocksOKInductive, KeysOKInductive, ReadsOKInductive,
     RotationKeepsSecretsInductive, CoverageOKInductive, RotationCompleteInductive,
     DigestsOKInductive, DigestMatchesInductive, FreshOKInductive, AnswersAgreeInductive
  DEF IInv

\* IInv is an invariant.
LEMMA Invariance == Spec => []IInv
  BY IInvInit, IInvInductive, PTL DEF Spec

\* Every variable keeps its type, through rotations, requests and failures.
THEOREM TypeCorrect == Spec => []TypeOK
<1>1. IInv => TypeOK
  BY DEF IInv
<1>. QED
  BY <1>1, Invariance, PTL

\* A rotation never overwrites a secret that a live server committed after the
\* rotation read the row: what it is about to commit is what the row holds.
THEOREM NoLostSecret == Spec => []RotationKeepsSecrets
<1>1. IInv => RotationKeepsSecrets
  BY DEF IInv
<1>. QED
  BY <1>1, Invariance, PTL

\* After a successful rotation, and for good, no secret needs another key than
\* the new one, however many rotations and servers ran beside it.
THEOREM Completeness == Spec => []RotationComplete
<1>1. IInv => RotationComplete
  BY DEF IInv
<1>. QED
  BY <1>1, Invariance, PTL

\* A failed rotation has no pending write and holds no lock.
THEOREM CleanFailure == Spec => []FailureLeavesNothing
<1>1. IInv => FailureLeavesNothing
  <2> SUFFICES ASSUME IInv, NEW p \in Rotators, pc[p] = "failed", NEW r \in Rows
               PROVE  staged[p][r] = Untouched /\ lock[r] # p
    BY DEF FailureLeavesNothing
  <2>1. lock[r] # p
    BY DEF IInv, LocksOK
  <2>. QED
    BY <2>1 DEF IInv, LocksOK, Procs
<1>. QED
  BY <1>1, Invariance, PTL

\* The committed digest of a webhook secret is the digest of that secret.
THEOREM DigestCorrect == Spec => []DigestMatches
<1>1. IInv => DigestMatches
  BY DEF IInv
<1>. QED
  BY <1>1, Invariance, PTL

\* Callers of get_or_create_bearer_secret converge on the value in the row.
THEOREM Agreement == Spec => []AnswersAgree
<1>1. IInv => AnswersAgree
  BY DEF IInv
<1>. QED
  BY <1>1, Invariance, PTL

\* The plaintexts behave as the abstract store, to which rotations are invisible.
THEOREM Refinement == Spec => StoreSpec
<1> DEFINE sec == [r \in Rows |-> table[r].col.plain]
<1>1. Init => Store!Init
  <2> SUFFICES ASSUME Init PROVE Store!Init
    OBVIOUS
  <2>1. TypeOK /\ FreshOK
    BY IInvInit DEF IInv
  <2>2. \A r \in Rows : /\ table[r].col.plain \in Secrets \cup {NoSecret}
                        /\ table[r].col = Null <=> table[r].col.plain = NoSecret
    BY <2>1, RowValuesFacts, ColumnFacts DEF TypeOK
  <2>. QED
    BY <2>1, <2>2 DEF Store!Init, TypeOK, FreshOK
<1>2. IInv /\ [Next]_vars => [Store!Next]_<<sec, stored>>
  <2> SUFFICES ASSUME IInv, [Next]_vars, ~UNCHANGED <<sec, stored>>
               PROVE  Store!Next
    OBVIOUS
  <2> USE DEF IInv
  <2>1. ASSUME NEW p \in Rotators, CommitRotation(p)
        PROVE  UNCHANGED <<sec, stored>>
    BY <2>1, CommitRotationEffect
  <2>2. ASSUME NEW p \in Servers, CommitRequest(p)
        PROVE  Store!Next
    <3>1. cur[p] \in Rows
      BY <2>2, CommitRequestEffect
    <3>2. CASE table' = table /\ stored' = stored
      BY <3>2
    <3>3. CASE /\ staged[p][cur[p]] \in RowValues
               /\ staged[p][cur[p]] # Untouched
               /\ table' = [table EXCEPT ![cur[p]] = staged[p][cur[p]]]
               /\ stored' = stored \cup ({staged[p][cur[p]].col.plain} \cap Secrets)
      <4> DEFINE v == staged[p][cur[p]].col.plain
      <4>1. v \in Secrets \cup {NoSecret} /\ (staged[p][cur[p]].col = Null <=> v = NoSecret)
        BY <3>3, RowValuesFacts, ColumnFacts
      <4>2. sec' = [sec EXCEPT ![cur[p]] = v]
        BY <3>1, <3>3 DEF TypeOK
      <4>3. CASE v = NoSecret
        <5>1. stored' = stored
          BY <3>3, <4>3, SecretsAssumption
        <5>. QED
          BY <3>1, <4>2, <4>3, <5>1 DEF Store!Next, Store!Clear
      <4>4. CASE v # NoSecret
        <5>1. v \in Secrets \ stored
          BY <3>1, <3>3, <4>1, <4>4 DEF FreshOK
        <5>2. stored' = stored \cup {v}
          BY <3>3, <5>1
        <5>. QED
          BY <3>1, <4>2, <5>1, <5>2 DEF Store!Next, Store!Put
      <4>. QED
        BY <4>3, <4>4
    <3>. QED
      BY <2>2, <3>2, <3>3, CommitRequestEffect
  <2>3. CASE UNCHANGED <<table, stored>>
    BY <2>3
  <2>. QED
    BY <2>1, <2>2, <2>3 DEF Next, RotationStep, ServerStep, vars, FetchUserIds,
       FetchSessionIds, Visit, SelectForUpdate, ReEncrypt, SkipRotated, Undecryptable,
       DeadlockVictim, CrashRotation, Fail, Rollback, Request, Renew, Clear,
       LockAndRead, ReturnOrCreate, AbortRequest
<1>. QED
  BY <1>1, <1>2, Invariance, PTL DEF Spec, StoreSpec, Store!Spec
=============================================================================
