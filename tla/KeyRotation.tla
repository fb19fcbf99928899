----------------------------- MODULE KeyRotation -----------------------------
(***************************************************************************)
(* The bearer-secret columns of reana-db, the change of the key that       *)
(* encrypts them (change_key_encrypted_columns, run by the command         *)
(* "reana-db migrate-secret-key") and the live servers that keep writing   *)
(* secrets meanwhile (get_or_create_bearer_secret, the setter of           *)
(* User.gitlab_webhook_secret, the deletion of a secret).                  *)
(*                                                                         *)
(* PostgreSQL runs at READ COMMITTED: a query sees what is committed when  *)
(* it starts; SELECT ... FOR UPDATE and UPDATE first wait for the lock of  *)
(* the row and then see its latest committed version; locks are held to    *)
(* the end of the transaction; a cycle of waiting transactions is broken   *)
(* by aborting one of them.                                                *)
(***************************************************************************)
EXTENDS Naturals

CONSTANTS Users,      (* rows of user_: column gitlab_webhook_secret    *)
          Sessions,   (* rows of interactive_session: session_secret    *)
          Rotators,   (* processes running migrate-secret-key           *)
          Servers,    (* transactions of live servers, under the new key *)
          Secrets,    (* the plaintexts                                 *)
          NoSecret,   (* None in Python, NULL in the column             *)
          NoProc,     (* the holder of a lock that is free              *)
          NoRow,      (* no current row                                 *)
          Untouched   (* "this transaction has not written the row"     *)

Rows == Users \cup Sessions
Procs == Rotators \cup Servers

ASSUME RowsAssumption ==
  /\ Users \cap Sessions = {}
  /\ NoRow \notin Rows
ASSUME ProcsAssumption ==
  /\ Rotators \cap Servers = {}
  /\ NoProc \notin Procs
ASSUME SecretsAssumption == NoSecret \notin Secrets

VARIABLES table,      (* the committed secret column and digest of each row  *)
          lock,       (* the transaction that holds the lock of each row     *)
          pc,         (* where each process is                               *)
          key,        (* config.DB_SECRET_KEY of each process                *)
          todo,       (* the ids a rotation has still to visit               *)
          cur,        (* the row a process is at                             *)
          val,        (* the plaintext a process read                        *)
          staged,     (* the uncommitted writes of each process              *)
          stored      (* history: every secret that was ever committed       *)

vars == <<table, lock, pc, key, todo, cur, val, staged, stored>>

-----------------------------------------------------------------------------
(* Encrypted columns.                                                      *)

\* A third key stands for a corrupt value, or one under an unrelated key.
Keys == {"old", "new", "third"}

Null == [key |-> "none", plain |-> NoSecret]

Ciphertexts == [key : Keys, plain : Secrets]

Columns == Ciphertexts \cup {Null}

\* Mutated: None is encrypted like any other value.
Encrypt_NoneToo(k, v) == [key |-> k, plain |-> v]

\* EncryptedType leaves None alone and encrypts the rest under the key in force.
Encrypt(k, v) == IF v = NoSecret THEN Null ELSE [key |-> k, plain |-> v]

\* AES-GCM authenticates: a value decrypts under its own key only.
Decrypts(k, c) == c = Null \/ c.key = k

\* The digest column of a row, which only users have; SHA-256 is taken to be
\* injective, so a digest is named by the secret it is the digest of.
Digest(r, v) == IF r \in Users THEN v ELSE NoSecret

Row(r, k, v) == [col |-> Encrypt(k, v), digest |-> Digest(r, v)]

RowValues == [col : Columns, digest : Secrets \cup {NoSecret}]

ASSUME UntouchedAssumption == Untouched \notin RowValues

\* secrets are high-entropy random values: one that exists nowhere yet.
Fresh(v) == /\ v \in Secrets \ stored
            /\ \A q \in Procs, r \in Rows :
                 staged[q][r] # Untouched => staged[q][r].col.plain # v

RotatorPCs == {"idle", "sessions", "next", "select", "reselect", "update",
               "done", "failed"}
\* The steps at which a rotation is at a row.
AtRow == {"select", "reselect", "update"}

ServerPCs == {"idle", "renew", "clear", "ensure", "fill", "commit"}

-----------------------------------------------------------------------------
(* Transactions.                                                           *)

\* The lock of row r can be given to p.
Lockable(p, r) == lock[r] \in {NoProc, p}

Acquire(p, r) == lock' = [lock EXCEPT ![r] = p]

\* Commit or rollback frees every lock of p and forgets its uncommitted writes.
EndTransaction(p) ==
  /\ lock' = [r \in Rows |-> IF lock[r] = p THEN NoProc ELSE lock[r]]
  /\ staged' = [staged EXCEPT ![p] = [r \in Rows |-> Untouched]]

WriteBack(p) ==
  /\ table' = [r \in Rows |-> IF staged[p][r] = Untouched THEN table[r] ELSE staged[p][r]]
  /\ stored' = stored \cup {v \in Secrets : \E r \in Rows :
                              staged[p][r] # Untouched /\ staged[p][r].col.plain = v}

Rollback(p) == EndTransaction(p) /\ UNCHANGED <<table, stored>>

-----------------------------------------------------------------------------
(* change_key_encrypted_columns, one action per statement sent to the      *)
(* database.  It may be run again after success or failure.                *)

\* The ids of the users that have a webhook secret.
FetchUserIds(p) ==
  /\ pc[p] \in {"idle", "done", "failed"}
  /\ pc' = [pc EXCEPT ![p] = "sessions"]
  /\ todo' = [todo EXCEPT ![p] = {r \in Users : table[r].col # Null}]
  /\ UNCHANGED <<table, lock, key, cur, val, staged, stored>>

\* The ids of the interactive sessions that have a secret.
FetchSessionIds(p) ==
  /\ pc[p] = "sessions"
  /\ pc' = [pc EXCEPT ![p] = "next"]
  /\ todo' = [todo EXCEPT ![p] = @ \cup {r \in Sessions : table[r].col # Null}]
  /\ UNCHANGED <<table, lock, key, cur, val, staged, stored>>

\* Users come before sessions; within a table the order is the database's.
NextIds(p) == IF todo[p] \cap Users # {} THEN todo[p] \cap Users ELSE todo[p]

\* Take the next id and put the old key in force to read the row.
Visit(p, r) ==
  /\ pc[p] = "next"
  /\ r \in NextIds(p)
  /\ pc' = [pc EXCEPT ![p] = "select"]
  /\ todo' = [todo EXCEPT ![p] = @ \ {r}]
  /\ cur' = [cur EXCEPT ![p] = r]
  /\ key' = [key EXCEPT ![p] = "old"]
  /\ UNCHANGED <<table, lock, val, staged, stored>>

\* Mutated: the row is read without FOR UPDATE.
SelectForUpdate_NoLock(p) ==
  /\ pc[p] = "select"
  /\ key' = [key EXCEPT ![p] = "new"]
  /\ Decrypts(key[p], table[cur[p]].col)
  /\ val' = [val EXCEPT ![p] = table[cur[p]].col.plain]
  /\ pc' = [pc EXCEPT ![p] = "update"]
  /\ UNCHANGED <<table, lock, todo, cur, staged, stored>>

\* SELECT ... FOR UPDATE of the row, decrypted under the old key; in any case
\* the new key is put back in force.  Nothing is read if it cannot be decrypted.
SelectForUpdate(p) ==
  /\ pc[p] = "select"
  /\ Lockable(p, cur[p])
  /\ Acquire(p, cur[p])
  /\ key' = [key EXCEPT ![p] = "new"]
  /\ \/ /\ Decrypts(key[p], table[cur[p]].col)
        /\ val' = [val EXCEPT ![p] = table[cur[p]].col.plain]
        /\ pc' = [pc EXCEPT ![p] = "update"]
     \/ /\ ~Decrypts(key[p], table[cur[p]].col)
        /\ pc' = [pc EXCEPT ![p] = "reselect"]
        /\ UNCHANGED val
  /\ UNCHANGED <<table, todo, cur, staged, stored>>

\* Mutated: the old key is still in force when the value is encrypted.
ReEncrypt_OldKey(p) ==
  /\ pc[p] = "update"
  /\ staged' = [staged EXCEPT ![p][cur[p]] =
                  [col |-> Encrypt("old", val[p]), digest |-> table[cur[p]].digest]]
  /\ pc' = [pc EXCEPT ![p] = "next"]
  /\ cur' = [cur EXCEPT ![p] = NoRow]
  /\ val' = [val EXCEPT ![p] = NoSecret]
  /\ UNCHANGED <<table, lock, key, todo, stored>>

\* The row was decrypted: write the plaintext back, encrypted under the key in
\* force.  The digest column is not part of the UPDATE.
ReEncrypt(p) ==
  /\ pc[p] = "update"
  /\ Lockable(p, cur[p])
  /\ Acquire(p, cur[p])
  /\ staged' = [staged EXCEPT ![p][cur[p]] =
                  [col |-> Encrypt(key[p], val[p]), digest |-> table[cur[p]].digest]]
  /\ pc' = [pc EXCEPT ![p] = "next"]
  /\ cur' = [cur EXCEPT ![p] = NoRow]
  /\ val' = [val EXCEPT ![p] = NoSecret]
  /\ UNCHANGED <<table, key, todo, stored>>

\* The old key failed: a row that the new key decrypts was rotated by a live
\* writer and is skipped.
SkipRotated(p) ==
  /\ pc[p] = "reselect"
  /\ Lockable(p, cur[p])
  /\ Acquire(p, cur[p])
  /\ Decrypts("new", table[cur[p]].col)
  /\ pc' = [pc EXCEPT ![p] = "next"]
  /\ cur' = [cur EXCEPT ![p] = NoRow]
  /\ UNCHANGED <<table, key, todo, val, staged, stored>>

\* Mutated: the error handler does not roll the session back.
Fail_NoRollback(p) ==
  /\ pc' = [pc EXCEPT ![p] = "failed"]
  /\ key' = [key EXCEPT ![p] = "new"]
  /\ todo' = [todo EXCEPT ![p] = {}]
  /\ cur' = [cur EXCEPT ![p] = NoRow]
  /\ val' = [val EXCEPT ![p] = NoSecret]
  /\ UNCHANGED <<table, lock, staged, stored>>

\* What the failure of a rotation leaves behind.
Fail(p) ==
  /\ Rollback(p)
  /\ pc' = [pc EXCEPT ![p] = "failed"]
  /\ key' = [key EXCEPT ![p] = "new"]
  /\ todo' = [todo EXCEPT ![p] = {}]
  /\ cur' = [cur EXCEPT ![p] = NoRow]
  /\ val' = [val EXCEPT ![p] = NoSecret]

\* Mutated: the row is tried again instead of raising.
Undecryptable_Retries(p) ==
  /\ pc[p] = "reselect"
  /\ ~Decrypts("new", table[cur[p]].col)
  /\ pc' = [pc EXCEPT ![p] = "select"]
  /\ key' = [key EXCEPT ![p] = "old"]
  /\ UNCHANGED <<table, lock, todo, cur, val, staged, stored>>

\* Neither key decrypts the row: everything is rolled back and the error raised.
Undecryptable(p) ==
  /\ pc[p] = "reselect"
  /\ ~Decrypts("new", table[cur[p]].col)
  /\ Fail(p)

\* Every id was visited: the one commit of the rotation.
CommitRotation(p) ==
  /\ pc[p] = "next"
  /\ todo[p] = {}
  /\ WriteBack(p)
  /\ EndTransaction(p)
  /\ pc' = [pc EXCEPT ![p] = "done"]
  /\ UNCHANGED <<key, todo, cur, val>>

\* p waits for the lock of a row that another transaction holds.
Waits(p) == pc[p] = "select" /\ ~Lockable(p, cur[p])

\* PostgreSQL aborts a transaction that waits in a cycle; only rotations wait
\* while they hold locks.
DeadlockVictim(p) ==
  /\ \E S \in SUBSET Rotators :
       /\ p \in S
       /\ \A q \in S : Waits(q)
       /\ {lock[cur[q]] : q \in S} = S
  /\ Fail(p)

\* The command is killed, or loses its connection.
CrashRotation(p) ==
  /\ pc[p] \notin {"idle", "done", "failed"}
  /\ Fail(p)

-----------------------------------------------------------------------------
(* Live servers: one transaction on one row at a time, under the new key.  *)

\* A request renews the secret of row r, clears it (or deletes the row), or
\* asks for the secret with get_or_create_bearer_secret.
Request(p, r) ==
  /\ pc[p] = "idle"
  /\ \E op \in {"renew", "clear", "ensure"} : pc' = [pc EXCEPT ![p] = op]
  /\ cur' = [cur EXCEPT ![p] = r]
  /\ UNCHANGED <<table, lock, key, todo, val, staged, stored>>

\* Mutated: the value is set without its digest.
SetSecret_ValueOnly(p, r, v) ==
  staged' = [staged EXCEPT ![p][r] =
               [col |-> Encrypt(key[p], v), digest |-> table[r].digest]]

\* The setter of the secret keeps the digest with the value.
SetSecret(p, r, v) ==
  staged' = [staged EXCEPT ![p][r] = Row(r, key[p], v)]

\* UPDATE of the row with a new secret.
Renew(p) ==
  /\ pc[p] = "renew"
  /\ Lockable(p, cur[p])
  /\ Acquire(p, cur[p])
  /\ \E v \in Secrets : Fresh(v) /\ SetSecret(p, cur[p], v)
  /\ pc' = [pc EXCEPT ![p] = "commit"]
  /\ UNCHANGED <<table, key, todo, cur, val, stored>>

\* UPDATE of the row with no secret.
Clear(p) ==
  /\ pc[p] = "clear"
  /\ Lockable(p, cur[p])
  /\ Acquire(p, cur[p])
  /\ SetSecret(p, cur[p], NoSecret)
  /\ pc' = [pc EXCEPT ![p] = "commit"]
  /\ UNCHANGED <<table, key, todo, cur, val, stored>>

\* Mutated: the row is read without FOR UPDATE.
LockAndRead_NoLock(p) ==
  /\ pc[p] = "ensure"
  /\ Decrypts(key[p], table[cur[p]].col)
  /\ val' = [val EXCEPT ![p] = table[cur[p]].col.plain]
  /\ pc' = [pc EXCEPT ![p] = "fill"]
  /\ UNCHANGED <<table, lock, key, todo, cur, staged, stored>>

\* get_or_create_bearer_secret: lock the row and read what is in it now; the
\* guard of decryption is in the load of the row.
LockAndRead(p) ==
  /\ pc[p] = "ensure"
  /\ Lockable(p, cur[p])
  /\ Decrypts(key[p], table[cur[p]].col)
  /\ Acquire(p, cur[p])
  /\ val' = [val EXCEPT ![p] = table[cur[p]].col.plain]
  /\ pc' = [pc EXCEPT ![p] = "fill"]
  /\ UNCHANGED <<table, key, todo, cur, staged, stored>>

\* get_or_create_bearer_secret: return the secret found, or a new one that is
\* written to the row; the caller commits.
ReturnOrCreate(p) ==
  /\ pc[p] = "fill"
  /\ \/ val[p] # NoSecret /\ UNCHANGED <<val, staged>>
     \/ /\ val[p] = NoSecret
        /\ \E v \in Secrets : /\ Fresh(v)
                              /\ SetSecret(p, cur[p], v)
                              /\ val' = [val EXCEPT ![p] = v]
  /\ pc' = [pc EXCEPT ![p] = "commit"]
  /\ UNCHANGED <<table, lock, key, todo, cur, stored>>

Answered(p) ==
  /\ pc' = [pc EXCEPT ![p] = "idle"]
  /\ cur' = [cur EXCEPT ![p] = NoRow]
  /\ val' = [val EXCEPT ![p] = NoSecret]
  /\ UNCHANGED <<key, todo>>

CommitRequest(p) ==
  /\ pc[p] = "commit"
  /\ WriteBack(p)
  /\ EndTransaction(p)
  /\ Answered(p)

\* The request fails (the row does not decrypt, the server dies, ...).
AbortRequest(p) ==
  /\ pc[p] # "idle"
  /\ Rollback(p)
  /\ Answered(p)

-----------------------------------------------------------------------------
\* Before the rotation the columns hold distinct secrets under the old key,
\* some already under the new one, some that neither decrypts, or nothing.
Init ==
  /\ \E k \in [Rows -> Keys], v \in [Rows -> Secrets \cup {NoSecret}] :
       /\ \A r, q \in Rows : r # q /\ v[r] # NoSecret => v[r] # v[q]
       /\ table = [r \in Rows |-> Row(r, k[r], v[r])]
       /\ stored = {v[r] : r \in Rows} \ {NoSecret}
  /\ lock = [r \in Rows |-> NoProc]
  /\ pc = [p \in Procs |-> "idle"]
  /\ key = [p \in Procs |-> "new"]
  /\ todo = [p \in Procs |-> {}]
  /\ cur = [p \in Procs |-> NoRow]
  /\ val = [p \in Procs |-> NoSecret]
  /\ staged = [p \in Procs |-> [r \in Rows |-> Untouched]]

\* The steps a rotation takes without waiting for anybody.
RotationStep(p) ==
  \/ FetchUserIds(p) \/ FetchSessionIds(p)
  \/ \E r \in Rows : Visit(p, r)
  \/ ReEncrypt(p) \/ SkipRotated(p) \/ Undecryptable(p)
  \/ CommitRotation(p) \/ DeadlockVictim(p)

ServerStep(p) ==
  \/ Renew(p) \/ Clear(p) \/ LockAndRead(p) \/ ReturnOrCreate(p)
  \/ CommitRequest(p) \/ AbortRequest(p)

Next ==
  \/ \E p \in Rotators : RotationStep(p) \/ SelectForUpdate(p) \/ CrashRotation(p)
  \/ \E p \in Servers : ServerStep(p) \/ \E r \in Rows : Request(p, r)

\* Every process keeps running, every transaction of a server ends, and the
\* queue of a row lock lets a waiting rotation through.
Fairness ==
  /\ \A p \in Rotators : WF_vars(RotationStep(p)) /\ SF_vars(SelectForUpdate(p))
  /\ \A p \in Servers : WF_vars(ServerStep(p))

Spec == Init /\ [][Next]_vars
FairSpec == Spec /\ Fairness
-----------------------------------------------------------------------------
(* Properties.                                                             *)

TypeOK ==
  /\ table \in [Rows -> RowValues]
  /\ lock \in [Rows -> Procs \cup {NoProc}]
  /\ pc \in [Procs -> RotatorPCs \cup ServerPCs]
  /\ \A p \in Rotators : pc[p] \in RotatorPCs
  /\ \A p \in Servers : pc[p] \in ServerPCs
  /\ key \in [Procs -> Keys]
  /\ todo \in [Procs -> SUBSET Rows]
  /\ cur \in [Procs -> Rows \cup {NoRow}]
  /\ \A p \in Rotators : pc[p] \in AtRow => cur[p] \in Rows
  /\ \A p \in Servers : pc[p] # "idle" => cur[p] \in Rows
  /\ val \in [Procs -> Secrets \cup {NoSecret}]
  /\ staged \in [Procs -> [Rows -> RowValues \cup {Untouched}]]
  /\ stored \in SUBSET Secrets

\* A webhook delivery finds its user by digest: whatever rotations and
\* requests do, the committed digest is the digest of the committed secret,
\* and is NULL exactly when the secret is (User.gitlab_webhook_secret.setter,
\* the check constraint gitlab_webhook_secret_complete).
DigestMatches ==
  \A u \in Users : table[u].digest = table[u].col.plain

\* "This prevents a concurrent new-key write from landing between the old-key
\* read and the rotation update and then being overwritten by stale plaintext":
\* what a rotation is about to commit over a row is the secret the row holds.
RotationKeepsSecrets ==
  \A p \in Rotators, r \in Rows :
    staged[p][r] # Untouched => /\ staged[p][r].col.plain = table[r].col.plain
                                /\ staged[p][r].digest = table[r].digest

\* Once a rotation has succeeded the old key is not needed any more: every
\* secret is under the new key, those written meanwhile included, and none is
\* left that no key decrypts.
RotationComplete ==
  (\E p \in Rotators : pc[p] = "done") =>
    \A r \in Rows : table[r].col # Null => table[r].col.key = "new"

\* A rotation that failed leaves no pending write for a later commit of the same
\* session to persist, and blocks nobody.
FailureLeavesNothing ==
  \A p \in Rotators : pc[p] = "failed" =>
    \A r \in Rows : staged[p][r] = Untouched /\ lock[r] # p

\* get_or_create_bearer_secret: callers racing on an empty row converge on one
\* value.  The secret a caller is given is the one the row holds when it
\* commits, and it created it only if the row is still empty.
AnswersAgree ==
  \A p \in Servers :
    pc[p] = "commit" /\ val[p] # NoSecret =>
      IF staged[p][cur[p]] = Untouched
      THEN table[cur[p]].col.plain = val[p]
      ELSE staged[p][cur[p]].col.plain = val[p] /\ table[cur[p]].col = Null

\* Seen from its plaintexts the database is the abstract store of secrets: a
\* rotation changes nothing in it, at no time, however it ends.
Store == INSTANCE SecretStore
           WITH secret <- [r \in Rows |-> table[r].col.plain], used <- stored

StoreSpec == Store!Spec

\* A rotation comes to an end, although servers keep taking row locks and
\* rotations may wait for each other.
RotationEnds ==
  \A p \in Rotators : pc[p] = "sessions" ~> pc[p] \in {"done", "failed"}
-----------------------------------------------------------------------------
(* The inductive invariant behind the safety properties.                   *)

\* Pending writes are under locks, and are where they can be.
LocksOK ==
  /\ \A p \in Procs, r \in Rows : staged[p][r] # Untouched => lock[r] = p
  /\ \A p \in Rotators :
       /\ pc[p] \in {"update", "reselect"} => lock[cur[p]] = p
       /\ pc[p] \in {"idle", "sessions", "done", "failed"} =>
            \A r \in Rows : lock[r] # p
  /\ \A p \in Servers :
       /\ pc[p] \in {"fill", "commit"} => lock[cur[p]] = p
       /\ pc[p] \in {"idle", "renew", "clear", "ensure"} => \A r \in Rows : lock[r] # p
       /\ pc[p] = "fill" => \A r \in Rows : staged[p][r] = Untouched
       /\ pc[p] = "commit" => \A r \in Rows : r # cur[p] => staged[p][r] = Untouched

\* Only a rotation waiting to read a row has the old key in force.
KeysOK ==
  /\ \A p \in Procs : key[p] = IF pc[p] = "select" THEN "old" ELSE "new"
  /\ \A p \in Procs, r \in Rows :
       staged[p][r] # Untouched /\ staged[p][r].col # Null =>
         staged[p][r].col.key = "new"

\* What was read is still there.
ReadsOK ==
  /\ \A p \in Rotators : pc[p] = "update" => val[p] = table[cur[p]].col.plain
  /\ \A p \in Servers :
       /\ pc[p] \in {"idle", "renew", "clear", "ensure"} => val[p] = NoSecret
       /\ pc[p] = "fill" => val[p] = table[cur[p]].col.plain

\* The rows a rotation still has to deal with are those not under the new key.
CoverageOK ==
  \A p \in Rotators, r \in Rows :
    (/\ table[r].col # Null
     /\ table[r].col.key # "new"
     /\ \/ pc[p] \in {"next"} \cup AtRow
        \/ pc[p] = "sessions" /\ r \in Users)
    => \/ r \in todo[p]
       \/ pc[p] \in AtRow /\ r = cur[p]
       \/ staged[p][r] # Untouched

\* Digests go with their secrets in the writes of servers too.
DigestsOK ==
  \A p \in Servers, u \in Users :
    staged[p][u] # Untouched => staged[p][u].digest = staged[p][u].col.plain

\* A secret is stored once, and the one a server is about to store is new.
FreshOK ==
  /\ \A r \in Rows : table[r].col # Null => table[r].col.plain \in stored
  /\ \A r, q \in Rows : r # q /\ table[r].col # Null =>
                           table[r].col.plain # table[q].col.plain
  /\ \A p \in Servers, r \in Rows :
       staged[p][r] # Untouched /\ staged[p][r].col # Null =>
         /\ staged[p][r].col.plain \notin stored
         /\ \A q \in Servers, s \in Rows :
              p # q /\ staged[q][s] # Untouched =>
                staged[p][r].col.plain # staged[q][s].col.plain

IInv ==
  /\ TypeOK /\ LocksOK /\ KeysOK /\ ReadsOK /\ RotationKeepsSecrets
  /\ CoverageOK /\ RotationComplete /\ DigestsOK /\ DigestMatches
  /\ FreshOK /\ AnswersAgree
=============================================================================
