----------------------------- MODULE SecretStore -----------------------------
(***************************************************************************)
(* What REANA promises about the bearer secrets it stores (the webhook     *)
(* secret of a user, the secret of an interactive session), whatever keys  *)
(* encrypt them: a row holds at most one secret, a secret that is written  *)
(* is freshly generated, and nothing but writing and clearing changes it.  *)
(* In particular changing the encryption key is invisible here.            *)
(***************************************************************************)
EXTENDS TLAPS

CONSTANTS Rows,      (* the rows that own a bearer secret       *)
          Secrets,   (* the values that can be generated        *)
          NoSecret   (* the NULL of an empty column             *)

VARIABLES secret,    (* the plaintext of the secret of each row *)
          used       (* every secret that was ever stored       *)

Init == /\ secret \in [Rows -> Secrets \cup {NoSecret}]
        /\ used \in SUBSET Secrets
        /\ \A r \in Rows : secret[r] # NoSecret => secret[r] \in used
        /\ \A r, q \in Rows : r # q /\ secret[r] # NoSecret => secret[r] # secret[q]

\* A freshly generated secret takes the place of whatever the row held.
Put(r, v) == /\ v \in Secrets \ used
             /\ secret' = [secret EXCEPT ![r] = v]
             /\ used' = used \cup {v}

Clear(r) == /\ secret' = [secret EXCEPT ![r] = NoSecret]
            /\ UNCHANGED used

Next == \E r \in Rows : Clear(r) \/ \E v \in Secrets : Put(r, v)

Spec == Init /\ [][Next]_<<secret, used>>
-----------------------------------------------------------------------------
\* A secret that was replaced or cleared never comes back, in any row: a
\* leaked credential that the owner renewed stays dead.
NoResurrection ==
  [][\A r \in Rows : \A v \in used : secret[r] # v => secret'[r] # v]_<<secret, used>>

\* No two rows ever share a secret.
Unshared == \A r, q \in Rows : r # q /\ secret[r] # NoSecret => secret[r] # secret[q]
-----------------------------------------------------------------------------
\* The types, every secret in the store being a used one, and no two rows
\* sharing a secret, hold together.
StoreInv == /\ secret \in [Rows -> Secrets \cup {NoSecret}]
            /\ used \in SUBSET Secrets
            /\ \A r \in Rows : secret[r] # NoSecret => secret[r] \in used
            /\ Unshared

LEMMA StoreInvariance ==
  ASSUME NoSecret \notin Secrets
  PROVE  Spec => []StoreInv
<1>1. Init => StoreInv
  BY DEF Init, StoreInv, Unshared
<1>2. StoreInv /\ [Next]_<<secret, used>> => StoreInv'
  <2> SUFFICES ASSUME StoreInv, [Next]_<<secret, used>> PROVE StoreInv'
    OBVIOUS
  <2>. USE DEF StoreInv, Unshared
  <2>1. ASSUME NEW r \in Rows, Clear(r) PROVE StoreInv'
    BY <2>1 DEF Clear
  <2>2. ASSUME NEW r \in Rows, NEW v \in Secrets, Put(r, v) PROVE StoreInv'
    BY <2>2 DEF Put
  <2>3. CASE UNCHANGED <<secret, used>>
    BY <2>3
  <2>. QED
    BY <2>1, <2>2, <2>3 DEF Next
<1>. QED
  BY <1>1, <1>2, PTL DEF Spec

\* A renewed or cleared secret stays dead: no row ever holds it again.
THEOREM Resurrection ==
  ASSUME NoSecret \notin Secrets
  PROVE  Spec => NoResurrection
<1>1. StoreInv /\ [Next]_<<secret, used>> =>
        [\A r \in Rows : \A v \in used : secret[r] # v => secret'[r] # v]_<<secret, used>>
  BY DEF StoreInv, Next, Put, Clear
<1>. QED
  BY <1>1, StoreInvariance, PTL DEF Spec, NoResurrection

\* A secret identifies one row: a webhook delivery cannot be taken for another
\* user's.
THEOREM SecretsUnshared ==
  ASSUME NoSecret \notin Secrets
  PROVE  Spec => []Unshared
<1>1. StoreInv => Unshared
  BY DEF StoreInv
<1>. QED
  BY <1>1, StoreInvariance, PTL
=============================================================================
