-------------------------- MODULE RunNumbersProofs --------------------------
(***************************************************************************)
(* Proofs about RunNumbers, for any users, names, clients and bounds: how  *)
(* runs are numbered, that a full name finds its workflow, and that shares *)
(* end at the same moment in Python and in SQL.                            *)
(***************************************************************************)
EXTENDS RunNumbers, SequenceTheorems, WellFoundedInduction, TLAPS

USE NamesAssumption, DayAssumption, NoneAssumption, BoundsAssumption, RowAssumption
-----------------------------------------------------------------------------
(* The last of some runs.                                                  *)

\* A set of numbers has a least element.
LEMMA Least ==
  ASSUME NEW T \in SUBSET Nat, T # {}
  PROVE  \E x \in T : \A y \in T : x <= y
<1> DEFINE R == {ss \in Nat \X Nat : ss[1] < ss[2]}
<1>1. IsWellFoundedOn(R, Nat)
  <2>1. OpToRel(<, Nat) = R
    BY Zenon DEF OpToRel
  <2>. QED BY <2>1, NatLessThanWellFounded, Zenon
<1> HIDE DEF R
<1>2. PICK x \in T : \A y \in T : ~(<<y, x>> \in R)
  BY <1>1, WFMin
<1>3. ASSUME NEW y \in T PROVE x <= y
  <2>1. x \in Nat /\ y \in Nat
    OBVIOUS
  <2>2. y < x => <<y, x>> \in R
    BY <2>1 DEF R
  <2>. QED BY <1>2, <2>1, <2>2
<1>. QED BY <1>3

\* A bounded set of numbers has a greatest element.
LEMMA Greatest ==
  ASSUME NEW T \in SUBSET Nat, T # {}, NEW b \in Nat, \A x \in T : x <= b
  PROVE  \E x \in T : \A y \in T : y <= x
<1> DEFINE D == {b - x : x \in T}
<1>1. D \in SUBSET Nat /\ D # {}
  <2>1. \A x \in T : b - x \in Nat
    OBVIOUS
  <2>. QED BY <2>1
<1>2. PICK d \in D : \A e \in D : d <= e
  BY <1>1, Least
<1>3. PICK x \in T : d = b - x
  OBVIOUS
<1>4. \A y \in T : b - x <= b - y
  BY <1>2, <1>3
<1>. QED BY <1>4

Bounded(w) == w.major <= MaxMajor /\ w.minor <= MaxMinor

\* Latest(S) is one of S, and none of S comes after it.
LEMMA LatestIsLast ==
  ASSUME NEW S \in SUBSET Workflow, S # {}, \A w \in S : Bounded(w)
  PROVE  Latest(S) \in S /\ \A v \in S : ~Before(Latest(S), v)
<1>1. PICK a \in {w.major : w \in S} : \A y \in {w.major : w \in S} : y <= a
  <2> DEFINE T == {w.major : w \in S}
  <2>1. T \in SUBSET Nat /\ T # {} /\ \A x \in T : x <= MaxMajor
    BY DEF Workflow, Bounded
  <2>. QED BY <2>1, Greatest
<1> DEFINE A == {w \in S : w.major = a}
<1>2. PICK i \in {w.minor : w \in A} : \A y \in {w.minor : w \in A} : y <= i
  <2> DEFINE T == {w.minor : w \in A}
  <2>1. T \in SUBSET Nat /\ T # {} /\ \A x \in T : x <= MaxMinor
    BY <1>1 DEF Workflow, Bounded
  <2>. QED BY <2>1, Greatest
<1>3. PICK w \in A : w.minor = i
  BY <1>2
<1>4. ASSUME NEW v \in S PROVE ~Before(w, v)
  <2>1. v.major \in Nat /\ v.minor \in Nat /\ v.major <= a /\ w.major = a
    BY <1>1, <1>3 DEF Workflow
  <2>2. v.major = a => v.minor <= i
    BY <1>2
  <2>. QED BY <1>3, <2>1, <2>2 DEF Before, Workflow
<1>. QED BY <1>3, <1>4 DEF Latest

-----------------------------------------------------------------------------
(* The inductive invariant.                                                *)

\* How workflows are numbered, in the table or about to be.
WellNumbered(w) ==
  /\ Bounded(w) /\ w.major >= 1
  /\ w.restart <=> w.minor # 0

AllWellNumbered ==
  /\ \A w \in table : WellNumbered(w)
  /\ \A p \in Clients : row[p] # None => WellNumbered(row[p])

\* No number is used twice, or inserted while it is used.
NumbersUnique ==
  /\ \A v, w \in table : SameNumber(v, w) => v = w
  /\ \A p \in Clients : pc[p] = "inserted" =>
       /\ ~Taken(p)
       /\ \A q \in Clients \ {p} : pc[q] = "inserted" => ~SameNumber(row[q], row[p])

\* What a workflow is numbered after is in the table.
Grounded(w) ==
  /\ \A k \in 1..w.major : k < w.major \/ w.minor > 0 =>
       \E v \in table : SameName(v, w) /\ v.major = k /\ v.minor = 0
  /\ \A k \in 0..w.minor : k < w.minor =>
       \E v \in table : SameName(v, w) /\ v.major = w.major /\ v.minor = k

RowsGrounded == \A p \in Clients : row[p] # None => Grounded(row[p])

Inv ==
  /\ TypeOK /\ AllWellNumbered /\ NumbersUnique
  /\ RowsGrounded /\ NoGaps /\ NoNeedlessClash

-----------------------------------------------------------------------------
\* What get_new_run_number returns: a number that fits the table and that none of
\* the runs it was to come after has.
LEMMA NewNumber ==
  ASSUME Inv, NEW u \in Users, NEW n \in Names, NEW restart \in BOOLEAN,
         NEW S, S \subseteq table, \A w \in S : w.owner = u /\ w.name = n,
         restart => S # {},
         Numbered(u, n, restart, S).major <= MaxMajor,
         Numbered(u, n, restart, S).minor <= MaxMinor
  PROVE  LET new == Numbered(u, n, restart, S)
         IN /\ new \in Workflow /\ new.owner = u /\ new.name = n /\ new.restart = restart
            /\ WellNumbered(new) /\ Grounded(new)
            /\ restart => \E w \in S : w.major = new.major
            /\ \A w \in S : (restart => w.major = new.major) => ~SameNumber(w, new)
<1> DEFINE new == Numbered(u, n, restart, S)
<1> DEFINE last == Latest(S)
<1>1. /\ table \in SUBSET Workflow
      /\ \A w \in table : WellNumbered(w) /\ Bounded(w)
      /\ NoGaps
  BY DEF Inv, TypeOK, AllWellNumbered, WellNumbered
<1>2. S # {} => last \in S /\ \A v \in S : ~Before(last, v)
  BY <1>1, LatestIsLast
<1> HIDE DEF last
<1>3. /\ new.owner = u /\ new.name = n /\ new.restart = restart
      /\ new.major = IF S = {} THEN 1 ELSE IF restart THEN last.major ELSE last.major + 1
      /\ new.minor = IF restart THEN last.minor + 1 ELSE 0
      /\ new = [owner |-> new.owner, name |-> new.name, restart |-> new.restart,
                major |-> new.major, minor |-> new.minor]
  BY DEF Numbered, last
<1>3b. new.major <= MaxMajor /\ new.minor <= MaxMinor
  OBVIOUS
<1> HIDE DEF new
<1>4. S # {} => /\ last \in table /\ last \in Workflow
                /\ last.major \in Nat /\ last.minor \in Nat /\ last.major >= 1
                /\ last.owner = u /\ last.name = n
  BY <1>1, <1>2 DEF WellNumbered, Workflow
<1>5. new.major \in Nat /\ new.minor \in Nat /\ new.major >= 1
  BY <1>3, <1>4
<1>6. new \in Workflow
  BY <1>3, <1>5 DEF Workflow
<1>7. WellNumbered(new)
  BY <1>3, <1>3b, <1>4, <1>5 DEF WellNumbered, Bounded
<1>8. Grounded(new)
  <2>1. CASE S = {}
    BY <2>1, <1>3 DEF Grounded
  <2>2. CASE S # {} /\ restart
    BY <2>2, <1>1, <1>3, <1>4 DEF Grounded, NoGaps, SameName
  <2>3. CASE S # {} /\ ~restart
    BY <2>3, <1>1, <1>3, <1>4 DEF Grounded, NoGaps, SameName
  <2>. QED BY <2>1, <2>2, <2>3
<1>9. restart => \E w \in S : w.major = new.major
  BY <1>2, <1>3
<1>10. ASSUME NEW w \in S, restart => w.major = new.major
       PROVE  ~SameNumber(w, new)
  <2>1. ~Before(last, w) /\ w.major \in Nat /\ w.minor \in Nat
    BY <1>1, <1>2 DEF Workflow
  <2>. QED BY <2>1, <1>3, <1>4, <1>10 DEF Before, SameNumber
<1>. QED BY <1>3, <1>6, <1>7, <1>8, <1>9, <1>10 DEF new

LEMMA InvConstruct ==
  ASSUME Inv, NEW p \in Clients, NEW u \in Users, NEW n \in Names,
         NEW restart \in BOOLEAN, NEW of, of # None => restart,
         Construct(p, u, n, restart, of)
  PROVE  Inv'
<1> DEFINE S == Candidates(u, n, of)
<1> DEFINE new == Numbered(u, n, restart, S)
<1>1. /\ TypeOK /\ AllWellNumbered /\ NumbersUnique
      /\ RowsGrounded /\ NoGaps /\ NoNeedlessClash
  BY DEF Inv
<1>2. /\ S \subseteq table
      /\ \A w \in S : w.owner = u /\ w.name = n
      /\ of = None => \A w \in table : w.owner = u /\ w.name = n /\ ~w.restart => w \in S
      /\ of # None => \A w, v \in table :
           v \in S /\ w.owner = u /\ w.name = n /\ w.major = v.major => w \in S
  BY DEF Candidates
<1>3. /\ pc[p] = "idle" /\ (restart => S # {})
      /\ new.major <= MaxMajor /\ new.minor <= MaxMinor
      /\ pc' = [pc EXCEPT ![p] = "new"]
      /\ row' = [row EXCEPT ![p] = new]
      /\ given' = [given EXCEPT ![p] = of # None]
      /\ quiet' = [quiet EXCEPT ![p] = TRUE]
      /\ table' = table /\ shares' = shares /\ now' = now
  BY DEF Construct
<1> HIDE DEF S
<1>4. /\ new \in Workflow /\ new.owner = u /\ new.name = n /\ new.restart = restart
      /\ WellNumbered(new) /\ Grounded(new)
      /\ restart => \E w \in S : w.major = new.major
      /\ \A w \in S : (restart => w.major = new.major) => ~SameNumber(w, new)
  BY <1>2, <1>3, NewNumber
<1> HIDE DEF new
<1>5. /\ pc' \in [Clients -> {"idle", "new", "inserted"}]
      /\ row' \in [Clients -> Workflow \cup {None}]
      /\ given' \in [Clients -> BOOLEAN] /\ quiet' \in [Clients -> BOOLEAN]
      /\ pc'[p] = "new" /\ row'[p] = new /\ given'[p] = (of # None)
      /\ \A q \in Clients \ {p} :
           pc'[q] = pc[q] /\ row'[q] = row[q] /\ given'[q] = given[q] /\ quiet'[q] = quiet[q]
  BY <1>1, <1>3, <1>4 DEF TypeOK
<1>6. TypeOK'
  <2>1. \A q \in Clients : row'[q] = None <=> pc'[q] = "idle"
    BY <1>1, <1>4, <1>5 DEF TypeOK
  <2>. QED BY <1>1, <1>3, <1>5, <2>1 DEF TypeOK
<1>7. AllWellNumbered'
  BY <1>1, <1>3, <1>4, <1>5 DEF AllWellNumbered, WellNumbered, Bounded
<1>8. NumbersUnique'
  BY <1>1, <1>3, <1>5 DEF NumbersUnique, Taken, SameNumber, SameName
<1>9. RowsGrounded' /\ NoGaps'
  BY <1>1, <1>3, <1>4, <1>5 DEF RowsGrounded, Grounded, NoGaps, SameName
<1>10. NoNeedlessClash'
  <2>1. (restart => of # None) => ~\E w \in table : SameNumber(w, new)
    <3> SUFFICES ASSUME restart => of # None, NEW w \in table, SameNumber(w, new)
                 PROVE  FALSE
      OBVIOUS
    <3>1. w.owner = u /\ w.name = n /\ w.major = new.major /\ w.minor = new.minor
      BY <1>4 DEF SameNumber, SameName
    <3>2. w.restart = restart
      BY <1>1, <1>4, <3>1 DEF AllWellNumbered, WellNumbered, TypeOK, Workflow
    <3>3. w \in S
      <4>1. CASE restart
        BY <4>1, <1>2, <1>4, <3>1
      <4>2. CASE ~restart
        BY <4>2, <1>2, <3>1, <3>2
      <4>. QED BY <4>1, <4>2
    <3>. QED BY <1>4, <3>1, <3>3
  <2>. QED BY <1>1, <1>3, <1>4, <1>5, <2>1 DEF NoNeedlessClash, Taken, SameNumber, SameName
<1>. QED BY <1>6, <1>7, <1>8, <1>9, <1>10 DEF Inv

LEMMA InvInsert ==
  ASSUME Inv, NEW p \in Clients, Insert(p)
  PROVE  Inv'
<1>1. /\ TypeOK /\ AllWellNumbered /\ NumbersUnique
      /\ RowsGrounded /\ NoGaps /\ NoNeedlessClash
  BY DEF Inv
<1>2. /\ pc[p] = "new" /\ ~Waits(p) /\ ~Taken(p)
      /\ pc' = [pc EXCEPT ![p] = "inserted"]
      /\ table' = table /\ shares' = shares /\ now' = now
      /\ row' = row /\ given' = given /\ quiet' = quiet
  BY DEF Insert
<1>3. /\ pc' \in [Clients -> {"idle", "new", "inserted"}]
      /\ pc'[p] = "inserted" /\ \A q \in Clients \ {p} : pc'[q] = pc[q]
  BY <1>1, <1>2 DEF TypeOK
<1>4. TypeOK'
  BY <1>1, <1>2, <1>3 DEF TypeOK
<1>5. AllWellNumbered' /\ RowsGrounded' /\ NoGaps'
  BY <1>1, <1>2 DEF AllWellNumbered, WellNumbered, Bounded, RowsGrounded, Grounded, NoGaps, SameName
<1>6. NumbersUnique'
  BY <1>1, <1>2, <1>3 DEF NumbersUnique, Taken, Waits, SameNumber, SameName
<1>7. NoNeedlessClash'
  BY <1>1, <1>2, <1>3 DEF NoNeedlessClash, Taken, SameNumber, SameName
<1>. QED BY <1>4, <1>5, <1>6, <1>7 DEF Inv

\* A client that closes its transaction without a commit.
LEMMA InvGiveUp ==
  ASSUME Inv, NEW p \in Clients, Close(p), quiet' = [quiet EXCEPT ![p] = TRUE],
         table' = table, shares' = shares, now' = now
  PROVE  Inv'
<1>1. /\ TypeOK /\ AllWellNumbered /\ NumbersUnique
      /\ RowsGrounded /\ NoGaps /\ NoNeedlessClash
  BY DEF Inv
<1>2. /\ pc' \in [Clients -> {"idle", "new", "inserted"}]
      /\ row' \in [Clients -> Workflow \cup {None}]
      /\ given' \in [Clients -> BOOLEAN] /\ quiet' \in [Clients -> BOOLEAN]
      /\ pc'[p] = "idle" /\ row'[p] = None
      /\ \A q \in Clients \ {p} :
           pc'[q] = pc[q] /\ row'[q] = row[q] /\ given'[q] = given[q] /\ quiet'[q] = quiet[q]
  BY <1>1 DEF TypeOK, Close
<1>3. TypeOK'
  <2>1. \A q \in Clients : row'[q] = None <=> pc'[q] = "idle"
    BY <1>1, <1>2 DEF TypeOK
  <2>. QED BY <1>1, <1>2, <2>1 DEF TypeOK
<1>4. AllWellNumbered'
  BY <1>1, <1>2 DEF AllWellNumbered, WellNumbered, Bounded
<1>5. RowsGrounded' /\ NoGaps'
  BY <1>1, <1>2 DEF RowsGrounded, Grounded, NoGaps, SameName
<1>6. NumbersUnique'
  BY <1>1, <1>2 DEF NumbersUnique, Taken, SameNumber, SameName
<1>7. NoNeedlessClash'
  BY <1>1, <1>2 DEF NoNeedlessClash, Taken, SameNumber, SameName
<1>. QED BY <1>3, <1>4, <1>5, <1>6, <1>7 DEF Inv

LEMMA InvCommit ==
  ASSUME Inv, NEW p \in Clients, Commit(p)
  PROVE  Inv'
<1> DEFINE w == row[p]
<1>1. /\ TypeOK /\ AllWellNumbered /\ NumbersUnique
      /\ RowsGrounded /\ NoGaps /\ NoNeedlessClash
  BY DEF Inv
<1>2. /\ pc[p] = "inserted" /\ table' = table \cup {w}
      /\ shares' = shares /\ now' = now
  BY DEF Commit
<1>3. /\ w \in Workflow /\ w # None /\ WellNumbered(w) /\ Grounded(w) /\ ~Taken(p)
  BY <1>1, <1>2 DEF TypeOK, AllWellNumbered, RowsGrounded, NumbersUnique
<1>4. /\ pc' \in [Clients -> {"idle", "new", "inserted"}]
      /\ row' \in [Clients -> Workflow \cup {None}]
      /\ given' \in [Clients -> BOOLEAN]
      /\ pc'[p] = "idle" /\ row'[p] = None
      /\ \A q \in Clients \ {p} :
           pc'[q] = pc[q] /\ row'[q] = row[q] /\ given'[q] = given[q]
  BY <1>1, <1>2 DEF TypeOK, Commit, Close
<1>5. /\ quiet' \in [Clients -> BOOLEAN]
      /\ \A q \in Clients \ {p} : quiet'[q] =>
           quiet[q] /\ (row[q] # None => ~SameName(w, row[q]))
  <2>1. quiet' = [q \in Clients |->
                   q = p \/ (quiet[q] /\ (row[q] # None => ~SameName(row[p], row[q])))]
    BY DEF Commit
  <2>2. \A q \in Clients :
          (q = p \/ (quiet[q] /\ (row[q] # None => ~SameName(row[p], row[q])))) \in BOOLEAN
    OBVIOUS
  <2>3. quiet' \in [Clients -> BOOLEAN]
    BY <2>1, <2>2
  <2>. QED BY <2>1, <2>3
<1>6. TypeOK'
  <2>1. \A q \in Clients : row'[q] = None <=> pc'[q] = "idle"
    BY <1>1, <1>4 DEF TypeOK
  <2>2. /\ table' \in SUBSET Workflow /\ \A v \in table' : v.restart <=> v.minor # 0
        /\ shares' \in SUBSET [workflow : table', user : Users, until : Untils \cup {None}]
    BY <1>1, <1>2, <1>3 DEF TypeOK, WellNumbered
  <2>. QED BY <1>1, <1>2, <1>4, <1>5, <2>1, <2>2 DEF TypeOK
<1> HIDE DEF w
<1>7. AllWellNumbered'
  BY <1>1, <1>2, <1>3, <1>4 DEF AllWellNumbered, WellNumbered, Bounded
<1>8. NumbersUnique'
  <2>1. \A v \in table : ~SameNumber(v, w)
    BY <1>3 DEF Taken, w
  <2>2. \A v, x \in table' : SameNumber(v, x) => v = x
    BY <1>1, <1>2, <2>1 DEF NumbersUnique, SameNumber, SameName
  <2>3. ASSUME NEW q \in Clients, pc'[q] = "inserted"
        PROVE  /\ \A v \in table' : ~SameNumber(v, row'[q])
               /\ \A x \in Clients \ {q} :
                    pc'[x] = "inserted" => ~SameNumber(row'[x], row'[q])
    <3>1. q # p /\ row'[q] = row[q] /\ pc[q] = "inserted"
      BY <1>4, <2>3
    <3>2. ~SameNumber(w, row[q]) /\ \A v \in table : ~SameNumber(v, row[q])
      BY <1>1, <1>2, <3>1 DEF NumbersUnique, Taken, w
    <3>. QED BY <1>1, <1>2, <1>4, <3>1, <3>2 DEF NumbersUnique
  <2>. QED BY <2>2, <2>3 DEF NumbersUnique, Taken, SameNumber, SameName
<1>9. RowsGrounded'
  <2>1. ASSUME NEW q \in Clients, row'[q] # None PROVE Grounded(row[q])' /\ row'[q] = row[q]
    BY <1>1, <1>2, <1>4, <2>1 DEF RowsGrounded, Grounded, SameName
  <2>. QED BY <2>1 DEF RowsGrounded, Grounded, SameName
<1>10. NoGaps'
  <2>1. ASSUME NEW x \in table'
        PROVE  /\ \A k \in 1..x.major :
                     \E v \in table' : SameName(v, x) /\ v.major = k /\ v.minor = 0
               /\ \A k \in 0..x.minor :
                     \E v \in table' : SameName(v, x) /\ v.major = x.major /\ v.minor = k
    <3>1. CASE x \in table
      BY <3>1, <1>1, <1>2 DEF NoGaps
    <3>2. CASE x = w
      <4>1. w.major \in Nat /\ w.minor \in Nat /\ w.major >= 1 /\ SameName(w, w) /\ w \in table'
        BY <1>2, <1>3 DEF Workflow, WellNumbered, SameName
      <4>. QED BY <3>2, <4>1, <1>2, <1>3 DEF Grounded
    <3>. QED BY <1>2, <3>1, <3>2
  <2>. QED BY <2>1 DEF NoGaps, SameName
<1>11. NoNeedlessClash'
  <2> SUFFICES ASSUME NEW q \in Clients, pc'[q] = "new", quiet'[q],
                      row'[q].restart => given'[q], NEW v \in table', SameNumber(v, row'[q])
               PROVE  FALSE
    BY DEF NoNeedlessClash, Taken, SameNumber, SameName
  <2>1. q # p /\ pc[q] = "new" /\ row'[q] = row[q] /\ given'[q] = given[q]
    BY <1>4
  <2>2. quiet[q] /\ row[q] # None /\ ~SameName(w, row[q])
    BY <1>1, <1>5, <2>1 DEF TypeOK
  <2>3. v \in table
    BY <1>2, <2>1, <2>2 DEF SameNumber
  <2>. QED BY <1>1, <2>1, <2>2, <2>3 DEF NoNeedlessClash, Taken
<1>. QED BY <1>6, <1>7, <1>8, <1>9, <1>10, <1>11 DEF Inv

LEMMA InvSharing ==
  ASSUME Inv, UNCHANGED <<table, client>>, now' \in Nat,
         shares' \in SUBSET [workflow : table, user : Users, until : Untils \cup {None}]
  PROVE  Inv'
BY DEF client, Inv, TypeOK, AllWellNumbered, WellNumbered, Bounded, NumbersUnique, RowsGrounded,
       Grounded, NoGaps, NoNeedlessClash, Taken, SameNumber, SameName

LEMMA InvInit == Init => Inv
BY DEF Init, Inv, TypeOK, AllWellNumbered, NumbersUnique, RowsGrounded, NoGaps, NoNeedlessClash,
       Taken

LEMMA InvNext == Inv /\ [Next]_vars => Inv'
<1> SUFFICES ASSUME Inv, [Next]_vars PROVE Inv'
  OBVIOUS
<1>1. /\ table \in SUBSET Workflow /\ now \in Nat
      /\ shares \in SUBSET [workflow : table, user : Users, until : Untils \cup {None}]
  BY DEF Inv, TypeOK
<1>2. ASSUME NEW p \in Clients, ClientStep(p) PROVE Inv'
  <2>1. ASSUME NEW u \in Users, NEW n \in Names, NEW restart \in BOOLEAN,
               Construct(p, u, n, restart, None)
        PROVE  Inv'
    BY <2>1, InvConstruct
  <2>2. ASSUME NEW w \in table, Construct(p, w.owner, w.name, TRUE, RunNumber(w))
        PROVE  Inv'
    <3>1. w.owner \in Users /\ w.name \in Names /\ TRUE \in BOOLEAN
      BY <1>1 DEF Workflow
    <3>. QED BY <2>2, <3>1, InvConstruct
  <2>3. CASE Insert(p)
    BY <2>3, InvInsert
  <2>4. CASE Clash(p)
    BY <2>4, InvGiveUp DEF Clash
  <2>5. CASE Commit(p)
    BY <2>5, InvCommit
  <2>6. CASE Rollback(p)
    BY <2>6, InvGiveUp DEF Rollback
  <2>. QED BY <1>2, <2>1, <2>2, <2>3, <2>4, <2>5, <2>6 DEF ClientStep
<1>3. ASSUME NEW w \in table, NEW u \in Users, NEW until \in Untils \cup {None},
             Share(w, u, until)
      PROVE  Inv'
  <2>1. [workflow |-> w, user |-> u, until |-> until]
          \in [workflow : table, user : Users, until : Untils \cup {None}]
    OBVIOUS
  <2>2. /\ UNCHANGED <<table, client>> /\ now' \in Nat
        /\ shares' \in SUBSET [workflow : table, user : Users, until : Untils \cup {None}]
    BY <1>1, <1>3, <2>1 DEF Share
  <2>. QED BY <2>2, InvSharing
<1>4. ASSUME NEW s \in shares, Unshare(s) PROVE Inv'
  <2>1. /\ UNCHANGED <<table, client>> /\ now' \in Nat
        /\ shares' \in SUBSET [workflow : table, user : Users, until : Untils \cup {None}]
    BY <1>1, <1>4 DEF Unshare
  <2>. QED BY <2>1, InvSharing
<1>5. CASE Tick \/ UNCHANGED vars
  <2>1. /\ UNCHANGED <<table, client>> /\ now' \in Nat
        /\ shares' \in SUBSET [workflow : table, user : Users, until : Untils \cup {None}]
    BY <1>1, <1>5 DEF Tick, vars, client
  <2>. QED BY <2>1, InvSharing
<1>. QED BY <1>2, <1>3, <1>4, <1>5 DEF Next

THEOREM Invariance == Spec => []Inv
<1>. QED BY InvInit, InvNext, PTL DEF Spec
-----------------------------------------------------------------------------
\* The variables keep their types, and restarts are the runs with a minor number.
THEOREM RunsTypeCorrect == Spec => []TypeOK
<1>1. Inv => TypeOK
  BY DEF Inv
<1>. QED BY <1>1, Invariance, PTL

\* The runs of a name, and the restarts of a run, are numbered without a gap.
THEOREM RunsHaveNoGaps == Spec => []NoGaps
<1>1. Inv => NoGaps
  BY DEF Inv
<1>. QED BY <1>1, Invariance, PTL

\* The unique constraint turns nobody away who had no competitor.
THEOREM ClashesAreDeserved == Spec => []NoNeedlessClash
<1>1. Inv => NoNeedlessClash
  BY DEF Inv
<1>. QED BY <1>1, Invariance, PTL

\* What is committed comes after all runs of its name, or all restarts of its run.
THEOREM NumbersAreOrdered == Spec => NumbersAscend
<1>1. ASSUME Inv, NEW p \in Clients, Commit(p), NEW v \in table, SameName(v, row[p]),
             row[p].restart => v.major = row[p].major
      PROVE  Before(v, row[p])
  <2> DEFINE w == row[p]
  <2>1. /\ w \in Workflow /\ WellNumbered(w) /\ ~Taken(p) /\ NoGaps
        /\ v \in Workflow
    BY <1>1 DEF Inv, TypeOK, AllWellNumbered, NumbersUnique, Commit
  <2>2. /\ v.major \in Nat /\ v.minor \in Nat /\ w.major \in Nat /\ w.minor \in Nat
        /\ w.major >= 1
    BY <2>1 DEF Workflow, WellNumbered
  <2>3. \A x \in table : ~(SameName(x, w) /\ x.major = w.major /\ x.minor = w.minor)
    BY <2>1 DEF Taken, SameNumber
  <2>4. \A x : SameName(x, v) => SameName(x, w)
    BY <1>1 DEF SameName
  <2>5. CASE w.restart
    <3>1. v.major = w.major
      BY <1>1, <2>5
    <3>2. ~(w.minor <= v.minor)
      BY <2>1, <2>2, <2>3, <2>4, <3>1 DEF NoGaps
    <3>. QED BY <2>2, <3>1, <3>2 DEF Before
  <2>6. CASE ~w.restart
    <3>1. w.minor = 0
      BY <2>1, <2>6 DEF WellNumbered, Workflow
    <3>2. ~(w.major <= v.major)
      BY <2>1, <2>2, <2>3, <2>4, <3>1 DEF NoGaps
    <3>. QED BY <2>2, <3>2 DEF Before
  <2>. QED BY <2>5, <2>6
<1>2. Inv /\ [Next]_vars =>
        [\A p \in Clients : Commit(p) =>
           \A v \in table :
             SameName(v, row[p]) /\ (row[p].restart => v.major = row[p].major) =>
               Before(v, row[p])]_vars
  BY <1>1
<1>. QED BY <1>2, Invariance, PTL DEF Spec, NumbersAscend

\* UserWorkflow.is_active is the same in Python and in SQL.
THEOREM SharesEndAtOnce == Spec => []ActiveAgrees
<1>1. ASSUME NEW t \in Nat, NEW n \in Nat
      PROVE  t \div DayLength >= n \div DayLength <=> t >= (n \div DayLength) * DayLength
  <2> DEFINE d == n \div DayLength
  <2>1. d \in Nat
    OBVIOUS
  <2>. QED BY <2>1
<1>2. Inv => ActiveAgrees
  BY <1>1 DEF Inv, TypeOK, ActiveAgrees, IsActive, IsActiveInSql, StartOfToday, Day
<1>. QED BY <1>2, Invariance, PTL

\* The full name of a workflow, if its name has no dots, leads to it alone.
THEOREM FullNamesFind == Spec => []FullNameFinds
<1>1. ASSUME Inv, NEW w \in table, Len(w.name) = 1
      PROVE  Found(w.owner, FullName(w), FALSE) = {w}
  <2> DEFINE number == RunNumber(w)
  <2> DEFINE text == FullName(w)
  <2>1. /\ w \in Workflow /\ w.name \in Seq(Words) /\ w.major \in Nat /\ w.minor \in Nat
        /\ table \subseteq Workflow
    BY <1>1 DEF Inv, TypeOK, Workflow
  <2>2. number \in Seq(Nat) /\ Len(number) \in 1..2 /\ IsRunNumber(number)
    <3>1. CASE w.minor # 0
      BY <3>1, <2>1 DEF RunNumber, IsRunNumber
    <3>2. CASE w.minor = 0
      BY <3>2, <2>1 DEF RunNumber, IsRunNumber
    <3>. QED BY <3>1, <3>2
  <2>3. SplitRunNumber(number) = <<w.major, w.minor>>
    BY <2>1 DEF SplitRunNumber, RunNumber
  <2> HIDE DEF number
  <2>4. w.name \in Seq(Words \cup Nat) /\ number \in Seq(Words \cup Nat)
    BY <2>1, <2>2
  <2>5. text = w.name \o number
    BY DEF FullName, number
  <2> HIDE DEF text
  <2>6. /\ Len(text) = Len(number) + 1 /\ Head(text) = w.name[1]
        /\ Tail(text) = number /\ <<w.name[1]>> = w.name
    <3>1. /\ text \in Seq(Words \cup Nat) /\ Len(text) = Len(number) + 1
          /\ \A i \in 1..Len(text) : text[i] = IF i <= 1 THEN w.name[i] ELSE number[i - 1]
      <4>1. ASSUME NEW s \in Seq(Words \cup Nat), NEW t \in Seq(Words \cup Nat),
                   Len(s) = 1, Len(t) \in 1..2
            PROVE  /\ s \o t \in Seq(Words \cup Nat) /\ Len(s \o t) = Len(t) + 1
                   /\ \A i \in 1..Len(s \o t) :
                        (s \o t)[i] = IF i <= 1 THEN s[i] ELSE t[i - 1]
        <5>1. /\ s \o t \in Seq(Words \cup Nat) /\ Len(s \o t) = Len(s) + Len(t)
              /\ \A i \in 1..Len(s) + Len(t) :
                   (s \o t)[i] = IF i <= Len(s) THEN s[i] ELSE t[i - Len(s)]
          BY ConcatProperties
        <5>. QED BY <4>1, <5>1
      <4>2. Len(w.name) = 1 /\ Len(number) \in 1..2
        BY <1>1, <2>2
      <4>3. /\ w.name \o number \in Seq(Words \cup Nat)
            /\ Len(w.name \o number) = Len(number) + 1
            /\ \A i \in 1..Len(w.name \o number) :
                 (w.name \o number)[i] = IF i <= 1 THEN w.name[i] ELSE number[i - 1]
        BY ONLY <2>4, <4>1, <4>2, Zenon
      <4>. QED BY ONLY <2>5, <4>3, Zenon
    <3>2. /\ Tail(text) \in Seq(Words \cup Nat) /\ Len(Tail(text)) = Len(number)
          /\ \A i \in 1..Len(Tail(text)) : Tail(text)[i] = text[i + 1]
      BY <2>2, <3>1, HeadTailProperties
    <3>3. \A i \in 1..Len(Tail(text)) : Tail(text)[i] = number[i]
      BY <2>2, <3>1, <3>2
    <3>4. Tail(text) = number
      BY <2>4, <3>2, <3>3, SeqEqual
    <3>5. <<w.name[1]>> = w.name
      BY <1>1, <2>1
    <3>6. Head(text) = w.name[1]
      BY <2>2, <3>1
    <3>. QED BY <3>1, <3>4, <3>5, <3>6
  <2>7. Found(w.owner, text, FALSE) = ByNumber(w.owner, w.name, <<w.major, w.minor>>, FALSE)
    <3>1. /\ Len(text) > 1
          /\ IsRunNumber(Tail(text))
          /\ <<Head(text)>> = w.name
      <4>1. Len(text) > 1
        BY <2>2, <2>6
      <4>2. IsRunNumber(Tail(text))
        <5>1. Tail(text) = number /\ IsRunNumber(number)
          BY <2>2, <2>6
        <5>. QED BY <5>1, Zenon
      <4>3. <<Head(text)>> = w.name
        <5>1. Head(text) = w.name[1] /\ <<w.name[1]>> = w.name
          BY <2>6
        <5>. QED BY <5>1, Zenon
      <4>. QED BY <4>1, <4>2, <4>3
    <3>2. SplitRunNumber(Tail(text)) = <<w.major, w.minor>>
      BY <2>3, <2>6
    <3>. QED BY <3>1, <3>2 DEF Found
  <2>8. ByNumber(w.owner, w.name, <<w.major, w.minor>>, FALSE)
          = {v \in table : SameNumber(v, w)}
    BY <2>1 DEF ByNumber, Visible, SameNumber, SameName
  <2>9. {v \in table : SameNumber(v, w)} = {w}
    BY <1>1 DEF Inv, NumbersUnique, SameNumber, SameName
  <2>. QED BY <2>7, <2>8, <2>9 DEF text
<1>2. Inv => FullNameFinds
  BY <1>1 DEF FullNameFinds
<1>. QED BY <1>2, Invariance, PTL
=============================================================================
