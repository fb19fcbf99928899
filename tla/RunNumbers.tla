----------------------------- MODULE RunNumbers -----------------------------
(***************************************************************************)
(* Run numbers of workflows, and finding workflows by them.                *)
(*                                                                         *)
(* A workflow is run under a name of its owner's.  The number of a run is  *)
(* read off the last workflow when the Workflow is constructed; it is      *)
(* inserted later, and only the unique constraint of the table notices     *)
(* that somebody else was faster.  A user finds workflows by name or by    *)
(* name and run number, own ones and those that others share.              *)
(***************************************************************************)
EXTENDS Naturals, Sequences, FiniteSets

CONSTANTS Users,
          Words,      (* what names are made of                              *)
          Names,      (* names of workflows: words, separated by dots        *)
          Clients,    (* processes that create workflows                     *)
          DayLength,  (* hours in a day                                      *)
          Untils,     (* values of UserWorkflow.valid_until, in hours        *)
          MaxMajor, MaxMinor, MaxHour, MaxShares,  (* bounds                 *)
          None

ASSUME NamesAssumption == Names \subseteq Seq(Words) \ {<<>>} /\ Words \cap Nat = {}
ASSUME DayAssumption == DayLength \in Nat \ {0} /\ Untils \subseteq Nat
ASSUME NoneAssumption == None \notin Nat
ASSUME BoundsAssumption ==
  MaxMajor \in Nat /\ MaxMinor \in Nat /\ MaxHour \in Nat /\ MaxShares \in Nat

VARIABLES table,   (* the rows of the table workflow                         *)
          shares,  (* the rows of the table user_workflow                    *)
          now,     (* the time, in hours                                     *)
          pc,      (* where each client is                                   *)
          row,     (* the workflow it constructed                            *)
          given,   (* was it told which run to restart?                      *)
          quiet    (* has nobody used the name since it read the last number *)

client == <<pc, row, given, quiet>>
vars == <<table, shares, now, client>>

-----------------------------------------------------------------------------
Workflow == [owner : Users, name : Names, major : Nat, minor : Nat, restart : BOOLEAN]

ASSUME RowAssumption == None \notin Workflow

SameName(v, w) == v.owner = w.owner /\ v.name = w.name

\* The columns of the unique constraint.
SameNumber(v, w) == SameName(v, w) /\ v.major = w.major /\ v.minor = w.minor

\* ORDER BY run_number_major, run_number_minor.
Before(v, w) == v.major < w.major \/ (v.major = w.major /\ v.minor < w.minor)

Latest(S) == CHOOSE w \in S : \A v \in S : ~Before(w, v)

\* Workflow.run_number and split_run_number; a text is its parts between the dots.
RunNumber(w) == IF w.minor # 0 THEN <<w.major, w.minor>> ELSE <<w.major>>

IsRunNumber(text) == Len(text) \in 1..2 /\ \A i \in 1..Len(text) : text[i] \notin Words

SplitRunNumber(text) == <<text[1], IF Len(text) = 2 THEN text[2] ELSE 0>>

\* Mutated: a restart without a number continues any run, whoever ran it.
Candidates_AnyOwner(u, n, of) ==
  {w \in table :
     /\ w.name = n
     /\ IF of # None THEN w.owner = u /\ w.major = SplitRunNumber(of)[1] ELSE ~w.restart}

\* Mutated: the run that is restarted, not its last restart.
Candidates_Exact(u, n, of) ==
  {w \in table :
     /\ w.owner = u /\ w.name = n
     /\ IF of # None THEN <<w.major, w.minor>> = SplitRunNumber(of) ELSE ~w.restart}

\* _get_last_workflow: the runs among which the last one is looked for.
Candidates(u, n, of) ==
  {w \in table :
     /\ w.owner = u /\ w.name = n
     /\ IF of # None THEN w.major = SplitRunNumber(of)[1] ELSE ~w.restart}

\* Mutated: the restart forgets that it is one.
Numbered_FlagLost(u, n, restart, S) ==
  LET last == Latest(S)
  IN [owner |-> u, name |-> n, restart |-> FALSE,
      major |-> IF S = {} THEN 1 ELSE IF restart THEN last.major ELSE last.major + 1,
      minor |-> IF restart THEN last.minor + 1 ELSE 0]

\* get_new_run_number: a new run is numbered after the last, a restart within it.
Numbered(u, n, restart, S) ==
  LET last == Latest(S)
  IN [owner |-> u, name |-> n, restart |-> restart,
      major |-> IF S = {} THEN 1 ELSE IF restart THEN last.major ELSE last.major + 1,
      minor |-> IF restart THEN last.minor + 1 ELSE 0]

-----------------------------------------------------------------------------
(* Creating workflows.                                                     *)

\* Workflow(...): u runs n, or restarts it, maybe saying which run of it.  There
\* must be a run to restart.
Construct(p, u, n, restart, of) ==
  LET S == Candidates(u, n, of)
      new == Numbered(u, n, restart, S)
  IN /\ pc[p] = "idle"
     /\ restart => S # {}
     /\ new.major <= MaxMajor /\ new.minor <= MaxMinor
     /\ pc' = [pc EXCEPT ![p] = "new"]
     /\ row' = [row EXCEPT ![p] = new]
     /\ given' = [given EXCEPT ![p] = of # None]
     /\ quiet' = [quiet EXCEPT ![p] = TRUE]
     /\ UNCHANGED <<table, shares, now>>

\* PostgreSQL lets an INSERT wait while the same key is being inserted.
Waits(p) == \E q \in Clients \ {p} : pc[q] = "inserted" /\ SameNumber(row[q], row[p])

Taken(p) == \E w \in table : SameNumber(w, row[p])

\* p's transaction is over.
Close(p) ==
  /\ pc' = [pc EXCEPT ![p] = "idle"]
  /\ row' = [row EXCEPT ![p] = None]
  /\ given' = [given EXCEPT ![p] = FALSE]

\* Mutated: the constraint is missing.
Insert_Unconstrained(p) ==
  /\ pc[p] = "new"
  /\ pc' = [pc EXCEPT ![p] = "inserted"]
  /\ UNCHANGED <<table, shares, now, row, given, quiet>>

Insert(p) ==
  /\ pc[p] = "new"
  /\ ~Waits(p) /\ ~Taken(p)
  /\ pc' = [pc EXCEPT ![p] = "inserted"]
  /\ UNCHANGED <<table, shares, now, row, given, quiet>>

\* The unique constraint is violated: the transaction is over.
Clash(p) ==
  /\ pc[p] = "new"
  /\ ~Waits(p) /\ Taken(p)
  /\ Close(p)
  /\ quiet' = [quiet EXCEPT ![p] = TRUE]
  /\ UNCHANGED <<table, shares, now>>

Commit(p) ==
  /\ pc[p] = "inserted"
  /\ table' = table \cup {row[p]}
  /\ Close(p)
  /\ quiet' = [q \in Clients |->
                 q = p \/ (quiet[q] /\ (row[q] # None => ~SameName(row[p], row[q])))]
  /\ UNCHANGED <<shares, now>>

\* The client dies or rolls back.
Rollback(p) ==
  /\ pc[p] # "idle"
  /\ Close(p)
  /\ quiet' = [quiet EXCEPT ![p] = TRUE]
  /\ UNCHANGED <<table, shares, now>>

-----------------------------------------------------------------------------
(* Sharing.                                                                *)

Day(t) == t \div DayLength

StartOfToday == Day(now) * DayLength

\* UserWorkflow.is_active in Python ...
IsActive(until) == until = None \/ Day(until) >= Day(now)

\* Mutated: the share ends at the hour, not at the end of the day.
IsActiveInSql_Now(until) == until = None \/ until >= now

\* ... and in SQL.
IsActiveInSql(until) == until = None \/ until >= StartOfToday

Share(w, u, until) ==
  LET others == {s \in shares : <<s.workflow, s.user>> # <<w, u>>}
      new == [workflow |-> w, user |-> u, until |-> until]
  IN /\ u # w.owner
     /\ Cardinality(others) < MaxShares
     /\ shares' = others \cup {new}
     /\ UNCHANGED <<table, now, client>>

Unshare(s) ==
  /\ shares' = shares \ {s}
  /\ UNCHANGED <<table, now, client>>

Tick ==
  /\ now < MaxHour
  /\ now' = now + 1
  /\ UNCHANGED <<table, shares, client>>

-----------------------------------------------------------------------------
(* Finding workflows.                                                      *)

\* What user u may see, their own workflows and, if asked for, shared ones.
Visible(u, shared) ==
  {w \in table :
     \/ w.owner = u
     \/ shared /\ \E s \in shares : s.workflow = w /\ s.user = u /\ IsActiveInSql(s.until)}

\* _get_workflow_by_name.
ByName(u, n, shared) ==
  LET found == {w \in Visible(u, shared) : w.name = n}
  IN IF found = {} THEN {} ELSE {Latest(found)}

\* The query by name and run number.
ByNumber(u, n, number, shared) ==
  {w \in Visible(u, shared) : w.name = n /\ <<w.major, w.minor>> = number}

\* Mutated: what follows the dot is always taken for a major run number.
Found_MajorOnly(u, text, shared) ==
  IF Len(text) > 1 /\ IsRunNumber(Tail(text))
  THEN ByNumber(u, <<Head(text)>>, <<text[2], 0>>, shared)
  ELSE ByName(u, text, shared)

\* _get_workflow_with_uuid_or_name of a text that is not a UUID: the name ends at
\* the first dot, if a run number follows.
Found(u, text, shared) ==
  IF Len(text) > 1 /\ IsRunNumber(Tail(text))
  THEN ByNumber(u, <<Head(text)>>, SplitRunNumber(Tail(text)), shared)
  ELSE ByName(u, text, shared)

FullName(w) == w.name \o RunNumber(w)

-----------------------------------------------------------------------------
Init ==
  /\ table = {}
  /\ shares = {}
  /\ now = 0
  /\ pc = [p \in Clients |-> "idle"]
  /\ row = [p \in Clients |-> None]
  /\ given = [p \in Clients |-> FALSE]
  /\ quiet = [p \in Clients |-> TRUE]

\* The run that a client names is one it knows of.
ClientStep(p) ==
  \/ \E u \in Users, n \in Names, restart \in BOOLEAN : Construct(p, u, n, restart, None)
  \/ \E w \in table : Construct(p, w.owner, w.name, TRUE, RunNumber(w))
  \/ Insert(p) \/ Clash(p) \/ Commit(p) \/ Rollback(p)

Next ==
  \/ \E p \in Clients : ClientStep(p)
  \/ \E w \in table, u \in Users, until \in Untils \cup {None} : Share(w, u, until)
  \/ \E s \in shares : Unshare(s)
  \/ Tick

Spec == Init /\ [][Next]_vars
-----------------------------------------------------------------------------
(* Properties.                                                             *)

\* The variables keep their types; workflows that are restarts are those with a
\* minor run number.
TypeOK ==
  /\ table \in SUBSET Workflow
  /\ shares \in SUBSET [workflow : table, user : Users, until : Untils \cup {None}]
  /\ now \in Nat
  /\ pc \in [Clients -> {"idle", "new", "inserted"}]
  /\ row \in [Clients -> Workflow \cup {None}]
  /\ given \in [Clients -> BOOLEAN]
  /\ quiet \in [Clients -> BOOLEAN]
  /\ \A p \in Clients : row[p] = None <=> pc[p] = "idle"
  /\ \A w \in table : w.restart <=> w.minor # 0

\* get_new_run_number, whoever runs, restarts and fails meanwhile: the runs of a name
\* are numbered 1, 2, ... and the restarts of each 1, 2, ... without a gap.
NoGaps ==
  \A w \in table :
    /\ \A k \in 1..w.major : \E v \in table : SameName(v, w) /\ v.major = k /\ v.minor = 0
    /\ \A k \in 0..w.minor :
         \E v \in table : SameName(v, w) /\ v.major = w.major /\ v.minor = k

\* A workflow that is committed comes after all runs of its name, or after all
\* restarts of its run: numbers are neither reused nor given out of order.
NumbersAscend ==
  [][\A p \in Clients : Commit(p) =>
       \A v \in table :
         SameName(v, row[p]) /\ (row[p].restart => v.major = row[p].major) =>
           Before(v, row[p])]_vars

\* Nobody is turned away by the unique constraint who had no competitor, provided
\* that a restart says which run it restarts.
NoNeedlessClash ==
  \A p \in Clients :
    pc[p] = "new" /\ quiet[p] /\ (row[p].restart => given[p]) => ~Taken(p)

\* A workflow is found by its full name (get_full_workflow_name), and only it, if
\* the name has no dots.
FullNameFinds ==
  \A w \in table : Len(w.name) = 1 => Found(w.owner, FullName(w), FALSE) = {w}

\* UserWorkflow.is_active means the same in Python and in SQL, at every hour.
ActiveAgrees == \A s \in shares : IsActive(s.until) <=> IsActiveInSql(s.until)

\* "Search by `run_number_major` and `run_number_minor`, since it is a primary key":
\* at most one workflow has the name and number that a user looks for.
NumberIdentifies ==
  \A u \in Users, w \in table :
    Cardinality(ByNumber(u, w.name, <<w.major, w.minor>>, TRUE)) <= 1
=============================================================================
