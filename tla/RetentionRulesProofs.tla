------------------------ MODULE RetentionRulesProofs ------------------------
(***************************************************************************)
(* Proofs about RetentionRules, for any workflows, rules, families and     *)
(* number of workers: type correctness, and that a restart comes into      *)
(* being whole and with the rules of its workspace inactivated.            *)
(***************************************************************************)
EXTENDS RetentionRules, TLAPS

\* A restart that is being created is not there yet, and only one worker creates it.
FreshIsNew ==
  /\ \A p \in Procs : fresh[p] # None => p \in Workers /\ fresh[p] \notin workflows
  /\ \A p, q \in Procs : fresh[p] # None /\ fresh[p] = fresh[q] => p = q

\* A process that is not at work creates no restart.
IdleIsFree == \A p \in Procs : pc[p] = "idle" => fresh[p] = None

\* What a process loaded is in the database or flushed in its own transaction, and
\* it has a row in mind for each rule it picked.
PickedExist ==
  \A p \in Procs :
    /\ \A r \in picked[p] : want[p][r] # NoRule /\ view[p][r] # NoRule
    /\ \A r \in Rules : view[p][r] # NoRule =>
         rules[r] # NoRule \/ (Of[r] = fresh[p] /\ r \in picked[p])

\* What a restart staged are its own rules; its query saw those staged before.
StagedSeen ==
  \A p \in Procs :
    /\ staged[p] \subseteq RulesOf(fresh[p])
    /\ pc[p] = "loaded" => \A r \in staged[p] : view[p][r] # NoRule

\* The cronjob handles rules there are.
MineExist == \A r \in mine : rules[r] # NoRule

\* A restart picked every rule of the workspace that was in force, and wants all of
\* them inactive.
RestartPicked ==
  \A p \in Workers :
    pc[p] = "loaded" /\ fresh[p] # None =>
      /\ picked[p] = FamilyRules(fresh[p]) \cap In(view[p], {"created", "active"})
      /\ \A r \in picked[p] : want[p][r].status = "inactive"

Inv ==
  /\ TypeOK /\ RestartsWhole /\ FreshIsNew /\ IdleIsFree
  /\ PickedExist /\ StagedSeen /\ MineExist /\ RestartPicked

USE RulesAssumption, FamilyAssumption, CronAssumption, DaysAssumption, NoRuleAssumption
-----------------------------------------------------------------------------
\* A row that is set to a status is a row.
LEMMA UpdatedRow ==
  ASSUME today \in Nat, NEW row \in Rows, NEW t \in Status
  PROVE  Updated(row, t) \in Rows /\ Updated(row, t).status = t
BY DEF Updated, Rows

\* An UPDATE leaves a row.
LEMMA WriteRow ==
  ASSUME NEW row \in Rows, NEW old \in Rows, NEW new \in Rows
  PROVE  Write(row, old, new) \in Rows
BY DEF Write, Rows

\* The rules that are set to a status are rows with that status.
LEMMA SetRows ==
  ASSUME today \in Nat, NEW table \in [Rules -> Rows \cup {NoRule}],
         NEW R \in SUBSET Rules, \A r \in R : table[r] # NoRule, NEW t \in Status
  PROVE  /\ Set(table, R, t) \in [Rules -> Rows \cup {NoRule}]
         /\ \A r \in R : /\ Set(table, R, t)[r] # NoRule
                         /\ Set(table, R, t)[r].status = t
<1>1. \A r \in R : Updated(table[r], t) \in Rows /\ Updated(table[r], t).status = t
  BY UpdatedRow
<1>. QED BY <1>1 DEF Set

\* A process that loads rules and goes on to l changes nothing of the others.
LEMMA LoadTyped ==
  ASSUME TypeOK, NEW p \in Procs, NEW R \in SUBSET Rules,
         NEW rows \in [Rules -> Rows \cup {NoRule}],
         NEW table \in [Rules -> Rows \cup {NoRule}],
         NEW l \in {"loaded", "taken", "settled"},
         picked' = [picked EXCEPT ![p] = R],
         want' = [want EXCEPT ![p] = rows],
         view' = [view EXCEPT ![p] = table],
         pc' = [pc EXCEPT ![p] = l],
         workflows' = workflows, rules' = rules, today' = today, fresh' = fresh,
         staged' = staged, removed' \in SUBSET Rules, mine' \in SUBSET Rules
  PROVE  /\ TypeOK'
         /\ picked'[p] = R /\ want'[p] = rows /\ view'[p] = table /\ pc'[p] = l
         /\ \A q \in Procs \ {p} :
               /\ picked'[q] = picked[q] /\ want'[q] = want[q]
               /\ view'[q] = view[q] /\ pc'[q] = pc[q]
<1>1. /\ picked' \in [Procs -> SUBSET Rules]
      /\ want' \in [Procs -> [Rules -> Rows \cup {NoRule}]]
      /\ view' \in [Procs -> [Rules -> Rows \cup {NoRule}]]
      /\ pc' \in [Procs -> {"idle", "checked", "loaded", "taken", "removing", "settled"}]
      /\ picked'[p] = R /\ want'[p] = rows /\ view'[p] = table /\ pc'[p] = l
      /\ \A q \in Procs \ {p} :
            /\ picked'[q] = picked[q] /\ want'[q] = want[q]
            /\ view'[q] = view[q] /\ pc'[q] = pc[q]
  BY DEF TypeOK
<1>2. \A q \in Procs : pc'[q] \in {"idle", "removing"} => picked'[q] = {}
  BY <1>1 DEF TypeOK
<1>3. TypeOK'
  BY <1>1, <1>2 DEF TypeOK
<1>. QED BY <1>1, <1>3

\* A flush leaves rows, and inserts those of the restart, no others.
LEMMA FlushedRows ==
  ASSUME TypeOK, PickedExist, NEW p \in Procs
  PROVE  /\ Flushed(p) \in [Rules -> Rows \cup {NoRule}]
         /\ \A r \in Rules : Flushed(p)[r] # NoRule <=>
              rules[r] # NoRule \/ Of[r] = fresh[p]
<1>1. \A r \in picked[p] : want[p][r] \in Rows /\ view[p][r] \in Rows /\ r \in Rules
  BY DEF TypeOK, PickedExist
<1>2. \A r \in picked[p] : rules[r] # NoRule => Write(rules[r], view[p][r], want[p][r]) \in Rows
  BY <1>1, WriteRow DEF TypeOK
<1>3. New \in Rows
  BY DEF New, Rows, Status
<1>4. \A r \in Rules : rules[r] \in Rows \cup {NoRule}
  BY DEF TypeOK
<1>. QED BY <1>1, <1>2, <1>3, <1>4 DEF Flushed

\* A process that closes its transaction has nothing left in its session.
LEMMA CloseTyped ==
  ASSUME TypeOK, NEW p \in Procs, NEW l \in {"idle", "removing"}, Close(p, l)
  PROVE  /\ pc' \in [Procs -> {"idle", "checked", "loaded", "taken", "removing", "settled"}]
         /\ fresh' \in [Procs -> Workflows \cup {None}]
         /\ staged' \in [Procs -> SUBSET Rules] /\ staged'[p] = {}
         /\ picked' \in [Procs -> SUBSET Rules]
         /\ want' \in [Procs -> [Rules -> Rows \cup {NoRule}]]
         /\ view' \in [Procs -> [Rules -> Rows \cup {NoRule}]]
         /\ pc'[p] = l /\ fresh'[p] = None /\ picked'[p] = {} /\ view'[p] = NoView
         /\ \A q \in Procs \ {p} :
               /\ pc'[q] = pc[q] /\ fresh'[q] = fresh[q] /\ picked'[q] = picked[q]
               /\ want'[q] = want[q] /\ view'[q] = view[q] /\ staged'[q] = staged[q]
<1>1. NoView \in [Rules -> Rows \cup {NoRule}]
  BY DEF NoView
<1>. QED BY <1>1 DEF Close, TypeOK

-----------------------------------------------------------------------------
(* Inv is inductive: one lemma for the initial state and one for each action. *)

LEMMA InvInit == Init => Inv
<1> SUFFICES ASSUME Init PROVE Inv
  OBVIOUS
<1>1. New \in Rows /\ NoView \in [Rules -> Rows \cup {NoRule}]
  BY DEF New, Rows, Status, NoView
<1>2. TypeOK
  BY <1>1 DEF Init, TypeOK, Procs
<1>3. RestartsWhole
  BY <1>1 DEF Init, RestartsWhole
<1>4. FreshIsNew /\ IdleIsFree /\ RestartPicked
  BY DEF Init, FreshIsNew, IdleIsFree, RestartPicked, Procs
<1>5. PickedExist /\ StagedSeen /\ MineExist
  BY DEF Init, PickedExist, StagedSeen, MineExist, NoView
<1>. QED BY <1>2, <1>3, <1>4, <1>5 DEF Inv

\* A process has loaded rules that are there or are inserted by its own
\* transaction; if it is a restart, those of its workspace to inactivate them.
LEMMA InvLoad ==
  ASSUME Inv, NEW p \in Procs, TypeOK',
         workflows' = workflows, rules' = rules, fresh' = fresh, staged' = staged,
         pc'[p] # "idle", \A r \in staged[p] : view'[p][r] # NoRule,
         \A q \in Procs \ {p} :
           /\ picked'[q] = picked[q] /\ want'[q] = want[q]
           /\ view'[q] = view[q] /\ pc'[q] = pc[q],
         \A r \in picked'[p] : want'[p][r] # NoRule /\ view'[p][r] # NoRule,
         \A r \in Rules : view'[p][r] # NoRule =>
           rules[r] # NoRule \/ (Of[r] = fresh[p] /\ r \in picked'[p]),
         \A r \in mine' : rules[r] # NoRule,
         fresh[p] # None =>
           /\ picked'[p] = FamilyRules(fresh[p]) \cap In(view'[p], {"created", "active"})
           /\ \A r \in picked'[p] : want'[p][r].status = "inactive"
  PROVE  Inv'
<1>1. /\ RestartsWhole /\ FreshIsNew /\ IdleIsFree
      /\ PickedExist /\ StagedSeen /\ RestartPicked
  BY DEF Inv
<1>2. RestartsWhole' /\ FreshIsNew' /\ IdleIsFree'
  BY <1>1 DEF RestartsWhole, FreshIsNew, IdleIsFree
<1>3. PickedExist' /\ MineExist'
  BY <1>1 DEF PickedExist, MineExist
<1>4. StagedSeen'
  BY <1>1 DEF StagedSeen, RulesOf
<1>5. RestartPicked'
  <2> SUFFICES ASSUME NEW q \in Workers, pc'[q] = "loaded", fresh[q] # None
               PROVE  /\ picked'[q] = FamilyRules(fresh[q]) \cap In(view'[q], {"created", "active"})
                      /\ \A r \in picked'[q] : want'[q][r].status = "inactive"
    BY DEF RestartPicked, FamilyRules
  <2>1. CASE q = p
    BY <2>1
  <2>2. CASE q # p
    BY <2>2, <1>1 DEF RestartPicked, In, Procs
  <2>. QED BY <2>1, <2>2
<1>. QED BY <1>2, <1>3, <1>4, <1>5 DEF Inv

\* A process commits what its session holds.
LEMMA InvCommit ==
  ASSUME Inv, NEW p \in Procs, NEW l \in {"idle", "removing"}, Close(p, l),
         rules' = Flushed(p),
         workflows' = IF fresh[p] = None THEN workflows ELSE workflows \cup {fresh[p]},
         today' = today, removed' \in SUBSET Rules, mine' \in SUBSET mine
  PROVE  Inv'
<1>1. /\ TypeOK /\ RestartsWhole /\ FreshIsNew /\ IdleIsFree
      /\ PickedExist /\ StagedSeen /\ MineExist /\ RestartPicked
  BY DEF Inv
<1>2. /\ pc' \in [Procs -> {"idle", "checked", "loaded", "taken", "removing", "settled"}]
      /\ fresh' \in [Procs -> Workflows \cup {None}]
      /\ staged' \in [Procs -> SUBSET Rules] /\ staged'[p] = {}
      /\ picked' \in [Procs -> SUBSET Rules]
      /\ want' \in [Procs -> [Rules -> Rows \cup {NoRule}]]
      /\ view' \in [Procs -> [Rules -> Rows \cup {NoRule}]]
      /\ pc'[p] = l /\ fresh'[p] = None /\ picked'[p] = {} /\ view'[p] = NoView
      /\ \A q \in Procs \ {p} :
            /\ pc'[q] = pc[q] /\ fresh'[q] = fresh[q] /\ picked'[q] = picked[q]
            /\ want'[q] = want[q] /\ view'[q] = view[q] /\ staged'[q] = staged[q]
  BY <1>1, CloseTyped
<1>3. /\ rules' \in [Rules -> Rows \cup {NoRule}]
      /\ \A r \in Rules : rules'[r] # NoRule <=> rules[r] # NoRule \/ Of[r] = fresh[p]
  BY <1>1, FlushedRows
<1>4. TypeOK'
  <2>1. \A q \in Procs : pc'[q] \in {"idle", "removing"} => picked'[q] = {}
    BY <1>1, <1>2 DEF TypeOK
  <2>2. workflows' \in SUBSET Workflows
    BY <1>1 DEF TypeOK
  <2>. QED BY <1>1, <1>2, <1>3, <2>1, <2>2 DEF TypeOK
<1>5. RestartsWhole'
  <2> SUFFICES ASSUME NEW r \in Rules
               PROVE  rules'[r] # NoRule <=> Of[r] \in workflows'
    BY DEF RestartsWhole
  <2>1. Of[r] \in Workflows /\ (rules[r] # NoRule <=> Of[r] \in workflows)
    BY <1>1 DEF RestartsWhole
  <2>2. CASE fresh[p] = None
    BY <2>1, <2>2, <1>3
  <2>3. CASE fresh[p] # None
    BY <2>1, <2>3, <1>3
  <2>. QED BY <2>2, <2>3
<1>6. FreshIsNew' /\ IdleIsFree'
  <2>1. \A q \in Procs : fresh'[q] # None => q # p /\ fresh'[q] = fresh[q]
    BY <1>2
  <2>2. FreshIsNew'
    BY <1>1, <2>1 DEF FreshIsNew
  <2>3. \A q \in Procs : pc'[q] = "idle" => fresh'[q] = None
    BY <1>1, <1>2 DEF IdleIsFree
  <2>. QED BY <2>2, <2>3 DEF IdleIsFree
<1>7. PickedExist' /\ MineExist'
  <2>1. MineExist'
    BY <1>1, <1>3 DEF MineExist, TypeOK
  <2>2. PickedExist'
    BY <1>1, <1>2, <1>3 DEF PickedExist, NoView
  <2>. QED BY <2>1, <2>2
<1>8. RestartPicked'
  BY <1>1, <1>2 DEF RestartPicked, Procs
<1>9. StagedSeen'
  BY <1>1, <1>2 DEF StagedSeen, RulesOf
<1>. QED BY <1>4, <1>5, <1>6, <1>7, <1>8, <1>9 DEF Inv

\* A process gives up what its session holds.
LEMMA InvRollback ==
  ASSUME Inv, NEW p \in Procs, Close(p, "idle"),
         workflows' = workflows, rules' = rules, today' = today,
         removed' \in SUBSET Rules, mine' \in SUBSET mine
  PROVE  Inv'
<1>1. /\ TypeOK /\ RestartsWhole /\ FreshIsNew /\ IdleIsFree
      /\ PickedExist /\ StagedSeen /\ MineExist /\ RestartPicked
  BY DEF Inv
<1>2. /\ pc' \in [Procs -> {"idle", "checked", "loaded", "taken", "removing", "settled"}]
      /\ fresh' \in [Procs -> Workflows \cup {None}]
      /\ staged' \in [Procs -> SUBSET Rules] /\ staged'[p] = {}
      /\ picked' \in [Procs -> SUBSET Rules]
      /\ want' \in [Procs -> [Rules -> Rows \cup {NoRule}]]
      /\ view' \in [Procs -> [Rules -> Rows \cup {NoRule}]]
      /\ pc'[p] = "idle" /\ fresh'[p] = None /\ picked'[p] = {} /\ view'[p] = NoView
      /\ \A q \in Procs \ {p} :
            /\ pc'[q] = pc[q] /\ fresh'[q] = fresh[q] /\ picked'[q] = picked[q]
            /\ want'[q] = want[q] /\ view'[q] = view[q] /\ staged'[q] = staged[q]
  BY <1>1, CloseTyped
<1>3. \A q \in Procs : pc'[q] \in {"idle", "removing"} => picked'[q] = {}
  BY <1>1, <1>2 DEF TypeOK
<1>4. TypeOK'
  BY <1>1, <1>2, <1>3 DEF TypeOK
<1>5. RestartsWhole' /\ FreshIsNew' /\ IdleIsFree'
  <2>1. \A q \in Procs : fresh'[q] # None => q # p /\ fresh'[q] = fresh[q]
    BY <1>2
  <2>2. RestartsWhole' /\ FreshIsNew'
    BY <1>1, <2>1 DEF RestartsWhole, FreshIsNew
  <2>3. \A q \in Procs : pc'[q] = "idle" => fresh'[q] = None
    BY <1>1, <1>2 DEF IdleIsFree
  <2>. QED BY <2>2, <2>3 DEF IdleIsFree
<1>6. PickedExist' /\ MineExist'
  BY <1>1, <1>2 DEF PickedExist, MineExist, NoView
<1>7. RestartPicked'
  BY <1>1, <1>2 DEF RestartPicked, Procs
<1>8. StagedSeen'
  BY <1>1, <1>2 DEF StagedSeen, RulesOf
<1>. QED BY <1>4, <1>5, <1>6, <1>7, <1>8 DEF Inv

-----------------------------------------------------------------------------
LEMMA InvActivate ==
  ASSUME Inv, NEW p \in Workers, NEW w \in Workflows, Activate(p, w)
  PROVE  Inv'
<1> DEFINE R == RulesOf(w) \cap In(rules, {"created"})
<1> DEFINE rows == Set(rules, R, "active")
<1>1. /\ p \in Procs /\ today \in Nat /\ rules \in [Rules -> Rows \cup {NoRule}]
      /\ removed \in SUBSET Rules /\ mine \in SUBSET Rules
      /\ \A r \in mine : rules[r] # NoRule
      /\ R \in SUBSET Rules /\ (\A r \in R : rules[r] # NoRule) /\ "active" \in Status
  BY DEF Inv, MineExist, Procs, TypeOK, In, Status
<1>2. /\ pc[p] = "idle"
      /\ picked' = [picked EXCEPT ![p] = R]
      /\ want' = [want EXCEPT ![p] = rows]
      /\ view' = [view EXCEPT ![p] = rules]
      /\ pc' = [pc EXCEPT ![p] = "loaded"]
      /\ UNCHANGED <<workflows, rules, today, removed, mine, fresh, staged>>
  BY DEF Activate, LoadAndSet, cronjob
<1> HIDE DEF R
<1>3. rows \in [Rules -> Rows \cup {NoRule}] /\ \A r \in R : rows[r] # NoRule
  BY <1>1, SetRows
<1> HIDE DEF rows
<1>4. fresh[p] = None /\ staged[p] = {}
  BY <1>1, <1>2 DEF Inv, IdleIsFree, StagedSeen, RulesOf
<1>5.  /\ TypeOK'
      /\ picked'[p] = R /\ want'[p] = rows /\ view'[p] = rules /\ pc'[p] = "loaded"
      /\ \A q \in Procs \ {p} :
            /\ picked'[q] = picked[q] /\ want'[q] = want[q]
            /\ view'[q] = view[q] /\ pc'[q] = pc[q]
  BY <1>1, <1>2, <1>3, LoadTyped DEF Inv
<1>. QED BY <1>1, <1>2, <1>3, <1>4, <1>5, InvLoad

LEMMA InvCheckPending ==
  ASSUME Inv, NEW p \in Workers, NEW w \in Workflows, CheckPending(p, w)
  PROVE  Inv'
<1>1. /\ TypeOK /\ RestartsWhole /\ FreshIsNew /\ IdleIsFree
      /\ PickedExist /\ StagedSeen /\ MineExist /\ RestartPicked
  BY DEF Inv
<1>2. /\ pc[p] = "idle" /\ w \notin workflows /\ \A q \in Workers : fresh[q] # w
      /\ pc' = [pc EXCEPT ![p] = "checked"]
      /\ fresh' = [fresh EXCEPT ![p] = w]
      /\ UNCHANGED <<workflows, rules, today, removed, mine, staged, picked, want, view>>
  BY DEF CheckPending, cronjob
<1>3. /\ p \in Procs
      /\ pc' \in [Procs -> {"idle", "checked", "loaded", "taken", "removing", "settled"}]
      /\ fresh' \in [Procs -> Workflows \cup {None}]
      /\ pc'[p] = "checked" /\ fresh'[p] = w /\ picked[p] = {}
      /\ \A q \in Procs \ {p} : pc'[q] = pc[q] /\ fresh'[q] = fresh[q]
  BY <1>1, <1>2 DEF TypeOK, Procs
<1>4. \A q \in Procs : pc'[q] \in {"idle", "removing"} => picked'[q] = {}
  BY <1>1, <1>2, <1>3 DEF TypeOK
<1>5. TypeOK'
  BY <1>1, <1>2, <1>3, <1>4 DEF TypeOK
<1>6. RestartsWhole'
  BY <1>1, <1>2 DEF RestartsWhole
<1>7. FreshIsNew'
  BY <1>1, <1>2, <1>3 DEF FreshIsNew
<1>8. IdleIsFree'
  BY <1>1, <1>3 DEF IdleIsFree
<1>9. PickedExist' /\ MineExist'
  BY <1>1, <1>2, <1>3 DEF PickedExist, MineExist
<1>10. RestartPicked'
  BY <1>1, <1>2, <1>3 DEF RestartPicked, FamilyRules, In, Procs
<1>11. StagedSeen'
  <2>1. staged[p] = {}
    BY <1>1, <1>2, <1>3 DEF IdleIsFree, StagedSeen, RulesOf
  <2>. QED BY <1>1, <1>2, <1>3, <2>1 DEF StagedSeen, RulesOf
<1>. QED BY <1>5, <1>6, <1>7, <1>8, <1>9, <1>10, <1>11 DEF Inv

LEMMA InvStage == ASSUME Inv, NEW p \in Workers, Stage(p) PROVE Inv'
<1>1. /\ TypeOK /\ RestartsWhole /\ FreshIsNew /\ IdleIsFree
      /\ PickedExist /\ StagedSeen /\ MineExist /\ RestartPicked
  BY DEF Inv
<1>2. /\ p \in Procs /\ pc[p] = "checked"
      /\ staged' = [staged EXCEPT ![p] = RulesOf(fresh[p])]
      /\ UNCHANGED <<workflows, rules, today, removed, mine, pc, fresh, picked, want, view>>
  BY DEF Stage, cronjob, Procs
<1>3. RulesOf(fresh[p]) \in SUBSET Rules
  BY DEF RulesOf
<1>4. TypeOK'
  BY <1>1, <1>2, <1>3 DEF TypeOK
<1>5. RestartsWhole' /\ FreshIsNew' /\ IdleIsFree' /\ PickedExist' /\ MineExist'
  BY <1>1, <1>2 DEF RestartsWhole, FreshIsNew, IdleIsFree, PickedExist, MineExist
<1>6. RestartPicked'
  BY <1>1, <1>2 DEF RestartPicked, FamilyRules, In
<1>7. StagedSeen'
  BY <1>1, <1>2 DEF StagedSeen, RulesOf, TypeOK
<1>. QED BY <1>4, <1>5, <1>6, <1>7 DEF Inv

LEMMA InvInactivate ==
  ASSUME Inv, NEW p \in Workers, Inactivate(p)
  PROVE  Inv'
<1> DEFINE w == fresh[p]
<1> DEFINE table == Seen(staged[p])
<1> DEFINE R == FamilyRules(w) \cap In(table, {"created", "active"})
<1> DEFINE rows == Set(table, R, "inactive")
<1>1. /\ p \in Procs /\ today \in Nat /\ rules \in [Rules -> Rows \cup {NoRule}]
      /\ removed \in SUBSET Rules /\ mine \in SUBSET Rules
      /\ \A r \in mine : rules[r] # NoRule
      /\ staged[p] \subseteq RulesOf(w)
  BY DEF Inv, MineExist, StagedSeen, Procs, TypeOK
<1>2. New \in Rows /\ New.status = "created" /\ "inactive" \in Status
  BY DEF New, Rows, Status
<1>3. /\ table \in [Rules -> Rows \cup {NoRule}]
      /\ R \in SUBSET Rules /\ \A r \in R : table[r] # NoRule
  BY <1>1, <1>2 DEF Seen, In, FamilyRules
<1>4. \A r \in Rules : table[r] # NoRule => rules[r] # NoRule \/ (Of[r] = w /\ r \in R)
  BY <1>1, <1>2 DEF Seen, In, FamilyRules, RulesOf
<1>5. \A r \in staged[p] : table[r] # NoRule
  BY <1>1, <1>2 DEF Seen, RulesOf
<1>6. /\ picked' = [picked EXCEPT ![p] = R]
      /\ want' = [want EXCEPT ![p] = rows]
      /\ view' = [view EXCEPT ![p] = table]
      /\ pc' = [pc EXCEPT ![p] = "loaded"]
      /\ UNCHANGED <<workflows, rules, today, removed, mine, fresh, staged>>
  BY DEF Inactivate, LoadAndSet, cronjob
<1>7. R = FamilyRules(fresh[p]) \cap In(table, {"created", "active"})
  OBVIOUS
<1> HIDE DEF table, R
<1>8. /\ rows \in [Rules -> Rows \cup {NoRule}]
      /\ \A r \in R : rows[r] # NoRule /\ rows[r].status = "inactive"
  BY <1>1, <1>2, <1>3, SetRows
<1> HIDE DEF rows
<1>9.  /\ TypeOK'
      /\ picked'[p] = R /\ want'[p] = rows /\ view'[p] = table /\ pc'[p] = "loaded"
      /\ \A q \in Procs \ {p} :
            /\ picked'[q] = picked[q] /\ want'[q] = want[q]
            /\ view'[q] = view[q] /\ pc'[q] = pc[q]
  BY <1>1, <1>3, <1>6, <1>8, LoadTyped DEF Inv
<1>. QED BY <1>1, <1>3, <1>4, <1>5, <1>6, <1>7, <1>8, <1>9, InvLoad

LEMMA InvCronTake == ASSUME Inv, CronTake PROVE Inv'
<1> DEFINE R == {r \in In(rules, {"active"}) : rules[r].date < today}
<1> DEFINE rows == Set(rules, R, "pending")
<1>1. /\ Cron \in Procs /\ today \in Nat /\ rules \in [Rules -> Rows \cup {NoRule}]
      /\ R \in SUBSET Rules /\ (\A r \in R : rules[r] # NoRule) /\ "pending" \in Status
  BY DEF Inv, Procs, TypeOK, In, Status
<1>2. /\ picked' = [picked EXCEPT ![Cron] = R]
      /\ want' = [want EXCEPT ![Cron] = rows]
      /\ view' = [view EXCEPT ![Cron] = rules]
      /\ pc' = [pc EXCEPT ![Cron] = "taken"]
      /\ UNCHANGED <<workflows, rules, today, fresh, staged>>
      /\ mine' = R /\ removed' = {}
  BY DEF CronTake, LoadAndSet
<1> HIDE DEF R
<1>3. rows \in [Rules -> Rows \cup {NoRule}] /\ \A r \in R : rows[r] # NoRule
  BY <1>1, SetRows
<1> HIDE DEF rows
<1>4. fresh[Cron] = None /\ staged[Cron] = {}
  BY <1>1 DEF Inv, FreshIsNew, StagedSeen, RulesOf
<1>5.  /\ TypeOK'
      /\ picked'[Cron] = R /\ want'[Cron] = rows /\ view'[Cron] = rules /\ pc'[Cron] = "taken"
      /\ \A q \in Procs \ {Cron} :
            /\ picked'[q] = picked[q] /\ want'[q] = want[q]
            /\ view'[q] = view[q] /\ pc'[q] = pc[q]
  BY <1>1, <1>2, <1>3, LoadTyped DEF Inv
<1>. QED BY <1>1, <1>2, <1>3, <1>4, <1>5, InvLoad

LEMMA InvCronSettle ==
  ASSUME Inv, NEW t \in {"applied", "active"}, CronSettle(t)
  PROVE  Inv'
<1> DEFINE rows == Set(rules, mine, t)
<1>1. /\ Cron \in Procs /\ today \in Nat /\ rules \in [Rules -> Rows \cup {NoRule}]
      /\ mine \in SUBSET Rules /\ (\A r \in mine : rules[r] # NoRule)
      /\ removed \in SUBSET Rules /\ t \in Status
  BY DEF Inv, MineExist, Procs, TypeOK, Status
<1>2. /\ picked' = [picked EXCEPT ![Cron] = mine]
      /\ want' = [want EXCEPT ![Cron] = rows]
      /\ view' = [view EXCEPT ![Cron] = rules]
      /\ pc' = [pc EXCEPT ![Cron] = "settled"]
      /\ UNCHANGED <<workflows, rules, today, removed, mine, fresh, staged>>
  BY DEF CronSettle, LoadAndSet, cronjob
<1>3. rows \in [Rules -> Rows \cup {NoRule}] /\ \A r \in mine : rows[r] # NoRule
  BY <1>1, SetRows
<1> HIDE DEF rows
<1>4. fresh[Cron] = None /\ staged[Cron] = {}
  BY <1>1 DEF Inv, FreshIsNew, StagedSeen, RulesOf
<1>5. /\ TypeOK'
      /\ picked'[Cron] = mine /\ want'[Cron] = rows /\ view'[Cron] = rules
      /\ pc'[Cron] = "settled"
      /\ \A q \in Procs \ {Cron} :
            /\ picked'[q] = picked[q] /\ want'[q] = want[q]
            /\ view'[q] = view[q] /\ pc'[q] = pc[q]
  BY <1>1, <1>2, <1>3, LoadTyped DEF Inv
<1>. QED BY <1>1, <1>2, <1>3, <1>4, <1>5, InvLoad

LEMMA InvNext == Inv /\ [Next]_vars => Inv'
<1> SUFFICES ASSUME Inv, [Next]_vars PROVE Inv'
  OBVIOUS
<1>1. TypeOK /\ Cron \in Procs /\ fresh[Cron] = None /\ Workers \subseteq Procs
  BY DEF Inv, FreshIsNew, Procs
<1>2. ASSUME NEW p \in Workers, Commit(p) PROVE Inv'
  BY <1>1, <1>2, InvCommit DEF Commit, cronjob, TypeOK
<1>3. ASSUME NEW p \in Workers, Rollback(p) PROVE Inv'
  BY <1>1, <1>3, InvRollback DEF Rollback, cronjob, TypeOK
<1>4. CASE CronCommitPending
  BY <1>1, <1>4, InvCommit DEF CronCommitPending, cronjob, TypeOK
<1>5. CASE CronCommitSettled
  BY <1>1, <1>5, InvCommit DEF CronCommitSettled
<1>6. ASSUME NEW t \in {"applied", "active"}, CronRaises(t) PROVE Inv'
  BY <1>1, <1>6, InvRollback DEF CronRaises
<1>7. ASSUME NEW r \in Rules, CronRemove(r) PROVE Inv'
  BY <1>7 DEF CronRemove, Inv, TypeOK, RestartsWhole, FreshIsNew, IdleIsFree, PickedExist,
              StagedSeen, RulesOf, MineExist, RestartPicked, FamilyRules, In
<1>8. CASE Tomorrow
  BY <1>8 DEF Tomorrow, cronjob, Inv, TypeOK, RestartsWhole, FreshIsNew, IdleIsFree,
              PickedExist, StagedSeen, RulesOf, MineExist, RestartPicked, FamilyRules, In
<1>9. CASE UNCHANGED vars
  BY <1>9 DEF vars, cronjob, Inv, TypeOK, RestartsWhole, FreshIsNew, IdleIsFree,
              PickedExist, StagedSeen, RulesOf, MineExist, RestartPicked, FamilyRules, In
<1>10. CASE CronTake
  BY <1>10, InvCronTake
<1>11. ASSUME NEW t \in {"applied", "active"}, CronSettle(t) PROVE Inv'
  BY <1>11, InvCronSettle
<1>12. ASSUME NEW p \in Workers, WorkerStep(p) PROVE Inv'
  BY <1>2, <1>3, <1>12, InvActivate, InvCheckPending, InvStage, InvInactivate DEF WorkerStep
<1>13. CASE CronStep
  BY <1>4, <1>5, <1>6, <1>7, <1>10, <1>11, <1>13 DEF CronStep
<1>. QED BY <1>8, <1>9, <1>12, <1>13 DEF Next

THEOREM Invariance == Spec => []Inv
<1>. QED BY InvInit, InvNext, PTL DEF Spec
-----------------------------------------------------------------------------
\* The variables of the retention rules keep their types.
THEOREM RetentionTypeCorrect == Spec => []TypeOK
<1>1. Inv => TypeOK
  BY DEF Inv
<1>. QED BY <1>1, Invariance, PTL

\* A restart and its rules come into being together or not at all.
THEOREM RestartsAreWhole == Spec => []RestartsWhole
<1>1. Inv => RestartsWhole
  BY DEF Inv
<1>. QED BY <1>1, Invariance, PTL

\* When a restart comes into being, no rule of the workspace stays in force, unless
\* another process changed it since the restart loaded it.
THEOREM RestartsInactivate == Spec => RestartInactivates
<1>1. ASSUME Inv, Next, NEW p \in Workers, NEW r \in Rules,
             pc[p] = "loaded", fresh[p] \in workflows' \ workflows,
             r \in FamilyRules(fresh[p]), view[p][r] # NoRule \/ r \in staged[p],
             rules[r] \in {NoRule, view[p][r]}
      PROVE  rules'[r].status \notin {"created", "active"}
  <2>1. /\ TypeOK /\ FreshIsNew /\ PickedExist /\ RestartPicked
        /\ p \in Procs /\ Workers \subseteq Procs /\ view[p][r] # NoRule
    BY <1>1 DEF Inv, Procs, StagedSeen
  <2>2. PICK q \in Workers : Commit(q) /\ fresh[q] = fresh[p]
    BY <1>1 DEF Next, WorkerStep, CronStep, Activate, CheckPending, Stage, Inactivate,
                Commit, Rollback, CronTake, CronCommitPending, CronRemove, CronSettle, CronRaises,
                CronCommitSettled, Tomorrow
  <2>3. fresh[p] # None
    <3>1. TypeOK'
      BY <1>1, InvNext DEF Inv
    <3>. QED BY <1>1, <3>1 DEF TypeOK
  <2>4. q = p
    BY <2>1, <2>2, <2>3 DEF FreshIsNew
  <2>5. /\ rules' = Flushed(p)
        /\ picked[p] = FamilyRules(fresh[p]) \cap In(view[p], {"created", "active"})
        /\ \A x \in picked[p] : want[p][x].status = "inactive"
    BY <1>1, <2>1, <2>2, <2>3, <2>4 DEF Commit, RestartPicked
  <2>6. CASE r \in picked[p]
    <3>1. view[p][r].status \in {"created", "active"} /\ want[p][r].status = "inactive"
      BY <2>5, <2>6 DEF In
    <3>2. CASE rules[r] = NoRule
      <4>1. Of[r] = fresh[p]
        BY <2>1, <3>2 DEF PickedExist
      <4>. QED BY <2>5, <2>6, <3>1, <3>2, <4>1 DEF Flushed
    <3>3. CASE rules[r] # NoRule
      <4>1. rules'[r] = Write(rules[r], view[p][r], want[p][r])
        BY <2>5, <2>6, <3>3 DEF Flushed
      <4>. QED BY <3>1, <4>1 DEF Write
    <3>. QED BY <3>2, <3>3
  <2>7. CASE r \notin picked[p]
    <3>1. rules[r] # NoRule /\ rules[r] = view[p][r]
      BY <1>1, <2>1, <2>7 DEF PickedExist
    <3>2. rules'[r] = rules[r]
      BY <2>5, <2>7, <3>1 DEF Flushed
    <3>3. view[p][r].status \notin {"created", "active"}
      BY <1>1, <2>1, <2>5, <2>7 DEF In
    <3>. QED BY <3>1, <3>2, <3>3
  <2>. QED BY <2>6, <2>7
<1>2. Inv /\ [Next]_vars =>
        [\A p \in Workers, r \in Rules :
           /\ pc[p] = "loaded" /\ fresh[p] \in workflows' \ workflows
           /\ r \in FamilyRules(fresh[p])
           /\ view[p][r] # NoRule \/ r \in staged[p]
           /\ rules[r] \in {NoRule, view[p][r]}
           => rules'[r].status \notin {"created", "active"}]_vars
  BY <1>1
<1>. QED BY <1>2, Invariance, PTL DEF Spec, RestartInactivates
=============================================================================
