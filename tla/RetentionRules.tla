--------------------------- MODULE RetentionRules ---------------------------
(***************************************************************************)
(* The retention rules of workspaces: set when a workflow is created,      *)
(* activated by the status listener when its run is over, inactivated for  *)
(* all runs that share a workspace when one of them is restarted, and      *)
(* applied by a cronjob, which deletes files.                              *)
(*                                                                         *)
(* All of them go through update_workspace_retention_rules, which checks   *)
(* each transition against the row that was loaded.  The UPDATE that is    *)
(* flushed by the commit finds the row by primary key and sets the columns *)
(* that differ from what was loaded, whatever the row holds by then.       *)
(* The restart is one transaction of its caller: the helpers are called    *)
(* with commit=False.                                                      *)
(***************************************************************************)
EXTENDS Naturals

CONSTANTS Workflows,
          Rules,
          Of,             (* WorkspaceRetentionRule.workflow_id              *)
          Family,         (* name, owner and major run number of a workflow  *)
          Originals,      (* the workflows that are not restarts             *)
          Workers,        (* processes that end or restart workflows         *)
          Cron,           (* the cronjob that applies the rules              *)
          RetentionDays,  (* WorkspaceRetentionRule.retention_days           *)
          MaxDay,         (* bound: the last day                             *)
          NoRule,         (* no row in workspace_retention_rule              *)
          None            (* no workflow                                     *)

Procs == Workers \cup {Cron}

ASSUME RulesAssumption == Of \in [Rules -> Workflows]
ASSUME FamilyAssumption == Originals \subseteq Workflows /\ None \notin Workflows
ASSUME CronAssumption == Cron \notin Workers
ASSUME DaysAssumption == RetentionDays \in Nat \ {0} /\ MaxDay \in Nat

VARIABLES workflows,  (* the workflows in the database                        *)
          rules,      (* the row of each rule: its status and apply_on        *)
          today,
          removed,    (* rules whose files the cronjob deleted in this pass   *)
          mine,       (* rules the cronjob is handling                        *)
          pc,         (* where each process is                                *)
          fresh,      (* the restart a worker is creating                     *)
          staged,     (* the rules it has set before it inactivates any       *)
          picked,     (* the rules a process loaded                           *)
          want,       (* the rows as its session has them now                 *)
          view        (* what its query saw                                   *)

cronjob == <<removed, mine>>
vars == <<workflows, rules, today, cronjob, pc, fresh, staged, picked, want, view>>

-----------------------------------------------------------------------------
Status == {"created", "active", "inactive", "pending", "applied"}

ALLOWED_WORKSPACE_RETENTION_RULE_STATUS_TRANSITIONS ==
  {<<"created", "active">>, <<"created", "inactive">>,
   <<"active", "inactive">>, <<"active", "pending">>,
   <<"inactive", "active">>,
   <<"pending", "applied">>, <<"pending", "active">>,
   <<"applied", "applied">>}

CanTransitionTo(s, t) ==
  <<s, t>> \in ALLOWED_WORKSPACE_RETENTION_RULE_STATUS_TRANSITIONS

\* apply_on is the end of a day, 0 when it is NULL.
Rows == [status : Status, date : Nat]

ASSUME NoRuleAssumption == NoRule \notin Rows

New == [status |-> "created", date |-> 0]

NoView == [r \in Rules |-> NoRule]

RulesOf(w) == {r \in Rules : Of[r] = w}

\* get_all_restarts: the runs that share the workspace of w, and their rules.
FamilyRules(w) == {r \in Rules : Family[Of[r]] = Family[w]}

In(table, S) == {r \in Rules : table[r] # NoRule /\ table[r].status \in S}

-----------------------------------------------------------------------------
(* update_workspace_retention_rules.                                       *)

\* The row of a rule that is set to status t.
Updated(row, t) ==
  IF row.status = t THEN row
  ELSE [status |-> t,
        date |-> CASE t = "inactive" -> 0
                   [] t = "active" -> today + RetentionDays
                   [] OTHER -> row.date]

\* The check fails for one of the rules R, of which `table` was loaded.
Raises(table, R, t) ==
  \E r \in R : table[r].status # t /\ ~CanTransitionTo(table[r].status, t)

\* The rules R of `table`, set to status t.
Set(table, R, t) ==
  [r \in Rules |-> IF r \in R THEN Updated(table[r], t) ELSE NoRule]

\* p's query returned the rules R out of `table`; they are set to status t.
LoadAndSet(p, table, R, t) ==
  /\ ~Raises(table, R, t)
  /\ picked' = [picked EXCEPT ![p] = R]
  /\ want' = [want EXCEPT ![p] = Set(table, R, t)]
  /\ view' = [view EXCEPT ![p] = table]

\* An UPDATE of the columns that changed since `old` was loaded.
Write(row, old, new) ==
  [status |-> IF new.status # old.status THEN new.status ELSE row.status,
   date |-> IF new.date # old.date THEN new.date ELSE row.date]

\* The rows once p's session is flushed: its new rules are inserted, those it
\* changed are updated.
Flushed(p) ==
  [r \in Rules |->
     IF rules[r] = NoRule
     THEN IF fresh[p] # Of[r] THEN NoRule
          ELSE IF r \in picked[p] THEN want[p][r] ELSE New
     ELSE IF r \in picked[p] THEN Write(rules[r], view[p][r], want[p][r])
          ELSE rules[r]]

\* p's transaction is over, its session forgets what it loaded.
Close(p, l) ==
  /\ pc' = [pc EXCEPT ![p] = l]
  /\ fresh' = [fresh EXCEPT ![p] = None]
  /\ staged' = [staged EXCEPT ![p] = {}]
  /\ picked' = [picked EXCEPT ![p] = {}]
  /\ want' = [want EXCEPT ![p] = NoView]
  /\ view' = [view EXCEPT ![p] = NoView]

-----------------------------------------------------------------------------
(* Workers.                                                                *)

\* activate_workspace_retention_rules of workflow w, whose run is over.
Activate(p, w) ==
  /\ pc[p] = "idle"
  /\ w \in workflows
  /\ LoadAndSet(p, rules, RulesOf(w) \cap In(rules, {"created"}), "active")
  /\ pc' = [pc EXCEPT ![p] = "loaded"]
  /\ UNCHANGED <<workflows, rules, today, cronjob, fresh, staged>>

\* workspace_has_pending_retention_rules: w, a restart of a workflow there is,
\* is only created when no rule of the workspace is pending.
CheckPending(p, w) ==
  /\ pc[p] = "idle"
  /\ w \notin workflows \cup Originals
  /\ \A q \in Workers : fresh[q] # w
  /\ \E v \in workflows : Family[v] = Family[w]
  /\ FamilyRules(w) \cap In(rules, {"pending"}) = {}
  /\ pc' = [pc EXCEPT ![p] = "checked"]
  /\ fresh' = [fresh EXCEPT ![p] = w]
  /\ UNCHANGED <<workflows, rules, today, cronjob, staged, picked, want, view>>

\* set_workspace_retention_rules(commit=False): the rules of the new workflow are
\* added to the session.  The caller does so now, or any time before its commit.
Stage(p) ==
  /\ pc[p] = "checked"
  /\ staged[p] = {}
  /\ staged' = [staged EXCEPT ![p] = RulesOf(fresh[p])]
  /\ UNCHANGED <<workflows, rules, today, cronjob, pc, fresh, picked, want, view>>

\* What a transaction sees that has flushed the new rules R.
Seen(R) == [r \in Rules |-> IF r \in R THEN New ELSE rules[r]]

\* Mutated: the helper does not flush, and the session has no autoflush.
Inactivate_NoFlush(p) ==
  /\ pc[p] = "checked"
  /\ LoadAndSet(p, rules, FamilyRules(fresh[p]) \cap In(rules, {"created", "active"}),
                "inactive")
  /\ pc' = [pc EXCEPT ![p] = "loaded"]
  /\ UNCHANGED <<workflows, rules, today, cronjob, fresh, staged>>

\* Mutated: the helper commits what its caller has staged instead of flushing it.
Inactivate_Commits(p) ==
  LET table == Seen(staged[p])
  IN /\ pc[p] = "checked"
     /\ LoadAndSet(p, table, FamilyRules(fresh[p]) \cap In(table, {"created", "active"}),
                   "inactive")
     /\ pc' = [pc EXCEPT ![p] = "loaded"]
     /\ workflows' = workflows \cup {fresh[p]}
     /\ rules' = table
     /\ UNCHANGED <<today, cronjob, fresh, staged>>

\* In the transaction of the restart: flush what it has staged, and inactivate
\* the rules of all runs that share the workspace.
Inactivate(p) ==
  LET table == Seen(staged[p])
  IN /\ pc[p] = "checked"
     /\ LoadAndSet(p, table, FamilyRules(fresh[p]) \cap In(table, {"created", "active"}),
                   "inactive")
     /\ pc' = [pc EXCEPT ![p] = "loaded"]
     /\ UNCHANGED <<workflows, rules, today, cronjob, fresh, staged>>

\* Mutated: the commit does not expire what the session loaded.
Commit_KeepsRows(p) ==
  /\ pc[p] = "loaded"
  /\ rules' = Flushed(p)
  /\ workflows' = IF fresh[p] = None THEN workflows ELSE workflows \cup {fresh[p]}
  /\ pc' = [pc EXCEPT ![p] = "idle"]
  /\ fresh' = [fresh EXCEPT ![p] = None]
  /\ UNCHANGED <<today, cronjob, staged, picked, want, view>>

\* The commit of a worker; a restart commits its workflow, its rules and the
\* rules it inactivated.
Commit(p) ==
  /\ pc[p] = "loaded"
  /\ rules' = Flushed(p)
  /\ workflows' = IF fresh[p] = None THEN workflows ELSE workflows \cup {fresh[p]}
  /\ Close(p, "idle")
  /\ UNCHANGED <<today, cronjob>>

\* The worker dies, or its caller rolls back.
Rollback(p) ==
  /\ pc[p] # "idle"
  /\ Close(p, "idle")
  /\ UNCHANGED <<workflows, rules, today, cronjob>>

-----------------------------------------------------------------------------
(* The cronjob.                                                            *)

\* It takes the active rules that are due and marks them as pending.
CronTake ==
  LET due == {r \in In(rules, {"active"}) : rules[r].date < today}
  IN /\ pc[Cron] = "idle"
     /\ due # {}
     /\ LoadAndSet(Cron, rules, due, "pending")
     /\ mine' = due
     /\ removed' = {}
     /\ pc' = [pc EXCEPT ![Cron] = "taken"]
     /\ UNCHANGED <<workflows, rules, today, fresh, staged>>

CronCommitPending ==
  /\ pc[Cron] = "taken"
  /\ rules' = Flushed(Cron)
  /\ Close(Cron, "removing")
  /\ UNCHANGED <<workflows, today, cronjob>>

\* The files of one of its rules are deleted.
CronRemove(r) ==
  /\ pc[Cron] = "removing"
  /\ r \in mine \ removed
  /\ removed' = removed \cup {r}
  /\ UNCHANGED <<workflows, rules, today, mine, pc, fresh, staged, picked, want, view>>

\* The rules have been applied, or some files could not be deleted and the rules
\* are to be active again.  The commit has expired the rules, so that they are
\* loaded again.
CronSettle(t) ==
  /\ pc[Cron] = "removing"
  /\ t = "applied" => mine \subseteq removed
  /\ LoadAndSet(Cron, rules, mine, t)
  /\ pc' = [pc EXCEPT ![Cron] = "settled"]
  /\ UNCHANGED <<workflows, rules, today, cronjob, fresh, staged>>

\* One of the rules is in a status from which it cannot go on: the helper raises
\* and the cronjob ends.
CronRaises(t) ==
  /\ pc[Cron] = "removing"
  /\ Raises(rules, mine, t)
  /\ mine' = {}
  /\ removed' = {}
  /\ Close(Cron, "idle")
  /\ UNCHANGED <<workflows, rules, today>>

CronCommitSettled ==
  /\ pc[Cron] = "settled"
  /\ rules' = Flushed(Cron)
  /\ mine' = {}
  /\ removed' = {}
  /\ Close(Cron, "idle")
  /\ UNCHANGED <<workflows, today>>

Tomorrow ==
  /\ today < MaxDay
  /\ today' = today + 1
  /\ UNCHANGED <<workflows, rules, cronjob, pc, fresh, staged, picked, want, view>>

-----------------------------------------------------------------------------
\* The original workflows are there with their rules, none has run.
Init ==
  /\ workflows = Originals
  /\ rules = [r \in Rules |-> IF Of[r] \in Originals THEN New ELSE NoRule]
  /\ today = 1
  /\ removed = {}
  /\ mine = {}
  /\ pc = [p \in Procs |-> "idle"]
  /\ fresh = [p \in Procs |-> None]
  /\ staged = [p \in Procs |-> {}]
  /\ picked = [p \in Procs |-> {}]
  /\ want = [p \in Procs |-> NoView]
  /\ view = [p \in Procs |-> NoView]

WorkerStep(p) ==
  \/ \E w \in Workflows : Activate(p, w) \/ CheckPending(p, w)
  \/ Stage(p) \/ Inactivate(p) \/ Commit(p) \/ Rollback(p)

CronStep ==
  \/ CronTake \/ CronCommitPending
  \/ \E r \in Rules : CronRemove(r)
  \/ \E t \in {"applied", "active"} : CronSettle(t) \/ CronRaises(t)
  \/ CronCommitSettled

Next == (\E p \in Workers : WorkerStep(p)) \/ CronStep \/ Tomorrow

Spec == Init /\ [][Next]_vars
-----------------------------------------------------------------------------
(* Properties.                                                             *)

\* The variables keep their types; between its transactions a process holds no rule
\* in its session.
TypeOK ==
  /\ workflows \in SUBSET Workflows
  /\ rules \in [Rules -> Rows \cup {NoRule}]
  /\ today \in Nat
  /\ removed \in SUBSET Rules
  /\ mine \in SUBSET Rules
  /\ pc \in [Procs -> {"idle", "checked", "loaded", "taken", "removing", "settled"}]
  /\ fresh \in [Procs -> Workflows \cup {None}]
  /\ staged \in [Procs -> SUBSET Rules]
  /\ picked \in [Procs -> SUBSET Rules]
  /\ want \in [Procs -> [Rules -> Rows \cup {NoRule}]]
  /\ view \in [Procs -> [Rules -> Rows \cup {NoRule}]]
  /\ \A p \in Procs : pc[p] \in {"idle", "removing"} => picked[p] = {}

\* "A later rollback still removes every flushed change atomically"
\* (update_workspace_retention_rules): a restart and its rules come into being
\* together or not at all, however often its caller flushes and wherever it fails.
RestartsWhole ==
  \A r \in Rules : rules[r] # NoRule <=> Of[r] \in workflows

\* inactivate_workspace_retention_rules: when a restart comes into being, no rule
\* of the workspace it goes on to use stays in force, of those that it found there
\* or had staged itself before, unless another process changed the rule meanwhile.
RestartInactivates ==
  [][\A p \in Workers, r \in Rules :
       /\ pc[p] = "loaded" /\ fresh[p] \in workflows' \ workflows
       /\ r \in FamilyRules(fresh[p])
       /\ view[p][r] # NoRule \/ r \in staged[p]
       /\ rules[r] \in {NoRule, view[p][r]}
       => rules'[r].status \notin {"created", "active"}]_vars

\* What update_workspace_retention_rules asserts (utils.py:728-732): a rule never
\* goes from one status to another that the table of transitions does not list.
TransitionsAllowed ==
  [][\A r \in Rules :
       /\ rules[r] # NoRule
       /\ rules'[r].status # rules[r].status
       => CanTransitionTo(rules[r].status, rules'[r].status)]_vars
=============================================================================
