--------------------------- MODULE WorkflowStatus ---------------------------
(***************************************************************************)
(* The change of a workflow's status (Workflow.update_workflow_status and  *)
(* the listener of Workflow.status) and the accounting of the CPU and disk *)
(* it triggers, beside the periodic update of all quotas ("reana-db quota  *)
(* resource-usage-update").                                                *)
(*                                                                         *)
(* The listener runs before the status is assigned and commits the session *)
(* several times on its way; only the commit of update_workflow_status     *)
(* writes the status.  What an action reads is committed; what it writes   *)
(* it commits, except that a quota row is read in one action and written   *)
(* in a later one, as an UPDATE by primary key that does not look at what  *)
(* the row holds by then, or as an INSERT that fails if the row exists by  *)
(* then.  Users have no CPU quota period here.                             *)
(***************************************************************************)
EXTENDS Naturals, Sequences, FiniteSetsExt

CONSTANTS Workflows,
          Users,
          Owner,      (* Workflow.owner: [Workflows -> Users]              *)
          Workers,    (* processes that change the status of workflows     *)
          Cron,       (* the process that updates all quotas periodically  *)
          Policy,     (* WORKFLOW_TERMINATION_QUOTA_UPDATE_POLICY          *)
          Periodic,   (* PERIODIC_RESOURCE_QUOTA_UPDATE_POLICY             *)
          Initial,    (* statuses that workflows are found in at first     *)
          MaxTime,    (* bound: no run starts or ends after this time      *)
          NoRow,      (* no row in workflow_resource                       *)
          None        (* no workflow                                       *)

Procs == Workers \cup {Cron}

Kinds == {"cpu", "disk"}

ASSUME OwnerAssumption == Owner \in [Workflows -> Users]
ASSUME ProcsAssumption == Cron \notin Workers
ASSUME PolicyAssumption == Policy \subseteq Kinds /\ Periodic \in BOOLEAN
ASSUME InitialAssumption == Initial \subseteq {"created", "queued", "pending"}
ASSUME WorkflowsAssumption == IsFiniteSet(Workflows)
ASSUME NullAssumption == NoRow \notin Nat /\ None \notin Workflows

VARIABLES status,     (* workflow.status                                      *)
          started,    (* workflow.run_started_at, 0 when it is not set        *)
          finished,   (* workflow.run_finished_at                             *)
          stopped,    (* workflow.run_stopped_at                              *)
          rule,       (* status of the retention rules of the workflow        *)
          size,       (* bytes in the workspace                               *)
          wres,       (* workflow_resource.quota_used, per kind and workflow  *)
          ures,       (* user_resource.quota_used, per kind and user          *)
          now,        (* the time                                             *)
          pc,         (* where each process is                                *)
          wf,         (* the workflow it works on                             *)
          old, new,   (* the status the worker loaded, and the one to set     *)
          plan,       (* the kinds of quota it has still to update            *)
          todo,       (* the workflows, then users, it has still to update    *)
          seen,       (* the quota row it read                                *)
          amount,     (* the usage it computed                                *)
          snap,       (* the timestamps the periodic update loaded            *)
          broken      (* its session must be rolled back before any other use *)

runs == <<status, started, finished, stopped, rule, size, now>>
quotas == <<wres, ures>>
procs == <<pc, wf, old, new, plan, todo, seen, amount, snap, broken>>
vars == <<runs, quotas, procs>>

-----------------------------------------------------------------------------
RunStatus == {"created", "queued", "pending", "running", "finished", "failed",
              "stopped", "deleted"}

ALLOWED_WORKFLOW_STATUS_TRANSITIONS ==
  {<<"created", "deleted">>, <<"created", "queued">>,
   <<"queued", "deleted">>, <<"queued", "pending">>, <<"queued", "failed">>,
   <<"pending", "running">>, <<"pending", "deleted">>,
   <<"running", "failed">>, <<"running", "finished">>, <<"running", "stopped">>,
   <<"running", "running">>,
   <<"stopped", "deleted">>,
   <<"failed", "deleted">>, <<"failed", "running">>,
   <<"finished", "deleted">>, <<"finished", "running">>}

Terminated == {"finished", "failed", "stopped"}

\* The statuses that stamp a time.
Stamped == Terminated \cup {"running"}

CanTransitionTo(s, t) == <<s, t>> \in ALLOWED_WORKFLOW_STATUS_TRANSITIONS

\* The policy of the deployment switches kinds off.
IfDue(k) == IF k \in Policy THEN <<k>> ELSE << >>

\* The quotas the listener updates for a new status, in order.
Due(t) ==
  CASE t \in Terminated -> IfDue("cpu") \o IfDue("disk")
    [] t = "deleted" -> IfDue("disk")
    [] OTHER -> << >>

\* The duration of a run that started at s and finished at f or else stopped
\* at x; a time that is not set, or out of order, makes it 0.
Accounted(s, f, x) ==
  LET t == IF f # 0 THEN f ELSE x
  IN IF s = 0 \/ t <= s THEN 0 ELSE t - s

Times(w) == [s |-> started[w], f |-> finished[w], x |-> stopped[w]]

NoTimes == [w \in Workflows |-> [s |-> 0, f |-> 0, x |-> 0]]

\* What a quota of the workflow amounts to, its times being t.
Usage(k, w, t) == IF k = "cpu" THEN Accounted(t.s, t.f, t.x) ELSE size[w]

Used(k, w) == IF wres[k][w] = NoRow THEN 0 ELSE wres[k][w]

\* What the workflows of a user sum up to.
Total(k, u) ==
  FoldSet(LAMBDA w, n : n + Used(k, w), 0, {w \in Workflows : Owner[w] = u})

-----------------------------------------------------------------------------
(* Reading and writing of the quota rows, shared by the listener           *)
(* (update_workflow_cpu_quota, store_workflow_disk_quota, then             *)
(* update_users_*_quota of the owner) and the periodic update.             *)

Goto(p, l) == pc' = [pc EXCEPT ![p] = l]

\* The row of workflow w is looked up and the usage n computed.
ReadWorkflowRow(p, k, w, n) ==
  /\ seen' = [seen EXCEPT ![p] = wres[k][w]]
  /\ amount' = [amount EXCEPT ![p] = n]

\* The INSERT finds that the row was created since it was looked up.
InsertClashes(p, k, w) == seen[p] = NoRow /\ wres[k][w] # NoRow

\* A row that was not there is created, one that was is updated if the
\* usage differs from the one that was read.
WriteWorkflowRow(p, k, w) ==
  /\ wres' = IF amount[p] = seen[p] THEN wres
             ELSE [wres EXCEPT ![k][w] = amount[p]]
  /\ UNCHANGED ures

\* Mutated: the sum of no rows is not turned into a zero.
ReadUserRow_NullSum(p, k, u) ==
  /\ seen' = [seen EXCEPT ![p] = ures[k][u]]
  /\ amount' = [amount EXCEPT ![p] =
       IF \A w \in Workflows : Owner[w] = u => wres[k][w] = NoRow
       THEN NoRow ELSE Total(k, u)]

\* The row of user u is read and the rows of the workflows summed.
ReadUserRow(p, k, u) ==
  /\ seen' = [seen EXCEPT ![p] = ures[k][u]]
  /\ amount' = [amount EXCEPT ![p] = Total(k, u)]

\* Mutated: the sum is added to the total that was read.
WriteUserRow_Add(p, k, u) ==
  /\ ures' = [ures EXCEPT ![k][u] = seen[p] + amount[p]]
  /\ UNCHANGED wres

WriteUserRow(p, k, u) ==
  /\ ures' = IF amount[p] = seen[p] THEN ures ELSE [ures EXCEPT ![k][u] = amount[p]]
  /\ UNCHANGED wres

Forget(p) ==
  /\ seen' = [seen EXCEPT ![p] = NoRow]
  /\ amount' = [amount EXCEPT ![p] = 0]

-----------------------------------------------------------------------------
(* Change of a status.                                                     *)

\* A worker loads workflow w and, if it may go there, sets it to status t.  The
\* files of a workflow are removed before it is marked as deleted.
Load(p, w, t) ==
  /\ pc[p] = "idle"
  /\ CanTransitionTo(status[w], t)
  /\ t \in Stamped => now < MaxTime
  /\ Goto(p, "timestamp")
  /\ wf' = [wf EXCEPT ![p] = w]
  /\ old' = [old EXCEPT ![p] = status[w]]
  /\ new' = [new EXCEPT ![p] = t]
  /\ plan' = [plan EXCEPT ![p] = Due(t)]
  /\ size' = IF t = "deleted" THEN [size EXCEPT ![w] = 0] ELSE size
  /\ UNCHANGED <<status, started, finished, stopped, rule, now, quotas, todo, seen,
                 amount, snap, broken>>

\* Where the listener goes on when kinds of quota l are left to update.
AfterRules(l) == IF l = << >> THEN "commit" ELSE "workflow"

\* Mutated: a workflow that failed keeps its rules as they are.
AfterTimestamp_FinishedOnly(t, l) == IF t = "finished" THEN "rules" ELSE AfterRules(l)

AfterTimestamp(t, l) == IF t \in {"finished", "failed"} THEN "rules" ELSE AfterRules(l)

\* Mutated: the listener stamps no time.
UpdateTimestamp_Skip(p) ==
  /\ pc[p] = "timestamp"
  /\ Goto(p, AfterTimestamp(new[p], plan[p]))
  /\ UNCHANGED <<runs, quotas, wf, old, new, plan, todo, seen, amount, snap, broken>>

\* update_workflow_timestamp: the time of the new status is committed.
UpdateTimestamp(p) ==
  LET w == wf[p]
      t == new[p]
      Stamp(f, S) == IF t \in S THEN [f EXCEPT ![w] = now'] ELSE f
  IN /\ pc[p] = "timestamp"
     /\ now' = IF t \in Stamped THEN now + 1 ELSE now
     /\ finished' = Stamp(finished, {"finished", "failed"})
     /\ stopped' = Stamp(stopped, {"stopped"})
     /\ started' = Stamp(started, {"running"})
     /\ Goto(p, AfterTimestamp(t, plan[p]))
     /\ UNCHANGED <<status, rule, size, quotas, wf, old, new, plan, todo, seen, amount,
                    snap, broken>>

\* activate_workspace_retention_rules: rules that are still created are activated.
ActivateRules(p) ==
  /\ pc[p] = "rules"
  /\ rule' = [rule EXCEPT ![wf[p]] = IF @ = "created" THEN "active" ELSE @]
  /\ Goto(p, AfterRules(plan[p]))
  /\ UNCHANGED <<status, started, finished, stopped, size, now, quotas, wf, old, new,
                 plan, todo, seen, amount, snap, broken>>

\* The usage of the workflow is computed and its row looked up.  A run of no
\* duration has no row, the total of its owner is updated all the same.
ReadWorkflow(p) ==
  LET k == Head(plan[p])
      n == Usage(k, wf[p], Times(wf[p]))
  IN /\ pc[p] = "workflow"
     /\ ~broken[p]
     /\ \/ /\ k = "cpu" /\ n = 0
           /\ Goto(p, "user")
           /\ UNCHANGED <<seen, amount>>
        \/ /\ k # "cpu" \/ n # 0
           /\ ReadWorkflowRow(p, k, wf[p], n)
           /\ Goto(p, "writeworkflow")
     /\ UNCHANGED <<runs, quotas, wf, old, new, plan, todo, snap, broken>>

WriteWorkflow(p) ==
  LET k == Head(plan[p])
  IN /\ pc[p] = "writeworkflow"
     /\ ~InsertClashes(p, k, wf[p])
     /\ WriteWorkflowRow(p, k, wf[p])
     /\ Forget(p)
     /\ Goto(p, "user")
     /\ UNCHANGED <<runs, wf, old, new, plan, todo, snap, broken>>

ReadUser(p) ==
  /\ pc[p] = "user"
  /\ ReadUserRow(p, Head(plan[p]), Owner[wf[p]])
  /\ Goto(p, "writeuser")
  /\ UNCHANGED <<runs, quotas, wf, old, new, plan, todo, snap, broken>>

\* Go on to the next kind of quota, or to the commit of the status.
NextKind(p) ==
  /\ plan' = [plan EXCEPT ![p] = Tail(@)]
  /\ Goto(p, AfterRules(Tail(plan[p])))
  /\ Forget(p)

WriteUser(p) ==
  /\ pc[p] = "writeuser"
  /\ WriteUserRow(p, Head(plan[p]), Owner[wf[p]])
  /\ NextKind(p)
  /\ UNCHANGED <<runs, wf, old, new, todo, snap, broken>>

\* "Failed to update ... quota: ... Continuing...": an error that is not the
\* database's (the size of the workspace cannot be found out, ...), or that
\* leaves the session usable, is logged and the listener goes on.
QuotaError(p) ==
  /\ pc[p] \in {"workflow", "user"}
  /\ NextKind(p)
  /\ UNCHANGED <<runs, quotas, wf, old, new, todo, snap, broken>>

\* The INSERT of the row fails: the flush rolls the transaction back and leaves
\* a session that refuses any other use; the error is logged likewise.
InsertFails(p) ==
  /\ pc[p] = "writeworkflow"
  /\ InsertClashes(p, Head(plan[p]), wf[p])
  /\ broken' = [broken EXCEPT ![p] = TRUE]
  /\ NextKind(p)
  /\ UNCHANGED <<runs, quotas, wf, old, new, todo, snap>>

\* The worker is ready for another change.
Released(p) ==
  /\ Goto(p, "idle")
  /\ wf' = [wf EXCEPT ![p] = None]
  /\ plan' = [plan EXCEPT ![p] = << >>]
  /\ broken' = [broken EXCEPT ![p] = FALSE]
  /\ old' = [old EXCEPT ![p] = "created"]
  /\ new' = [new EXCEPT ![p] = "created"]
  /\ Forget(p)
  /\ UNCHANGED <<todo, snap>>

\* The status is assigned and committed; the UPDATE is left out when the
\* status is the one that was loaded.
CommitStatus(p) ==
  /\ pc[p] = "commit"
  /\ ~broken[p]
  /\ status' = IF new[p] = old[p] THEN status ELSE [status EXCEPT ![wf[p]] = new[p]]
  /\ Released(p)
  /\ UNCHANGED <<started, finished, stopped, rule, size, now, quotas>>

\* The session refuses the commit, and the error reaches the caller of
\* update_workflow_status.
CommitRaises(p) ==
  /\ pc[p] = "commit"
  /\ broken[p]
  /\ Goto(p, "raised")
  /\ UNCHANGED <<runs, quotas, wf, old, new, plan, todo, seen, amount, snap, broken>>

\* The caller gives the change up and rolls its session back.
GiveUp(p) ==
  /\ pc[p] = "raised"
  /\ Released(p)
  /\ UNCHANGED <<runs, quotas>>

\* The worker dies; what it has committed stays.
Crash(p) ==
  /\ pc[p] # "idle"
  /\ Released(p)
  /\ UNCHANGED <<runs, quotas>>

-----------------------------------------------------------------------------
(* The periodic update: the disk then the CPU of every workflow, and each  *)
(* time of every user.                                                     *)

CronStart ==
  /\ Periodic
  /\ pc[Cron] = "idle"
  /\ Goto(Cron, "load")
  /\ plan' = [plan EXCEPT ![Cron] = <<"disk", "cpu">>]
  /\ UNCHANGED <<runs, quotas, wf, old, new, todo, seen, amount, snap, broken>>

\* All workflows are loaded at once and detached from the session.
CronLoad ==
  /\ pc[Cron] = "load"
  /\ Goto(Cron, "workflow")
  /\ todo' = [todo EXCEPT ![Cron] = Workflows]
  /\ snap' = [w \in Workflows |-> Times(w)]
  /\ UNCHANGED <<runs, quotas, wf, old, new, plan, seen, amount, broken>>

CronReadWorkflow(w) ==
  LET k == Head(plan[Cron])
      n == Usage(k, w, snap[w])
  IN /\ pc[Cron] = "workflow"
     /\ w \in todo[Cron]
     /\ \/ /\ k = "cpu" /\ n = 0
           /\ todo' = [todo EXCEPT ![Cron] = @ \ {w}]
           /\ UNCHANGED <<pc, wf, seen, amount>>
        \/ /\ k # "cpu" \/ n # 0
           /\ ReadWorkflowRow(Cron, k, w, n)
           /\ wf' = [wf EXCEPT ![Cron] = w]
           /\ Goto(Cron, "writeworkflow")
           /\ UNCHANGED todo
     /\ UNCHANGED <<runs, quotas, old, new, plan, snap, broken>>

CronWriteWorkflow ==
  LET k == Head(plan[Cron])
  IN /\ pc[Cron] = "writeworkflow"
     /\ ~InsertClashes(Cron, k, wf[Cron])
     /\ WriteWorkflowRow(Cron, k, wf[Cron])
     /\ todo' = [todo EXCEPT ![Cron] = @ \ {wf[Cron]}]
     /\ wf' = [wf EXCEPT ![Cron] = None]
     /\ Forget(Cron)
     /\ Goto(Cron, "workflow")
     /\ UNCHANGED <<runs, old, new, plan, snap, broken>>

\* All workflows are done: go over the users.
CronUsers ==
  /\ pc[Cron] = "workflow"
  /\ todo[Cron] = {}
  /\ todo' = [todo EXCEPT ![Cron] = Users]
  /\ snap' = NoTimes
  /\ Goto(Cron, "user")
  /\ UNCHANGED <<runs, quotas, wf, old, new, plan, seen, amount, broken>>

CronReadUser(u) ==
  /\ pc[Cron] = "user"
  /\ u \in todo[Cron]
  /\ ReadUserRow(Cron, Head(plan[Cron]), u)
  /\ wf' = [wf EXCEPT ![Cron] = u]
  /\ Goto(Cron, "writeuser")
  /\ UNCHANGED <<runs, quotas, old, new, plan, todo, snap, broken>>

CronWriteUser ==
  /\ pc[Cron] = "writeuser"
  /\ WriteUserRow(Cron, Head(plan[Cron]), wf[Cron])
  /\ todo' = [todo EXCEPT ![Cron] = @ \ {wf[Cron]}]
  /\ wf' = [wf EXCEPT ![Cron] = None]
  /\ Forget(Cron)
  /\ Goto(Cron, "user")
  /\ UNCHANGED <<runs, old, new, plan, snap, broken>>

CronNextKind ==
  /\ pc[Cron] = "user"
  /\ todo[Cron] = {}
  /\ plan' = [plan EXCEPT ![Cron] = Tail(@)]
  /\ Goto(Cron, IF Tail(plan[Cron]) = << >> THEN "idle" ELSE "load")
  /\ UNCHANGED <<runs, quotas, wf, old, new, todo, seen, amount, snap, broken>>

\* An error (here: the row exists by now) ends the command, whatever was left.
CronFails ==
  /\ pc[Cron] = "writeworkflow"
  /\ InsertClashes(Cron, Head(plan[Cron]), wf[Cron])
  /\ Goto(Cron, "idle")
  /\ plan' = [plan EXCEPT ![Cron] = << >>]
  /\ todo' = [todo EXCEPT ![Cron] = {}]
  /\ wf' = [wf EXCEPT ![Cron] = None]
  /\ snap' = NoTimes
  /\ Forget(Cron)
  /\ UNCHANGED <<runs, quotas, old, new, broken>>

-----------------------------------------------------------------------------
\* Workflows that have not run yet.
Init ==
  /\ status \in [Workflows -> Initial]
  /\ started = [w \in Workflows |-> 0]
  /\ finished = [w \in Workflows |-> 0]
  /\ stopped = [w \in Workflows |-> 0]
  /\ rule = [w \in Workflows |-> "created"]
  /\ size = [w \in Workflows |-> 1]
  /\ wres = [k \in Kinds |-> [w \in Workflows |-> NoRow]]
  /\ ures = [k \in Kinds |-> [u \in Users |-> 0]]
  /\ now = 0
  /\ pc = [p \in Procs |-> "idle"]
  /\ wf = [p \in Procs |-> None]
  /\ old = [p \in Procs |-> "created"]
  /\ new = [p \in Procs |-> "created"]
  /\ plan = [p \in Procs |-> << >>]
  /\ todo = [p \in Procs |-> {}]
  /\ seen = [p \in Procs |-> NoRow]
  /\ amount = [p \in Procs |-> 0]
  /\ snap = NoTimes
  /\ broken = [p \in Procs |-> FALSE]

WorkerStep(p) ==
  \/ UpdateTimestamp(p) \/ ActivateRules(p)
  \/ ReadWorkflow(p) \/ WriteWorkflow(p) \/ ReadUser(p) \/ WriteUser(p)
  \/ QuotaError(p) \/ InsertFails(p)
  \/ CommitStatus(p) \/ CommitRaises(p) \/ GiveUp(p) \/ Crash(p)

CronStep ==
  \/ CronStart \/ CronLoad \/ CronUsers \/ CronNextKind
  \/ \E w \in Workflows : CronReadWorkflow(w)
  \/ CronWriteWorkflow \/ CronFails
  \/ \E u \in Users : CronReadUser(u)
  \/ CronWriteUser

Next ==
  \/ \E p \in Workers : \/ WorkerStep(p)
                        \/ \E w \in Workflows, t \in RunStatus : Load(p, w, t)
  \/ CronStep

Spec == Init /\ [][Next]_vars

\* A worker that started goes on or dies, and the periodic update runs again
\* and again.
FairSpec == Spec /\ (\A p \in Workers : WF_vars(WorkerStep(p))) /\ WF_vars(CronStep)
-----------------------------------------------------------------------------
(* Properties.                                                             *)

PCs == {"idle", "timestamp", "rules", "workflow", "writeworkflow", "user",
        "writeuser", "commit", "raised", "load"}

StatusTypeOK ==
  /\ status \in [Workflows -> RunStatus]
  /\ started \in [Workflows -> Nat]
  /\ finished \in [Workflows -> Nat]
  /\ stopped \in [Workflows -> Nat]
  /\ rule \in [Workflows -> {"created", "active"}]
  /\ now \in Nat
  /\ pc \in [Procs -> PCs]
  /\ wf \in [Procs -> Workflows \cup Users \cup {None}]
  /\ \A p \in Workers : pc[p] # "idle" => wf[p] \in Workflows
  /\ old \in [Procs -> RunStatus]
  /\ new \in [Procs -> RunStatus]
  /\ broken \in [Procs -> BOOLEAN]

TypeOK ==
  /\ StatusTypeOK
  /\ size \in [Workflows -> Nat]
  /\ wres \in [Kinds -> [Workflows -> Nat \cup {NoRow}]]
  /\ ures \in [Kinds -> [Users -> Nat]]
  /\ plan \in [Procs -> Seq(Kinds)]
  /\ todo \in [Procs -> SUBSET (Workflows \cup Users)]
  /\ seen \in [Procs -> Nat \cup {NoRow}]
  /\ amount \in [Procs -> Nat]
  /\ snap \in [Workflows -> [s : Nat, f : Nat, x : Nat]]

\* The files of a finished workflow are kept as long as its owner asked, not for
\* ever: a status that says the workflow is over is only ever visible after its
\* retention rules were activated, wherever workers crash, fail or interleave.
RulesActive ==
  \A w \in Workflows : status[w] \in {"finished", "failed"} => rule[w] = "active"

\* A status is never visible before the time of the event it tells of.
Timestamped ==
  \A w \in Workflows :
    /\ status[w] = "running" => started[w] # 0
    /\ status[w] \in {"finished", "failed"} => finished[w] # 0
    /\ status[w] = "stopped" => stopped[w] # 0

\* Whatever workers and the periodic update overwrite for each other, fail to do
\* or leave undone, the periodic update has the last word: when statuses stop
\* changing, what is charged to workflows and users becomes what was used.
QuotasCatchUp ==
  <>[](/\ \A w \in Workflows : /\ Usage("cpu", w, Times(w)) \in {0, wres["cpu"][w]}
                               /\ wres["disk"][w] = size[w]
       /\ \A k \in Kinds, u \in Users : ures[k][u] = Total(k, u))

\* What the log says when an update of a quota fails, "Continuing..." (models.py:
\* 932, 942; CHANGELOG 0.8.1: "continuable errors"): the change of status itself
\* goes through.
QuotaErrorsAreContinuable == \A p \in Workers : pc[p] # "raised"

\* What update_workflow_cpu_quota says it returns (utils.py:461): the running time
\* of a workflow that has terminated.  For a workflow that was stopped that is the
\* time from its last start to the stop.
StoppedIsCharged ==
  \A w \in Workflows :
    status[w] = "stopped" => Usage("cpu", w, Times(w)) = stopped[w] - started[w]
=============================================================================
