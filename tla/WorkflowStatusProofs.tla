------------------------ MODULE WorkflowStatusProofs ------------------------
(***************************************************************************)
(* Proofs about the change of statuses, for any number of workflows,       *)
(* workers and crashes, and whatever the quota policies of the deployment. *)
(***************************************************************************)
EXTENDS WorkflowStatus, FiniteSetTheorems, WellFoundedInduction, TLAPS

\* The steps of the listener at which the time is committed, and those at
\* which the retention rules have been activated too.
AfterRulesPCs == {"workflow", "writeworkflow", "user", "writeuser", "commit", "raised"}

\* What a worker has committed by the time it comes to the status.
ListenerOK ==
  \A p \in Workers :
    /\ pc[p] \in AfterRulesPCs \cup {"rules"} =>
         /\ new[p] = "running" => started[wf[p]] # 0
         /\ new[p] \in {"finished", "failed"} => finished[wf[p]] # 0
         /\ new[p] = "stopped" => stopped[wf[p]] # 0
    /\ pc[p] \in AfterRulesPCs /\ new[p] \in {"finished", "failed"} =>
         rule[wf[p]] = "active"

StatusInv == StatusTypeOK /\ ListenerOK /\ RulesActive /\ Timestamped

\* Every variable of the status machinery keeps its type.
LEMMA StatusTypeInductive ==
  ASSUME StatusTypeOK, [Next]_vars
  PROVE  StatusTypeOK'
<1>. USE ProcsAssumption DEF StatusTypeOK, Procs, PCs, RunStatus, Goto, Forget, runs,
                             quotas
<1>1. ASSUME NEW p \in Workers, NEW w \in Workflows, NEW t \in RunStatus,
             Load(p, w, t)
       PROVE StatusTypeOK'
  BY <1>1 DEF Load
<1>2. ASSUME NEW p \in Workers, UpdateTimestamp(p) PROVE StatusTypeOK'
  BY <1>2 DEF UpdateTimestamp, AfterTimestamp, AfterRules
<1>3. ASSUME NEW p \in Workers, ActivateRules(p) PROVE StatusTypeOK'
  BY <1>3 DEF ActivateRules, AfterRules
<1>4. ASSUME NEW p \in Workers, ReadWorkflow(p) PROVE StatusTypeOK'
  BY <1>4 DEF ReadWorkflow
<1>5. ASSUME NEW p \in Workers, WriteWorkflow(p) PROVE StatusTypeOK'
  BY <1>5 DEF WriteWorkflow, WriteWorkflowRow
<1>6. ASSUME NEW p \in Workers, ReadUser(p) PROVE StatusTypeOK'
  BY <1>6 DEF ReadUser
<1>7. ASSUME NEW p \in Workers, WriteUser(p) PROVE StatusTypeOK'
  BY <1>7 DEF WriteUser, NextKind, AfterRules
<1>8. ASSUME NEW p \in Workers, QuotaError(p) PROVE StatusTypeOK'
  BY <1>8 DEF QuotaError, NextKind, AfterRules
<1>9. ASSUME NEW p \in Workers, InsertFails(p) PROVE StatusTypeOK'
  BY <1>9 DEF InsertFails, NextKind, AfterRules
<1>10. ASSUME NEW p \in Workers, CommitStatus(p) PROVE StatusTypeOK'
  BY <1>10 DEF CommitStatus, Released
<1>11. ASSUME NEW p \in Workers, CommitRaises(p) PROVE StatusTypeOK'
  BY <1>11 DEF CommitRaises
<1>12. ASSUME NEW p \in Workers, GiveUp(p) PROVE StatusTypeOK'
  BY <1>12 DEF GiveUp, Released
<1>13. ASSUME NEW p \in Workers, Crash(p) PROVE StatusTypeOK'
  BY <1>13 DEF Crash, Released
<1>14. ASSUME CronStart PROVE StatusTypeOK'
  BY <1>14 DEF CronStart
<1>15. ASSUME CronLoad PROVE StatusTypeOK'
  BY <1>15 DEF CronLoad
<1>16. ASSUME CronUsers PROVE StatusTypeOK'
  BY <1>16 DEF CronUsers
<1>17. ASSUME CronNextKind PROVE StatusTypeOK'
  BY <1>17 DEF CronNextKind
<1>18. ASSUME CronWriteWorkflow PROVE StatusTypeOK'
  BY <1>18 DEF CronWriteWorkflow
<1>19. ASSUME CronFails PROVE StatusTypeOK'
  BY <1>19 DEF CronFails
<1>20. ASSUME CronWriteUser PROVE StatusTypeOK'
  BY <1>20 DEF CronWriteUser
<1>21. ASSUME NEW w \in Workflows, CronReadWorkflow(w) PROVE StatusTypeOK'
  BY <1>21 DEF CronReadWorkflow
<1>22. ASSUME NEW u \in Users, CronReadUser(u) PROVE StatusTypeOK'
  BY <1>22 DEF CronReadUser
<1>23. CASE UNCHANGED vars
  BY <1>23 DEF vars, procs
<1>. QED
  BY <1>1, <1>2, <1>3, <1>4, <1>5, <1>6, <1>7, <1>8, <1>9, <1>10, <1>11,
    <1>12, <1>13, <1>14, <1>15, <1>16, <1>17, <1>18, <1>19, <1>20, <1>21,
    <1>22, <1>23 DEF Next, WorkerStep, CronStep

\* A step keeps what the listener has committed ahead of the status.
LEMMA ListenerInductive ==
  ASSUME StatusInv, [Next]_vars
  PROVE  ListenerOK' /\ RulesActive' /\ Timestamped'
<1>. USE ProcsAssumption DEF StatusInv, StatusTypeOK, Procs, ListenerOK, RulesActive,
                             Timestamped, AfterRulesPCs, Goto, Forget, runs, quotas
<1>1. ASSUME NEW p \in Workers, NEW w \in Workflows, NEW t \in RunStatus,
             Load(p, w, t)
       PROVE ListenerOK' /\ RulesActive' /\ Timestamped'
  BY <1>1 DEF Load
<1>2. ASSUME NEW p \in Workers, UpdateTimestamp(p) PROVE ListenerOK' /\ RulesActive' /\ Timestamped'
  <2>. DEFINE w == wf[p]
  <2>1. w \in Workflows /\ new[p] \in RunStatus
    BY <1>2 DEF UpdateTimestamp
  <2>2. new[p] \in Stamped => now' = now + 1 /\ now' # 0
    BY <1>2 DEF UpdateTimestamp
  <2>3. /\ \A v \in Workflows : /\ started[v] # 0 => started'[v] # 0
                                /\ finished[v] # 0 => finished'[v] # 0
                                /\ stopped[v] # 0 => stopped'[v] # 0
        /\ new[p] = "running" => started'[w] # 0
        /\ new[p] \in {"finished", "failed"} => finished'[w] # 0
        /\ new[p] = "stopped" => stopped'[w] # 0
    BY <1>2, <2>1, <2>2 DEF UpdateTimestamp, Stamped, Terminated
  <2>4. /\ UNCHANGED <<status, rule, wf, new>>
        /\ pc' = [pc EXCEPT ![p] = AfterTimestamp(new[p], plan[p])]
    BY <1>2 DEF UpdateTimestamp
  <2>5. AfterTimestamp(new[p], plan[p]) \in {"rules", "workflow", "commit"}
        /\ (new[p] \in {"finished", "failed"} => AfterTimestamp(new[p], plan[p]) = "rules")
    BY DEF AfterTimestamp, AfterRules
  <2>6. ListenerOK'
    <3>. SUFFICES ASSUME NEW q \in Workers
                  PROVE  /\ pc'[q] \in AfterRulesPCs \cup {"rules"} =>
                              /\ new'[q] = "running" => started'[wf'[q]] # 0
                              /\ new'[q] \in {"finished", "failed"} => finished'[wf'[q]] # 0
                              /\ new'[q] = "stopped" => stopped'[wf'[q]] # 0
                         /\ pc'[q] \in AfterRulesPCs /\ new'[q] \in {"finished", "failed"} =>
                              rule'[wf'[q]] = "active"
      OBVIOUS
    <3>1. CASE q = p
      BY <3>1, <2>3, <2>4, <2>5
    <3>2. CASE q # p
      <4>1. pc'[q] = pc[q]
        BY <3>2, <2>4
      <4>2. pc[q] # "idle" => wf[q] \in Workflows
        OBVIOUS
      <4>3. new'[q] = new[q] /\ wf'[q] = wf[q] /\ rule' = rule
        BY <2>4
      <4>4. CASE pc[q] \in AfterRulesPCs \cup {"rules"}
        <5>1. wf[q] \in Workflows
          BY <4>2, <4>4
        <5>2. /\ new[q] = "running" => started[wf[q]] # 0
              /\ new[q] \in {"finished", "failed"} => finished[wf[q]] # 0
              /\ new[q] = "stopped" => stopped[wf[q]] # 0
          BY <4>4
        <5>3. /\ new[q] = "running" => started'[wf[q]] # 0
              /\ new[q] \in {"finished", "failed"} => finished'[wf[q]] # 0
              /\ new[q] = "stopped" => stopped'[wf[q]] # 0
          BY <5>1, <5>2, <2>3
        <5>4. pc[q] \in AfterRulesPCs /\ new[q] \in {"finished", "failed"} =>
                rule[wf[q]] = "active"
          OBVIOUS
        <5>. QED
          BY <4>1, <4>3, <5>3, <5>4
      <4>. QED
        BY <4>1, <4>4
    <3>. QED
      BY <3>1, <3>2
  <2>7. RulesActive' /\ Timestamped'
    BY <2>3, <2>4
  <2>. QED
    BY <2>6, <2>7
<1>3. ASSUME NEW p \in Workers, ActivateRules(p) PROVE ListenerOK' /\ RulesActive' /\ Timestamped'
  BY <1>3 DEF ActivateRules, AfterRules
<1>4. ASSUME NEW p \in Workers, ReadWorkflow(p) PROVE ListenerOK' /\ RulesActive' /\ Timestamped'
  BY <1>4 DEF ReadWorkflow
<1>5. ASSUME NEW p \in Workers, WriteWorkflow(p) PROVE ListenerOK' /\ RulesActive' /\ Timestamped'
  BY <1>5 DEF WriteWorkflow, WriteWorkflowRow
<1>6. ASSUME NEW p \in Workers, ReadUser(p) PROVE ListenerOK' /\ RulesActive' /\ Timestamped'
  BY <1>6 DEF ReadUser
<1>7. ASSUME NEW p \in Workers, WriteUser(p) PROVE ListenerOK' /\ RulesActive' /\ Timestamped'
  BY <1>7 DEF WriteUser, NextKind, AfterRules
<1>8. ASSUME NEW p \in Workers, QuotaError(p) PROVE ListenerOK' /\ RulesActive' /\ Timestamped'
  BY <1>8 DEF QuotaError, NextKind, AfterRules
<1>9. ASSUME NEW p \in Workers, InsertFails(p) PROVE ListenerOK' /\ RulesActive' /\ Timestamped'
  BY <1>9 DEF InsertFails, NextKind, AfterRules
<1>10. ASSUME NEW p \in Workers, CommitStatus(p) PROVE ListenerOK' /\ RulesActive' /\ Timestamped'
  BY <1>10 DEF CommitStatus, Released
<1>11. ASSUME NEW p \in Workers, CommitRaises(p) PROVE ListenerOK' /\ RulesActive' /\ Timestamped'
  BY <1>11 DEF CommitRaises
<1>12. ASSUME NEW p \in Workers, GiveUp(p) PROVE ListenerOK' /\ RulesActive' /\ Timestamped'
  BY <1>12 DEF GiveUp, Released
<1>13. ASSUME NEW p \in Workers, Crash(p) PROVE ListenerOK' /\ RulesActive' /\ Timestamped'
  BY <1>13 DEF Crash, Released
<1>14. ASSUME CronStart PROVE ListenerOK' /\ RulesActive' /\ Timestamped'
  BY <1>14 DEF CronStart
<1>15. ASSUME CronLoad PROVE ListenerOK' /\ RulesActive' /\ Timestamped'
  BY <1>15 DEF CronLoad
<1>16. ASSUME CronUsers PROVE ListenerOK' /\ RulesActive' /\ Timestamped'
  BY <1>16 DEF CronUsers
<1>17. ASSUME CronNextKind PROVE ListenerOK' /\ RulesActive' /\ Timestamped'
  BY <1>17 DEF CronNextKind
<1>18. ASSUME CronWriteWorkflow PROVE ListenerOK' /\ RulesActive' /\ Timestamped'
  BY <1>18 DEF CronWriteWorkflow
<1>19. ASSUME CronFails PROVE ListenerOK' /\ RulesActive' /\ Timestamped'
  BY <1>19 DEF CronFails
<1>20. ASSUME CronWriteUser PROVE ListenerOK' /\ RulesActive' /\ Timestamped'
  BY <1>20 DEF CronWriteUser
<1>21. ASSUME NEW w \in Workflows, CronReadWorkflow(w) PROVE ListenerOK' /\ RulesActive' /\ Timestamped'
  BY <1>21 DEF CronReadWorkflow
<1>22. ASSUME NEW u \in Users, CronReadUser(u) PROVE ListenerOK' /\ RulesActive' /\ Timestamped'
  BY <1>22 DEF CronReadUser
<1>23. CASE UNCHANGED vars
  BY <1>23 DEF vars, procs
<1>. QED
  BY <1>1, <1>2, <1>3, <1>4, <1>5, <1>6, <1>7, <1>8, <1>9, <1>10, <1>11,
    <1>12, <1>13, <1>14, <1>15, <1>16, <1>17, <1>18, <1>19, <1>20, <1>21,
    <1>22, <1>23 DEF Next, WorkerStep, CronStep

LEMMA StatusInvariance == Spec => []StatusInv
<1>1. Init => StatusInv
  <2>. HAVE Init
  <2>1. \A w \in Workflows : status[w] \in {"created", "queued", "pending"}
    BY InitialAssumption DEF Init
  <2>2. StatusTypeOK
    <3>1. status \in [Workflows -> RunStatus]
      BY <2>1 DEF Init, RunStatus
    <3>. QED
      BY <3>1, NullAssumption DEF Init, StatusTypeOK, Procs, PCs, RunStatus
  <2>3. ListenerOK
    BY DEF Init, ListenerOK, AfterRulesPCs, Procs
  <2>4. RulesActive /\ Timestamped
    BY <2>1 DEF RulesActive, Timestamped
  <2>. QED
    BY <2>2, <2>3, <2>4 DEF StatusInv
<1>2. StatusInv /\ [Next]_vars => StatusInv'
  BY StatusTypeInductive, ListenerInductive DEF StatusInv
<1>. QED
  BY <1>1, <1>2, PTL DEF Spec

\* Statuses, times, rules and the workers' positions keep their types.
THEOREM StatusTypeCorrect == Spec => []StatusTypeOK
<1>1. StatusInv => StatusTypeOK
  BY DEF StatusInv
<1>. QED
  BY <1>1, StatusInvariance, PTL

\* No workflow is seen as finished or failed before its retention rules are
\* active, although the two are committed separately and workers may die between.
THEOREM RulesBeforeStatus == Spec => []RulesActive
<1>1. StatusInv => RulesActive
  BY DEF StatusInv
<1>. QED
  BY <1>1, StatusInvariance, PTL

\* No status is seen before the time of its event.
THEOREM TimeBeforeStatus == Spec => []Timestamped
<1>1. StatusInv => Timestamped
  BY DEF StatusInv
<1>. QED
  BY <1>1, StatusInvariance, PTL

(***************************************************************************)
(* The sums of the periodic update and of the listener                     *)
(***************************************************************************)
\* A set of numbers has a least element.
LEMMA LeastNumber ==
  ASSUME NEW T \in SUBSET Nat, T # {}
  PROVE  \E x \in T : \A y \in T : x <= y
<1>. DEFINE R == {ss \in Nat \X Nat : ss[1] < ss[2]}
<1>1. IsWellFoundedOn(R, Nat)
  <2>1. OpToRel(<, Nat) = R
    BY Zenon DEF OpToRel
  <2>. QED BY <2>1, NatLessThanWellFounded, Zenon
<1>. HIDE DEF R
<1>2. PICK x \in T : \A y \in T : ~(<<y, x>> \in R)
  BY <1>1, WFMin
<1>3. ASSUME NEW y \in T PROVE x <= y
  <2>1. x \in Nat /\ y \in Nat
    OBVIOUS
  <2>2. y < x => <<y, x>> \in R
    BY <2>1 DEF R
  <2>. QED BY <1>2, <2>1, <2>2
<1>. QED BY <1>3

\* The element of a set that a fold takes first, and the rest.
First(s) == CHOOSE x \in s : TRUE
Rest(s) == s \ {First(s)}

\* g[s] is the sum of f over s, for the subsets s of S that have at most n
\* elements.
Sums(g, f, S, n) ==
  \A s \in SUBSET S :
    Cardinality(s) <= n => g[s] = IF s = {} THEN 0 ELSE g[Rest(s)] + f[First(s)]

LEMMA RestIsSmaller ==
  ASSUME NEW S, IsFiniteSet(S), NEW s \in SUBSET S, s # {}
  PROVE  /\ First(s) \in S /\ Rest(s) \in SUBSET S
         /\ Cardinality(s) \in Nat \ {0} /\ Cardinality(Rest(s)) = Cardinality(s) - 1
<1>1. First(s) \in s
  BY DEF First
<1>2. IsFiniteSet(s)
  BY FS_Subset
<1>3. Cardinality(s) \in Nat /\ Cardinality(s) # 0
  BY <1>2, FS_CardinalityType, FS_EmptySet
<1>4. Cardinality(s \ {First(s)}) = Cardinality(s) - 1
  BY <1>1, <1>2, FS_RemoveElement
<1>. QED BY <1>1, <1>3, <1>4 DEF Rest

\* Sums of natural numbers over the subsets of a finite set exist: they can be
\* extended from those of n elements to those of n + 1.
LEMMA SumsExist ==
  ASSUME NEW S, IsFiniteSet(S), NEW f \in [S -> Nat], NEW n \in Nat
  PROVE  \E g \in [SUBSET S -> Nat] : Sums(g, f, S, n)
<1>. DEFINE Without == {m \in Nat : ~ \E g \in [SUBSET S -> Nat] : Sums(g, f, S, m)}
<1>1. SUFFICES ASSUME Without # {} PROVE FALSE
  OBVIOUS
<1>2. PICK m \in Without : \A k \in Without : m <= k
  BY <1>1, LeastNumber
<1>3. CASE m = 0
  <2>. DEFINE g == [s \in SUBSET S |-> 0]
  <2>1. \A s \in SUBSET S : Cardinality(s) <= 0 => s = {}
    BY FS_Subset, FS_CardinalityType, FS_EmptySet
  <2>2. g \in [SUBSET S -> Nat] /\ Sums(g, f, S, 0)
    BY <2>1 DEF Sums
  <2>. QED BY <1>3, <2>2
<1>4. CASE m # 0
  <2>0. m \in Nat /\ m - 1 \in Nat /\ ~ (m <= m - 1)
    BY <1>4
  <2>1. m \in Nat /\ m - 1 \in Nat /\ m - 1 \notin Without
    BY ONLY <1>2, <2>0
  <2>2. PICK g \in [SUBSET S -> Nat] : Sums(g, f, S, m - 1)
    BY <2>1
  <2>. DEFINE h == [s \in SUBSET S |->
                      IF s = {} THEN 0 ELSE IF Cardinality(s) <= m - 1 THEN g[s]
                      ELSE IF Cardinality(s) = m THEN g[Rest(s)] + f[First(s)] ELSE 0]
  <2>3. h \in [SUBSET S -> Nat]
    BY RestIsSmaller
  <2>4. ASSUME NEW s \in SUBSET S, Cardinality(s) <= m, s # {}
        PROVE  h[s] = h[Rest(s)] + f[First(s)]
    <3>1. /\ First(s) \in S /\ Rest(s) \in SUBSET S
          /\ Cardinality(s) \in Nat /\ Cardinality(Rest(s)) <= m - 1
      BY <2>1, <2>4, RestIsSmaller
    <3>2. h[Rest(s)] = g[Rest(s)]
      <4>1. CASE Rest(s) = {}
        BY <2>2, <3>1, <4>1 DEF Sums
      <4>2. CASE Rest(s) # {}
        BY <3>1, <4>2
      <4>. QED BY <4>1, <4>2
    <3>3. CASE Cardinality(s) <= m - 1
      <4>1. g[s] = g[Rest(s)] + f[First(s)]
        BY <2>2, <2>4, <3>3 DEF Sums
      <4>. QED BY <2>4, <3>2, <3>3, <4>1
    <3>4. CASE ~ (Cardinality(s) <= m - 1)
      <4>1. Cardinality(s) = m
        BY <2>1, <2>4, <3>1, <3>4
      <4>. QED BY <2>4, <3>2, <3>4, <4>1
    <3>. QED BY <3>3, <3>4
  <2>5. h[{}] = 0
    OBVIOUS
  <2>. HIDE DEF h
  <2>6. Sums(h, f, S, m)
    BY <2>4, <2>5 DEF Sums
  <2>. QED BY <2>3, <2>6
<1>. QED BY <1>3, <1>4

\* The same for all subsets of S.
AllSums(g, f, S) ==
  \A s \in SUBSET S : g[s] = IF s = {} THEN 0 ELSE g[Rest(s)] + f[First(s)]

\* Two functions that sum up the same are the same.
LEMMA SumsUnique ==
  ASSUME NEW S, IsFiniteSet(S), NEW f \in [S -> Nat], NEW g, NEW h,
         AllSums(g, f, S), AllSums(h, f, S)
  PROVE  \A s \in SUBSET S : g[s] = h[s]
<1>. DEFINE Other == {Cardinality(s) : s \in {r \in SUBSET S : g[r] # h[r]}}
<1>1. SUFFICES ASSUME NEW r \in SUBSET S, g[r] # h[r] PROVE FALSE
  OBVIOUS
<1>2. Other \in SUBSET Nat /\ Other # {}
  BY <1>1, FS_Subset, FS_CardinalityType
<1>3. PICK m \in Other : \A k \in Other : m <= k
  BY <1>2, LeastNumber
<1>4. PICK s \in SUBSET S : g[s] # h[s] /\ m = Cardinality(s)
  BY <1>3
<1>5. CASE s = {}
  BY <1>4, <1>5 DEF AllSums
<1>6. CASE s # {}
  <2>1. /\ Rest(s) \in SUBSET S /\ m \in Nat /\ Cardinality(Rest(s)) = m - 1
    BY <1>4, <1>6, RestIsSmaller
  <2>2. Cardinality(Rest(s)) \notin Other
    BY <1>3, <2>1
  <2>3. g[Rest(s)] = h[Rest(s)]
    BY <2>1, <2>2
  <2>4. /\ g[s] = g[Rest(s)] + f[First(s)]
        /\ h[s] = h[Rest(s)] + f[First(s)]
    BY <1>6 DEF AllSums
  <2>. QED BY <1>4, <2>3, <2>4
<1>. QED BY <1>5, <1>6

\* There is a function that sums up f, and each has numbers for values.
LEMMA SumsAreNat ==
  ASSUME NEW S, IsFiniteSet(S), NEW f \in [S -> Nat]
  PROVE  /\ \E g \in [SUBSET S -> Nat] : AllSums(g, f, S)
         /\ \A h : AllSums(h, f, S) => h[S] \in Nat
<1>1. PICK g \in [SUBSET S -> Nat] : Sums(g, f, S, Cardinality(S))
  BY SumsExist, FS_CardinalityType
<1>2. AllSums(g, f, S)
  BY <1>1, FS_Subset DEF Sums, AllSums
<1>3. ASSUME NEW h, AllSums(h, f, S) PROVE h[S] \in Nat
  <2>1. \A s \in SUBSET S : g[s] = h[s]
    BY <1>2, <1>3, SumsUnique
  <2>. QED BY <2>1
<1>. QED BY <1>2, <1>3

\* What the workflows of a user sum up to is a number.
LEMMA TotalIsNat ==
  ASSUME NEW k, NEW u, \A w \in Workflows : Used(k, w) \in Nat
  PROVE  Total(k, u) \in Nat
<1>. DEFINE S == {w \in Workflows : Owner[w] = u}
            f == [w \in S |-> Used(k, w)]
            Fold(g) == [s \in SUBSET S |-> IF s = {} THEN 0 ELSE g[Rest(s)] + f[First(s)]]
            Step(g) == [s \in SUBSET S |->
                  IF s = {} THEN 0
                  ELSE g[s \ {CHOOSE x \in s : TRUE}] + Used(k, CHOOSE x \in s : TRUE)]
            h == CHOOSE g : g = Step(g)
<1>1. IsFiniteSet(S) /\ f \in [S -> Nat]
  BY WorkflowsAssumption, FS_Subset
<1>2. Total(k, u) = h[S]
  BY DEF Total, FoldSet, MapThenFoldSet
<1>3. \A g : Step(g) = Fold(g)
  <2>1. \A s \in SUBSET S : s # {} => First(s) \in S
    BY <1>1, RestIsSmaller
  <2>. QED BY <2>1 DEF First, Rest
<1>4. \A g : g = Fold(g) => AllSums(g, f, S)
  BY DEF AllSums
<1>5. \A g \in [SUBSET S -> Nat] : AllSums(g, f, S) => g = Fold(g)
  BY DEF AllSums
<1>. HIDE DEF S, f, Fold, Step
<1>6. \E g : g = Step(g)
  BY <1>1, <1>3, <1>5, SumsAreNat
<1>7. h = Step(h)
  BY <1>6
<1>. HIDE DEF h
<1>8. AllSums(h, f, S)
  BY <1>3, <1>4, <1>7
<1>9. \A x : AllSums(x, f, S) => x[S] \in Nat
  BY <1>1, SumsAreNat
<1>10. h[S] \in Nat
  BY ONLY <1>8, <1>9
<1>. QED BY <1>2, <1>10

(***************************************************************************)
(* The quotas                                                              *)
(***************************************************************************)
\* A process that updates quotas has a kind of quota left to update.
PlanOK ==
  \A p \in Procs :
    pc[p] \in {"workflow", "writeworkflow", "user", "writeuser", "load"} =>
      plan[p] # << >>

QuotaInv == TypeOK /\ PlanOK

LEMMA UsageIsNat ==
  ASSUME TypeOK, NEW k, NEW w \in Workflows, NEW t \in [s : Nat, f : Nat, x : Nat]
  PROVE  Usage(k, w, t) \in Nat
<1>1. size[w] \in Nat
  BY DEF TypeOK
<1>2. Accounted(t.s, t.f, t.x) \in Nat
  <2>1. t.s \in Nat /\ t.f \in Nat /\ t.x \in Nat
    OBVIOUS
  <2>. QED BY <2>1 DEF Accounted
<1>. QED BY <1>1, <1>2 DEF Usage

LEMMA TimesTypes ==
  ASSUME TypeOK, NEW w \in Workflows
  PROVE  Times(w) \in [s : Nat, f : Nat, x : Nat]
BY DEF TypeOK, StatusTypeOK, Times

LEMMA TotalTypes ==
  ASSUME TypeOK, NEW k \in Kinds, NEW u
  PROVE  Total(k, u) \in Nat
<1>1. \A w \in Workflows : Used(k, w) \in Nat
  BY DEF TypeOK, Used
<1>. QED BY <1>1, TotalIsNat

LEMMA DueTypes ==
  ASSUME NEW t
  PROVE  Due(t) \in Seq(Kinds)
<1>1. "cpu" \in Kinds /\ "disk" \in Kinds
  BY DEF Kinds
<1>. HIDE DEF Kinds
<1>2. \A k \in Kinds : IfDue(k) \in Seq(Kinds)
  BY DEF IfDue
<1>3. IfDue("cpu") \o IfDue("disk") \in Seq(Kinds)
  BY <1>1, <1>2
<1>4. << >> \in Seq(Kinds)
  OBVIOUS
<1>. QED BY <1>1, <1>2, <1>3, <1>4 DEF Due

LEMMA PlanTypes ==
  ASSUME QuotaInv, NEW p \in Procs,
         pc[p] \in {"workflow", "writeworkflow", "user", "writeuser", "load"}
  PROVE  Head(plan[p]) \in Kinds /\ Tail(plan[p]) \in Seq(Kinds)
<1>1. plan[p] \in Seq(Kinds) /\ plan[p] # << >>
  BY DEF QuotaInv, PlanOK, TypeOK
<1>. QED BY <1>1

\* The variables that StatusTypeOK leaves out.
QuotaTypes ==
  /\ size \in [Workflows -> Nat]
  /\ wres \in [Kinds -> [Workflows -> Nat \cup {NoRow}]]
  /\ ures \in [Kinds -> [Users -> Nat]]
  /\ plan \in [Procs -> Seq(Kinds)]
  /\ todo \in [Procs -> SUBSET (Workflows \cup Users)]
  /\ seen \in [Procs -> Nat \cup {NoRow}]
  /\ amount \in [Procs -> Nat]
  /\ snap \in [Workflows -> [s : Nat, f : Nat, x : Nat]]

LEMMA WorkerKeepsQuotas ==
  ASSUME QuotaInv, NEW p \in Workers,
         WorkerStep(p) \/ (\E w \in Workflows, t \in RunStatus : Load(p, w, t))
  PROVE  QuotaTypes' /\ PlanOK'
<1>0. QuotaTypes /\ PlanOK /\ p \in Procs /\ StatusTypeOK
  BY DEF QuotaInv, TypeOK, QuotaTypes, Procs
<1>. USE DEF Goto, runs, quotas, Forget
<1>1. ASSUME NEW w \in Workflows, NEW t \in RunStatus, Load(p, w, t)
      PROVE  QuotaTypes' /\ PlanOK'
  <2>1. Due(t) \in Seq(Kinds)
    BY DueTypes
  <2>2. QuotaTypes'
    BY <1>0, <1>1, <2>1 DEF Load, QuotaTypes
  <2>3. PlanOK'
    BY <1>0, <1>1 DEF Load, PlanOK, QuotaTypes, StatusTypeOK
  <2>. QED BY <2>2, <2>3
<1>2. CASE UpdateTimestamp(p)
  <2>1. QuotaTypes'
    BY <1>0, <1>2 DEF UpdateTimestamp, QuotaTypes
  <2>2. PlanOK'
    BY <1>0, <1>2 DEF UpdateTimestamp, AfterTimestamp, AfterRules, PlanOK, QuotaTypes, StatusTypeOK
  <2>. QED BY <2>1, <2>2
<1>3. CASE ActivateRules(p)
  <2>1. QuotaTypes'
    BY <1>0, <1>3 DEF ActivateRules, QuotaTypes
  <2>2. PlanOK'
    BY <1>0, <1>3 DEF ActivateRules, AfterRules, PlanOK, QuotaTypes, StatusTypeOK
  <2>. QED BY <2>1, <2>2
<1>4. CASE ReadWorkflow(p)
  <2>. DEFINE k == Head(plan[p])
              n == Usage(k, wf[p], Times(wf[p]))
  <2>1. pc[p] = "workflow" /\ wf[p] \in Workflows /\ k \in Kinds
    BY <1>0, <1>4, PlanTypes DEF ReadWorkflow, StatusTypeOK
  <2>2. n \in Nat /\ wres[k][wf[p]] \in Nat \cup {NoRow}
    BY <1>0, <2>1, TimesTypes, UsageIsNat DEF QuotaInv, QuotaTypes
  <2>. HIDE DEF n, k
  <2>3. /\ seen' = seen \/ seen' = [seen EXCEPT ![p] = wres[k][wf[p]]]
        /\ amount' = amount \/ amount' = [amount EXCEPT ![p] = n]
        /\ UNCHANGED <<size, wres, ures, plan, todo, snap>>
    BY <1>4 DEF ReadWorkflow, ReadWorkflowRow, k, n
  <2>4. QuotaTypes'
    BY <1>0, <2>2, <2>3 DEF QuotaTypes
  <2>5. PlanOK'
    BY <1>0, <1>4 DEF ReadWorkflow, PlanOK, QuotaTypes, StatusTypeOK
  <2>. QED BY <2>4, <2>5
<1>5. CASE WriteWorkflow(p)
  <2>1. PlanOK'
    BY <1>0, <1>5 DEF WriteWorkflow, PlanOK, QuotaTypes, StatusTypeOK
  <2>2. amount[p] \in Nat
    BY <1>0 DEF QuotaTypes
  <2>3. QuotaTypes'
    BY <1>0, <1>5, <2>2 DEF WriteWorkflow, WriteWorkflowRow, QuotaTypes
  <2>. QED BY <2>1, <2>3
<1>6. CASE ReadUser(p)
  <2>. DEFINE k == Head(plan[p])
              u == Owner[wf[p]]
              n == Total(k, u)
  <2>1. pc[p] = "user" /\ wf[p] \in Workflows /\ k \in Kinds
    BY <1>0, <1>6, PlanTypes DEF ReadUser, StatusTypeOK
  <2>2. n \in Nat /\ u \in Users
    BY <2>1, TotalTypes, OwnerAssumption DEF QuotaInv
  <2>3. ures[k][u] \in Nat
    BY <1>0, <2>1, <2>2 DEF QuotaTypes
  <2>. HIDE DEF n, k, u
  <2>4. /\ seen' = [seen EXCEPT ![p] = ures[k][u]]
        /\ amount' = [amount EXCEPT ![p] = n]
        /\ UNCHANGED <<size, wres, ures, plan, todo, snap>>
    BY <1>6 DEF ReadUser, ReadUserRow, k, n, u
  <2>5. QuotaTypes'
    BY <1>0, <2>2, <2>3, <2>4 DEF QuotaTypes
  <2>6. PlanOK'
    BY <1>0, <1>6 DEF ReadUser, PlanOK, QuotaTypes, StatusTypeOK
  <2>. QED BY <2>5, <2>6
<1>7. ASSUME NextKind(p), pc[p] \in {"writeuser", "workflow", "user", "writeworkflow"},
             UNCHANGED <<size, wres, todo, snap>>, ures' \in [Kinds -> [Users -> Nat]]
      PROVE  QuotaTypes' /\ PlanOK'
  <2>1. Tail(plan[p]) \in Seq(Kinds)
    BY <1>0, <1>7, PlanTypes
  <2>2. QuotaTypes'
    BY <1>0, <1>7, <2>1 DEF NextKind, QuotaTypes
  <2>3. PlanOK'
    BY <1>0, <1>7 DEF NextKind, AfterRules, PlanOK, QuotaTypes, StatusTypeOK
  <2>. QED BY <2>2, <2>3
<1>8. CASE WriteUser(p)
  <2>1. amount[p] \in Nat
    BY <1>0 DEF QuotaTypes
  <2>2. ures' \in [Kinds -> [Users -> Nat]]
    BY <1>0, <1>8, <2>1 DEF WriteUser, WriteUserRow, QuotaTypes
  <2>. QED BY <1>7, <1>8, <2>2 DEF WriteUser, WriteUserRow
<1>9. CASE QuotaError(p) \/ InsertFails(p)
  <2>1. ures' \in [Kinds -> [Users -> Nat]]
    BY <1>0, <1>9 DEF QuotaError, InsertFails, QuotaTypes
  <2>. QED BY <1>7, <1>9, <2>1 DEF QuotaError, InsertFails
<1>10. ASSUME Released(p), UNCHANGED <<size, quotas>> PROVE QuotaTypes' /\ PlanOK'
  <2>1. QuotaTypes'
    BY <1>0, <1>10 DEF Released, QuotaTypes
  <2>2. PlanOK'
    BY <1>0, <1>10 DEF Released, PlanOK, QuotaTypes, StatusTypeOK
  <2>. QED BY <2>1, <2>2
<1>11. CASE CommitStatus(p) \/ GiveUp(p) \/ Crash(p)
  BY <1>10, <1>11 DEF CommitStatus, GiveUp, Crash
<1>12. CASE CommitRaises(p)
  <2>1. QuotaTypes'
    BY <1>0, <1>12 DEF CommitRaises, QuotaTypes
  <2>2. PlanOK'
    BY <1>0, <1>12 DEF CommitRaises, PlanOK, QuotaTypes, StatusTypeOK
  <2>. QED BY <2>1, <2>2
<1>. QED BY <1>1, <1>2, <1>3, <1>4, <1>5, <1>6, <1>8, <1>9, <1>11, <1>12 DEF WorkerStep

LEMMA CronKeepsQuotas ==
  ASSUME QuotaInv, CronStep
  PROVE  QuotaTypes' /\ PlanOK'
<1>0. QuotaTypes /\ PlanOK /\ Cron \in Procs /\ StatusTypeOK
  BY DEF QuotaInv, TypeOK, QuotaTypes, Procs
<1>1. Workflows \subseteq Workflows \cup Users /\ Users \subseteq Workflows \cup Users
  OBVIOUS
<1>2. NoTimes \in [Workflows -> [s : Nat, f : Nat, x : Nat]]
  BY DEF NoTimes
<1>. USE DEF Goto, runs, quotas, Forget
<1>3. CASE CronStart
  <2>1. <<"disk", "cpu">> \in Seq(Kinds) /\ <<"disk", "cpu">> # << >>
    BY DEF Kinds
  <2>2. QuotaTypes'
    BY <1>0, <1>3, <2>1 DEF CronStart, QuotaTypes
  <2>3. PlanOK'
    BY <1>0, <1>3, <2>1 DEF CronStart, PlanOK, QuotaTypes, StatusTypeOK
  <2>. QED BY <2>2, <2>3
<1>4. CASE CronLoad
  <2>1. snap' \in [Workflows -> [s : Nat, f : Nat, x : Nat]]
    BY <1>4, TimesTypes DEF CronLoad, QuotaInv
  <2>2. QuotaTypes'
    BY <1>0, <1>4, <2>1 DEF CronLoad, QuotaTypes
  <2>3. PlanOK'
    BY <1>0, <1>4 DEF CronLoad, PlanOK, QuotaTypes, StatusTypeOK
  <2>. QED BY <2>2, <2>3
<1>5. CASE CronUsers
  <2>1. QuotaTypes'
    BY <1>0, <1>2, <1>5 DEF CronUsers, QuotaTypes
  <2>2. PlanOK'
    BY <1>0, <1>5 DEF CronUsers, PlanOK, QuotaTypes, StatusTypeOK
  <2>. QED BY <2>1, <2>2
<1>6. CASE CronNextKind
  <2>1. Tail(plan[Cron]) \in Seq(Kinds)
    BY <1>0, <1>6, PlanTypes DEF CronNextKind
  <2>2. QuotaTypes'
    BY <1>0, <1>6, <2>1 DEF CronNextKind, QuotaTypes
  <2>3. PlanOK'
    BY <1>0, <1>6 DEF CronNextKind, PlanOK, QuotaTypes, StatusTypeOK
  <2>. QED BY <2>2, <2>3
<1>7. ASSUME NEW w \in Workflows, CronReadWorkflow(w) PROVE QuotaTypes' /\ PlanOK'
  <2>. DEFINE k == Head(plan[Cron])
              n == Usage(k, w, snap[w])
  <2>1. k \in Kinds
    BY <1>0, <1>7, PlanTypes DEF CronReadWorkflow
  <2>2. n \in Nat /\ wres[k][w] \in Nat \cup {NoRow}
    BY <1>0, <2>1, UsageIsNat DEF QuotaInv, QuotaTypes
  <2>. HIDE DEF n, k
  <2>3. /\ seen' = seen \/ seen' = [seen EXCEPT ![Cron] = wres[k][w]]
        /\ amount' = amount \/ amount' = [amount EXCEPT ![Cron] = n]
        /\ todo' = todo \/ todo' = [todo EXCEPT ![Cron] = @ \ {w}]
        /\ UNCHANGED <<size, wres, ures, plan, snap>>
    BY <1>7 DEF CronReadWorkflow, ReadWorkflowRow, k, n
  <2>4. QuotaTypes'
    BY <1>0, <2>2, <2>3 DEF QuotaTypes
  <2>5. PlanOK'
    BY <1>0, <1>7 DEF CronReadWorkflow, PlanOK, QuotaTypes, StatusTypeOK
  <2>. QED BY <2>4, <2>5
<1>8. CASE CronWriteWorkflow
  <2>1. PlanOK'
    BY <1>0, <1>8 DEF CronWriteWorkflow, PlanOK, QuotaTypes, StatusTypeOK
  <2>2. amount[Cron] \in Nat
    BY <1>0 DEF QuotaTypes
  <2>3. QuotaTypes'
    BY <1>0, <1>8, <2>2 DEF CronWriteWorkflow, WriteWorkflowRow, QuotaTypes
  <2>. QED BY <2>1, <2>3
<1>9. CASE CronFails
  <2>1. QuotaTypes'
    BY <1>0, <1>2, <1>9 DEF CronFails, QuotaTypes
  <2>2. PlanOK'
    BY <1>0, <1>9 DEF CronFails, PlanOK, QuotaTypes, StatusTypeOK
  <2>. QED BY <2>1, <2>2
<1>10. ASSUME NEW u \in Users, CronReadUser(u) PROVE QuotaTypes' /\ PlanOK'
  <2>. DEFINE k == Head(plan[Cron])
              n == Total(k, u)
  <2>1. k \in Kinds
    BY <1>0, <1>10, PlanTypes DEF CronReadUser
  <2>2. n \in Nat /\ ures[k][u] \in Nat
    BY <1>0, <2>1, TotalTypes DEF QuotaInv, QuotaTypes
  <2>. HIDE DEF n, k
  <2>3. /\ seen' = [seen EXCEPT ![Cron] = ures[k][u]]
        /\ amount' = [amount EXCEPT ![Cron] = n]
        /\ UNCHANGED <<size, wres, ures, plan, todo, snap>>
    BY <1>10 DEF CronReadUser, ReadUserRow, k, n
  <2>4. QuotaTypes'
    BY <1>0, <2>2, <2>3 DEF QuotaTypes
  <2>5. PlanOK'
    BY <1>0, <1>10 DEF CronReadUser, PlanOK, QuotaTypes, StatusTypeOK
  <2>. QED BY <2>4, <2>5
<1>11. CASE CronWriteUser
  <2>1. PlanOK'
    BY <1>0, <1>11 DEF CronWriteUser, PlanOK, QuotaTypes, StatusTypeOK
  <2>2. amount[Cron] \in Nat
    BY <1>0 DEF QuotaTypes
  <2>3. QuotaTypes'
    BY <1>0, <1>11, <2>2 DEF CronWriteUser, WriteUserRow, QuotaTypes
  <2>. QED BY <2>1, <2>3
<1>. QED BY <1>3, <1>4, <1>5, <1>6, <1>7, <1>8, <1>9, <1>10, <1>11 DEF CronStep

LEMMA QuotaInvariance == Spec => []QuotaInv
<1>1. Init => QuotaInv
  <2>. HAVE Init
  <2>1. StatusTypeOK
    <3>1. status \in [Workflows -> RunStatus]
      BY InitialAssumption DEF Init, RunStatus
    <3>. QED BY <3>1 DEF Init, StatusTypeOK, Procs, PCs, RunStatus
  <2>2. QuotaTypes
    BY DEF Init, QuotaTypes, NoTimes
  <2>3. PlanOK
    BY DEF Init, PlanOK
  <2>. QED BY <2>1, <2>2, <2>3 DEF QuotaInv, TypeOK, QuotaTypes
<1>2. QuotaInv /\ [Next]_vars => QuotaInv'
  <2>. SUFFICES ASSUME QuotaInv, [Next]_vars PROVE QuotaInv'
    OBVIOUS
  <2>1. StatusTypeOK'
    BY StatusTypeInductive DEF QuotaInv, TypeOK
  <2>2. CASE UNCHANGED vars
    BY <2>2, <2>1 DEF QuotaInv, TypeOK, PlanOK, vars, runs, quotas, procs
  <2>3. CASE Next
    <3>1. QuotaTypes' /\ PlanOK'
      BY <2>3, WorkerKeepsQuotas, CronKeepsQuotas DEF Next
    <3>. QED BY <2>1, <3>1 DEF QuotaInv, TypeOK, QuotaTypes
  <2>. QED BY <2>2, <2>3
<1>. QED BY <1>1, <1>2, PTL DEF Spec

\* Quotas stay numbers, whatever the listener and the periodic update overwrite
\* for each other: a row that is not there, or a sum of no rows, never becomes
\* what is charged to a workflow or a user.
THEOREM QuotasTypeCorrect == Spec => []TypeOK
<1>1. QuotaInv => TypeOK
  BY DEF QuotaInv
<1>. QED BY <1>1, QuotaInvariance, PTL
=============================================================================
