------------------------- MODULE AuditRuntimeProofs -------------------------
(***************************************************************************)
(* What TLAPS proves of AuditRuntime, for any files, claims, commits and   *)
(* budgets, any number of deaths and any movement of HEAD.                 *)
(***************************************************************************)
EXTENDS AuditRuntime, TLAPS

USE DEF store, root, repository, vars

LEMMA FreshRun == Fresh \in Run
  BY RuntimeAssumption DEF Fresh, Run

(***************************************************************************)
(* Whatever a command, a death or the audited repository does, the files   *)
(* and the variables of run-task keep their types; in particular the       *)
(* planner never plans more tasks at a time than its fan-out allows.       *)
(***************************************************************************)
THEOREM RuntimeTypeCorrect == Spec => []TypeOK
<1>1. Init => TypeOK
  <2> SUFFICES ASSUME Init PROVE TypeOK
    OBVIOUS
  <2>1. accepted \in CanonicalState /\ projection \in CanonicalState
    BY DEF Init, CanonicalState, Observations
  <2> QED
    BY <2>1, FreshRun, RuntimeAssumption DEF Init, TypeOK, AuditRoot
<1>2. TypeOK /\ [Next]_vars => TypeOK'
  <2> SUFFICES ASSUME TypeOK, [Next]_vars PROVE TypeOK'
    OBVIOUS
  <2> USE FreshRun
  <2>1. CASE UNCHANGED vars
    BY <2>1 DEF TypeOK
  <2>2. ASSUME NEW s \in Snapshots, MoveHead(s) PROVE TypeOK'
    BY <2>2, RuntimeAssumption DEF MoveHead, TypeOK
  <2>3. CASE RebuildState
    BY <2>3 DEF RebuildState, TypeOK
  <2>4. CASE SnapshotTarget
    BY <2>4 DEF SnapshotTarget, Announce, AuditRoot, TypeOK
  <2>5. CASE CompileReport
    BY <2>5 DEF CompileReport, Announce, AuditRoot, TypeOK
  <2>6. ASSUME NEW f \in Files, EnqueueScan(f) PROVE TypeOK'
    BY <2>6 DEF EnqueueScan, Enqueue, TypeOK
  <2>7. CASE Crash
    BY <2>7, RuntimeAssumption DEF Crash, TypeOK
  <2>8. CASE Begin
    BY <2>8 DEF Begin, TypeOK
  <2>9. ASSUME NEW t \in FollowUpTasks, Plan(t) PROVE TypeOK'
    <3>1. queue' \in [Tasks -> {"absent", "pending", "running", "failed", "done"}]
      BY <2>9 DEF Plan, Enqueue, TypeOK
    <3>2. t.type = "verify_claim" => run.planned + 1 \in 0..VerifyMaxFollowUp
      <4>1. t.type = "verify_claim" => run.planned < VerifyMaxFollowUp
        BY <2>9 DEF Plan, Plannable, WithinBudget
      <4>2. run.planned \in 0..VerifyMaxFollowUp /\ VerifyMaxFollowUp \in Nat
        BY RuntimeAssumption DEF TypeOK, Run
      <4> QED
        BY <4>1, <4>2
    <3>3. run' \in Run
      BY <2>9, <3>2 DEF Plan, Run, TypeOK
    <3> QED
      BY <2>9, <3>1, <3>3 DEF Plan, TypeOK
  <2>10. CASE EndPlanning
    BY <2>10 DEF EndPlanning, TypeOK
  <2>11. ASSUME NEW t \in Tasks, Resume(t) PROVE TypeOK'
    BY <2>11 DEF Resume, Select, Run, TypeOK
  <2>12. ASSUME NEW t \in Tasks, Claim(t) PROVE TypeOK'
    BY <2>12 DEF Claim, Select, Transition, Run, TypeOK
  <2>13. CASE NothingToRun
    BY <2>13 DEF NothingToRun, TypeOK
  <2>14. CASE Bind
    BY <2>14 DEF Bind, TypeOK
  <2>15. ASSUME NEW state \in CanonicalState, Accept(state) PROVE TypeOK'
    BY <2>15 DEF Accept, Run, TypeOK
  <2>16. ASSUME NEW o \in Observations, Propose(o) PROVE TypeOK'
    BY <2>15, <2>16 DEF Propose, CanonicalState, TypeOK
  <2>17. ASSUME NEW verdict \in {"verified", "rejected"}, NEW claim \in Claims,
                Decide(verdict, claim)
         PROVE  TypeOK'
    BY <2>15, <2>17 DEF Decide, CanonicalState, TypeOK
  <2>18. ASSUME NEW cited \in SUBSET Observations, ProposeIssue(cited) PROVE TypeOK'
    BY <2>15, <2>18 DEF ProposeIssue, CanonicalState, TypeOK
  <2>19. CASE AcceptOther
    BY <2>15, <2>19 DEF AcceptOther, TypeOK
  <2>20. CASE RefuseDuplicate
    BY <2>20 DEF RefuseDuplicate, Run, TypeOK
  <2>21. CASE RefuseOther
    BY <2>21 DEF RefuseOther, Run, TypeOK
  <2>22. CASE EndBatch
    BY <2>22 DEF EndBatch, TypeOK
  <2>23. CASE Project
    BY <2>23 DEF Project, TypeOK
  <2>24. CASE Succeed
    <3>1. queue' \in [Tasks -> {"absent", "pending", "running", "failed", "done"}]
      BY <2>24 DEF Succeed, Transition, TypeOK
    <3>2. 0 \in 0..VerifyMaxFollowUp
      BY RuntimeAssumption
    <3>3. run' \in Run
      BY <2>24, <3>2 DEF Succeed, Run, TypeOK
    <3> QED
      BY <2>24, <3>1, <3>3 DEF Succeed, TypeOK
  <2>25. CASE Fail
    BY <2>25 DEF Fail, Transition, TypeOK
  <2>26. ASSUME NEW fs \in SUBSET Files, Expand(fs) PROVE TypeOK'
    BY <2>26 DEF Expand, Enqueue, TypeOK
  <2> QED
    BY <2>1, <2>2, <2>3, <2>4, <2>5, <2>6, <2>7, <2>8, <2>9, <2>10, <2>11, <2>12, <2>13,
       <2>14, <2>16, <2>17, <2>18, <2>19, <2>20, <2>21, <2>22, <2>23, <2>24, <2>25, <2>26
       DEF Next, RunTask
<1> QED
  BY <1>1, <1>2, PTL DEF Spec

-----------------------------------------------------------------------------
(***************************************************************************)
(* The invariant of the loop.  What a run accepted is only missing from    *)
(* the projection while the run is still at its batch; and the task of a   *)
(* run is the one the queue shows as running.                              *)
(***************************************************************************)
FreshProjection ==
    /\ pc \notin {"idle", "project"}
    /\ pc = "process" => ~run.accepted
    => projection = accepted

RunHoldsTask ==
    pc \in {"bind", "process", "project", "settle"} => run.task \in Having("running")

RuntimeInv == TypeOK /\ OneRunning /\ FreshProjection /\ RunHoldsTask

(***************************************************************************)
(* Every change of the queue: a task enters it as pending, is claimed when *)
(* none is running, or is settled by the run that holds it.                *)
(***************************************************************************)
LEMMA QueueSteps ==
    ASSUME RuntimeInv, [Next]_vars, NEW t \in Tasks, queue'[t] # queue[t]
    PROVE  \/ queue[t] = "absent" /\ queue'[t] = "pending"
           \/ /\ queue[t] = "pending"
              /\ Having("running") = {}
              /\ queue' = [queue EXCEPT ![t] = "running"]
           \/ queue[t] = "running" /\ queue'[t] \in {"failed", "done"}
<1>0. queue \in [Tasks -> {"absent", "pending", "running", "failed", "done"}]
  BY DEF RuntimeInv, TypeOK
<1>1. ASSUME NEW ts, Enqueue(ts)
      PROVE  queue[t] = "absent" /\ queue'[t] = "pending"
  BY <1>1 DEF Enqueue
<1>2. ASSUME NEW u \in Tasks, Claim(u)
      PROVE  /\ queue[t] = "pending"
             /\ Having("running") = {}
             /\ queue' = [queue EXCEPT ![t] = "running"]
  BY <1>0, <1>2 DEF Claim, Transition, Having
<1>3. ASSUME Succeed \/ Fail
      PROVE  queue[t] = "running" /\ queue'[t] \in {"failed", "done"}
  BY <1>0, <1>3 DEF Succeed, Fail, Transition, RuntimeInv, RunHoldsTask, Having
<1>4. ASSUME UNCHANGED queue PROVE FALSE
  BY <1>4
<1> QED
  BY <1>1, <1>2, <1>3, <1>4
     DEF Next, RunTask, MoveHead, RebuildState, SnapshotTarget, CompileReport, EnqueueScan,
         Crash, Begin, Plan, EndPlanning, Resume, NothingToRun, Bind, Propose, Decide,
         ProposeIssue, AcceptOther, Accept, RefuseDuplicate, RefuseOther, EndBatch, Project,
         Expand

LEMMA OneRunningStep == RuntimeInv /\ [Next]_vars => OneRunning'
<1> SUFFICES ASSUME RuntimeInv, [Next]_vars, NEW t \in Having("running")',
                    NEW u \in Having("running")'
             PROVE  t = u
  BY DEF OneRunning
<1>1. t \in Tasks /\ u \in Tasks /\ queue'[t] = "running" /\ queue'[u] = "running"
  BY DEF Having
<1>2. queue \in [Tasks -> {"absent", "pending", "running", "failed", "done"}]
  BY DEF RuntimeInv, TypeOK
<1>3. CASE queue[t] = "running" /\ queue[u] = "running"
  BY <1>1, <1>3 DEF RuntimeInv, OneRunning, Having
<1>4. CASE queue[t] # "running"
  <2>1. Having("running") = {} /\ queue' = [queue EXCEPT ![t] = "running"]
    BY <1>1, <1>4, QueueSteps
  <2> QED
    BY <1>1, <1>2, <2>1 DEF Having
<1>5. CASE queue[u] # "running"
  <2>1. Having("running") = {} /\ queue' = [queue EXCEPT ![u] = "running"]
    BY <1>1, <1>5, QueueSteps
  <2> QED
    BY <1>1, <1>2, <2>1 DEF Having
<1> QED
  BY <1>3, <1>4, <1>5

(***************************************************************************)
(* An event is only accepted into a batch, and a batch with an accepted    *)
(* event always goes through the projection.                               *)
(***************************************************************************)
LEMMA FreshProjectionStep == RuntimeInv /\ [Next]_vars => FreshProjection'
<1> SUFFICES ASSUME RuntimeInv, [Next]_vars PROVE FreshProjection'
  OBVIOUS
<1>0. TypeOK /\ FreshProjection
  BY DEF RuntimeInv
<1> USE <1>0 DEF FreshProjection
<1>1. ASSUME NEW state, pc = "process", Accept(state) PROVE FreshProjection'
  <2>1. "accepted" \in DOMAIN run
    <3>1. run \in Run
      BY DEF TypeOK
    <3> QED
      BY <3>1 DEF Run
  <2>2. pc' = "process" /\ run' = [run EXCEPT !.accepted = TRUE]
    BY <1>1 DEF Accept
  <2>3. run'.accepted
    BY <2>1, <2>2, Zenon
  <2> QED
    BY <2>2, <2>3
<1>2. CASE (\E o \in Observations : Propose(o))
           \/ (\E verdict \in {"verified", "rejected"}, claim \in Claims : Decide(verdict, claim))
           \/ (\E cited \in SUBSET Observations : ProposeIssue(cited))
           \/ AcceptOther
  BY <1>1, <1>2 DEF Propose, Decide, ProposeIssue, AcceptOther, Processing
<1>3. CASE RefuseDuplicate \/ RefuseOther
  <2>1. run'.accepted = run.accepted
    BY <1>3 DEF RefuseDuplicate, RefuseOther, TypeOK, Run
  <2> QED
    BY <1>3, <2>1 DEF RefuseDuplicate, RefuseOther
<1>4. CASE RebuildState \/ SnapshotTarget \/ CompileReport \/ (\E f \in Files : EnqueueScan(f))
           \/ Crash \/ Begin \/ Project \/ Fail
  BY <1>4 DEF RebuildState, SnapshotTarget, CompileReport, EnqueueScan, Crash, Begin,
              Project, Fail
<1>5. CASE (\E s \in Snapshots : MoveHead(s)) \/ UNCHANGED vars
  BY <1>5 DEF MoveHead
<1>6. CASE (\E t \in FollowUpTasks : Plan(t)) \/ EndPlanning
           \/ (\E t \in Tasks : Resume(t) \/ Claim(t)) \/ NothingToRun \/ Bind \/ EndBatch
           \/ Succeed \/ (\E fs \in SUBSET Files : Expand(fs))
  BY <1>6 DEF Plan, EndPlanning, Resume, Claim, NothingToRun, Bind, EndBatch, Succeed, Expand
<1> QED
  BY <1>2, <1>3, <1>4, <1>5, <1>6 DEF Next, RunTask

LEMMA RunHoldsTaskStep == RuntimeInv /\ [Next]_vars => RunHoldsTask'
<1> SUFFICES ASSUME RuntimeInv, [Next]_vars PROVE RunHoldsTask'
  OBVIOUS
<1>0. TypeOK /\ RunHoldsTask
  BY DEF RuntimeInv
<1> USE <1>0 DEF RunHoldsTask
<1>1. ASSUME NEW t \in Tasks, Resume(t) \/ Claim(t) PROVE RunHoldsTask'
  <2>1. run'.task = t
    BY <1>1 DEF Resume, Claim, Select, TypeOK, Run
  <2>2. queue'[t] = "running"
    BY <1>1 DEF Resume, Claim, Transition, TypeOK, Having
  <2> QED
    BY <2>1, <2>2 DEF Having
<1>2. ASSUME UNCHANGED <<queue, run.task>>,
             pc' \in {"bind", "process", "project", "settle"} =>
                 pc \in {"bind", "process", "project", "settle"}
      PROVE  RunHoldsTask'
  BY <1>2 DEF Having
<1>3. ASSUME NEW state, pc = "process", Accept(state) PROVE RunHoldsTask'
  BY <1>2, <1>3 DEF Accept, TypeOK, Run
<1>4. CASE (\E o \in Observations : Propose(o))
           \/ (\E verdict \in {"verified", "rejected"}, claim \in Claims : Decide(verdict, claim))
           \/ (\E cited \in SUBSET Observations : ProposeIssue(cited))
           \/ AcceptOther
  BY <1>3, <1>4 DEF Propose, Decide, ProposeIssue, AcceptOther, Processing
<1>5. CASE RefuseDuplicate \/ RefuseOther
  BY <1>2, <1>5 DEF RefuseDuplicate, RefuseOther, TypeOK, Run
<1>6. CASE Bind
  BY <1>6 DEF Bind, Having
<1>7. CASE (\E s \in Snapshots : MoveHead(s)) \/ EndBatch \/ Project \/ UNCHANGED vars
  BY <1>2, <1>7 DEF MoveHead, EndBatch, Project
<1>8. CASE RebuildState \/ SnapshotTarget \/ CompileReport \/ (\E f \in Files : EnqueueScan(f))
           \/ Crash \/ Begin \/ (\E t \in FollowUpTasks : Plan(t)) \/ EndPlanning
           \/ NothingToRun \/ Succeed \/ Fail \/ (\E fs \in SUBSET Files : Expand(fs))
  BY <1>8 DEF RebuildState, SnapshotTarget, CompileReport, EnqueueScan, Crash, Begin, Plan,
              EndPlanning, NothingToRun, Succeed, Fail, Expand
<1> QED
  BY <1>1, <1>4, <1>5, <1>6, <1>7, <1>8 DEF Next, RunTask

LEMMA RuntimeInvariant == Spec => []RuntimeInv
<1>1. Init => OneRunning /\ FreshProjection /\ RunHoldsTask
  BY DEF Init, OneRunning, FreshProjection, RunHoldsTask, Having
<1>2. RuntimeInv /\ TypeOK' /\ [Next]_vars => RuntimeInv'
  BY OneRunningStep, FreshProjectionStep, RunHoldsTaskStep DEF RuntimeInv
<1>3. TypeOK /\ OneRunning /\ FreshProjection /\ RunHoldsTask <=> RuntimeInv
  BY DEF RuntimeInv
<1> QED
  BY <1>1, <1>2, <1>3, RuntimeTypeCorrect, PTL DEF Spec

(***************************************************************************)
(* However often commands die and wherever HEAD goes, an interrupted task  *)
(* is never hidden by the claim of another one.                            *)
(***************************************************************************)
THEOREM NoClaimHidesATask == Spec => []OneRunning
<1>1. RuntimeInv => OneRunning
  BY DEF RuntimeInv
<1> QED
  BY <1>1, RuntimeInvariant, PTL

(***************************************************************************)
(* Planning and slicing read a projection of everything accepted.          *)
(***************************************************************************)
THEOREM PlanningSeesEverything == Spec => []PlansOnFreshState
<1>1. RuntimeInv => PlansOnFreshState
  BY DEF RuntimeInv, FreshProjection, PlansOnFreshState
<1> QED
  BY <1>1, RuntimeInvariant, PTL

-----------------------------------------------------------------------------
(* The queue and the ledger.                                               *)

LEMMA FollowUps ==
    ASSUME NEW o \in Observations
    PROVE  /\ Verify(o) \in FollowUpTasks \ ScanTasks
           /\ Compose(o) \in FollowUpTasks \ ScanTasks
           /\ Verify(o).type = "verify_claim" /\ Verify(o).target = o
           /\ Compose(o).type = "compose_issue" /\ Compose(o).target = o
           /\ \A t \in Tasks : t.type = "verify_claim" => t = Verify(t.target)
                                                          /\ t.target \in Observations
  BY DEF Verify, Compose, FollowUpTasks, ScanTasks, Tasks

\* Only the events of the batch change what the event ledger holds.
LEMMA LedgerSteps ==
    ASSUME [Next]_vars
    PROVE  \/ UNCHANGED accepted
           \/ \E o \in Observations : Propose(o)
           \/ \E verdict \in {"verified", "rejected"}, claim \in Claims : Decide(verdict, claim)
           \/ \E cited \in SUBSET Observations : ProposeIssue(cited)
<1>1. CASE \/ \E s \in Snapshots : MoveHead(s)
           \/ RebuildState \/ SnapshotTarget \/ CompileReport
           \/ \E f \in Files : EnqueueScan(f)
           \/ Crash \/ UNCHANGED vars
  BY <1>1 DEF MoveHead, RebuildState, SnapshotTarget, CompileReport, EnqueueScan, Crash
<1>2. CASE \/ Begin \/ EndPlanning \/ NothingToRun \/ Bind
           \/ \E t \in FollowUpTasks : Plan(t)
           \/ \E t \in Tasks : Resume(t) \/ Claim(t)
  BY <1>2 DEF Begin, EndPlanning, NothingToRun, Bind, Plan, Resume, Claim
<1>3. CASE \/ AcceptOther \/ RefuseDuplicate \/ RefuseOther \/ EndBatch \/ Project
           \/ Succeed \/ Fail
           \/ \E fs \in SUBSET Files : Expand(fs)
  BY <1>3 DEF AcceptOther, Accept, RefuseDuplicate, RefuseOther, EndBatch, Project, Succeed,
              Fail, Expand
<1> QED
  BY <1>1, <1>2, <1>3 DEF Next, RunTask

\* How an observation's status changes, and what the queue shows meanwhile.
LEMMA StatusSteps ==
    ASSUME RuntimeInv, [Next]_vars, NEW o \in Observations,
           accepted'.status[o] # accepted.status[o]
    PROVE  \/ accepted.status[o] = "absent" /\ accepted'.status[o] = "proposed"
           \/ /\ accepted.status[o] = "proposed"
              /\ accepted'.status[o] \in {"verified", "rejected"}
              /\ queue[Verify(o)] = "running"
              /\ queue' = queue
<1>0. TypeOK
  BY DEF RuntimeInv
<1>1. ASSUME NEW p \in Observations, Propose(p)
      PROVE  accepted.status[o] = "absent" /\ accepted'.status[o] = "proposed"
  BY <1>0, <1>1 DEF Propose, Accept, TypeOK, CanonicalState
<1>2. ASSUME NEW verdict \in {"verified", "rejected"}, NEW claim, Decide(verdict, claim)
      PROVE  /\ accepted.status[o] = "proposed"
             /\ accepted'.status[o] \in {"verified", "rejected"}
             /\ queue[Verify(o)] = "running"
             /\ queue' = queue
  <2>1. run.task \in Tasks /\ queue[run.task] = "running"
    BY <1>2 DEF Decide, Processing, RuntimeInv, RunHoldsTask, Having
  <2>2. run.task = Verify(run.task.target)
    BY <1>2, <2>1, FollowUps DEF Decide, Processing
  <2>3. run.task.target = o
    BY <1>0, <1>2 DEF Decide, Accept, TypeOK, CanonicalState
  <2> QED
    BY <1>0, <1>2, <2>1, <2>2, <2>3 DEF Decide, Accept, TypeOK, CanonicalState
<1>3. ASSUME NEW cited, ProposeIssue(cited) PROVE FALSE
  <2>1. accepted' = [accepted EXCEPT !.backed = @ \cup cited]
    BY <1>3 DEF ProposeIssue, Accept
  <2>2. "status" \in DOMAIN accepted
    BY <1>0 DEF TypeOK, CanonicalState
  <2> QED
    BY <2>1, <2>2
<1>4. ASSUME UNCHANGED accepted PROVE FALSE
  BY <1>4, Zenon
<1> QED
  BY <1>1, <1>2, <1>3, <1>4, LedgerSteps

\* A follow-up enters the queue for what the ledger says at that moment.
LEMMA PlannedSteps ==
    ASSUME RuntimeInv, [Next]_vars, NEW t \in FollowUpTasks \ ScanTasks,
           queue[t] = "absent", queue'[t] # "absent"
    PROVE  t \in Wanted /\ projection = accepted /\ accepted' = accepted
<1>0. t \in Tasks /\ queue'[t] = "pending"
  BY QueueSteps DEF Tasks
<1>1. ASSUME NEW u \in FollowUpTasks, Plan(u)
      PROVE  t \in Wanted /\ projection = accepted /\ accepted' = accepted
  <2>1. t = u
    BY <1>0, <1>1 DEF Plan, Enqueue
  <2> QED
    BY <1>1, <2>1 DEF Plan, Plannable, RuntimeInv, FreshProjection
<1>2. ASSUME NEW ts, ts \subseteq ScanTasks, Enqueue(ts) PROVE FALSE
  BY <1>0, <1>2 DEF Enqueue
<1>3. ASSUME NEW f \in Files, EnqueueScan(f) PROVE FALSE
  <2>1. audit.snapshot \in Snapshots
    BY <1>3 DEF EnqueueScan, RuntimeInv, TypeOK, AuditRoot
  <2> QED
    BY <1>2, <1>3, <2>1 DEF EnqueueScan, ScanTasks
<1>4. ASSUME NEW fs \in SUBSET Files, Expand(fs) PROVE FALSE
  BY <1>0, <1>4 DEF Expand, Enqueue, FollowUpTasks, ScanTasks
<1>5. ASSUME NEW u \in Tasks, NEW status \in {"running", "failed", "done"},
             Transition(u, status)
      PROVE  FALSE
  BY <1>0, <1>5 DEF Transition, RuntimeInv, TypeOK
<1>6. ASSUME UNCHANGED queue PROVE FALSE
  BY <1>0, <1>6
<1>7. run.task \in Tasks \/ ~(Succeed \/ Fail)
  BY DEF Succeed, Fail, RuntimeInv, RunHoldsTask, Having
<1> QED
  BY <1>1, <1>3, <1>4, <1>5, <1>6, <1>7
     DEF Next, RunTask, MoveHead, RebuildState, SnapshotTarget, CompileReport, Crash, Begin,
         EndPlanning, Resume, Claim, NothingToRun, Bind, Propose, Decide, ProposeIssue,
         AcceptOther, Accept, RefuseDuplicate, RefuseOther, EndBatch, Project, Succeed, Fail

(***************************************************************************)
(* Nothing is decided whose task the queue still lists as not begun.       *)
(***************************************************************************)
THEOREM VerdictsAreClaimed == Spec => []VerdictsWereClaimed
<1>1. Init => VerdictsWereClaimed
  BY DEF Init, VerdictsWereClaimed
<1>2. RuntimeInv /\ VerdictsWereClaimed /\ [Next]_vars => VerdictsWereClaimed'
  <2> SUFFICES ASSUME RuntimeInv, VerdictsWereClaimed, [Next]_vars, NEW o \in Observations,
                      accepted'.status[o] \in {"verified", "rejected"}
               PROVE  queue'[Verify(o)] \in {"running", "failed", "done"}
    BY DEF VerdictsWereClaimed, Verify
  <2>1. CASE accepted'.status[o] = accepted.status[o]
    <3>1. Verify(o) \in Tasks /\ queue[Verify(o)] \in {"running", "failed", "done"}
      BY <2>1, FollowUps DEF VerdictsWereClaimed, Tasks
    <3> QED
      BY <3>1, QueueSteps
  <2>2. CASE accepted'.status[o] # accepted.status[o]
    BY <2>2, StatusSteps
  <2> QED
    BY <2>1, <2>2
<1> QED
  BY <1>1, <1>2, RuntimeInvariant, PTL DEF Spec

(***************************************************************************)
(* Nothing is queued for an observation the ledger does not hold in the    *)
(* status the work is about.  A planned task is right when it is planned,  *)
(* since planning sees everything accepted, and stays right, since a       *)
(* verified observation stays verified.                                    *)
(***************************************************************************)
THEOREM QueueIsGrounded == Spec => []QueueFollowsLedger
<1>1. Init => QueueFollowsLedger
  <2> SUFFICES ASSUME Init, NEW o \in Observations
               PROVE  Verify(o) \notin Queued /\ Compose(o) \notin Queued
    BY DEF QueueFollowsLedger
  <2> QED
    BY DEF Init, Queued, Having
<1>2. RuntimeInv /\ QueueFollowsLedger /\ [Next]_vars => QueueFollowsLedger'
  <2> SUFFICES ASSUME RuntimeInv, QueueFollowsLedger, [Next]_vars, NEW o \in Observations
               PROVE  /\ Verify(o) \in Queued' => accepted'.status[o] # "absent"
                      /\ Compose(o) \in Queued' => accepted'.status[o] = "verified"
    BY DEF QueueFollowsLedger, Verify, Compose
  <2>0. Verify(o) \in Tasks /\ Compose(o) \in Tasks
    BY FollowUps DEF Tasks
  <2>1. ASSUME Verify(o) \in Queued' PROVE accepted'.status[o] # "absent"
    <3>1. CASE Verify(o) \in Queued
      BY <3>1, StatusSteps DEF QueueFollowsLedger
    <3>2. CASE Verify(o) \notin Queued
      <4>1. Verify(o) \in Wanted /\ projection = accepted /\ accepted' = accepted
        BY <2>0, <2>1, <3>2, FollowUps, PlannedSteps DEF Queued, Having
      <4>2. projection.status[o] = "proposed"
        BY <4>1, FollowUps DEF Wanted
      <4> QED
        BY <4>1, <4>2
    <3> QED
      BY <3>1, <3>2
  <2>2. ASSUME Compose(o) \in Queued' PROVE accepted'.status[o] = "verified"
    <3>1. CASE Compose(o) \in Queued
      BY <3>1, StatusSteps DEF QueueFollowsLedger
    <3>2. CASE Compose(o) \notin Queued
      <4>1. Compose(o) \in Wanted /\ projection = accepted /\ accepted' = accepted
        BY <2>0, <2>2, <3>2, FollowUps, PlannedSteps DEF Queued, Having
      <4>2. projection.status[o] = "verified"
        BY <4>1, FollowUps DEF Wanted
      <4> QED
        BY <4>1, <4>2
    <3> QED
      BY <3>1, <3>2
  <2> QED
    BY <2>1, <2>2
<1> QED
  BY <1>1, <1>2, RuntimeInvariant, PTL DEF Spec

-----------------------------------------------------------------------------
(* The loop implements the life of an observation.                         *)

seen == <<accepted.status, Verifications, Compositions, accepted.backed>>

\* Every follow-up is the work of one observation.
LEMMA WorkOfObservations ==
    /\ \A o, p \in Observations :
           /\ Verify(o) = Verify(p) => o = p
           /\ Compose(o) = Compose(p) => o = p
           /\ Verify(o) # Compose(p)
    /\ \A t \in FollowUpTasks : \E o \in Observations : t = Verify(o) \/ t = Compose(o)
  BY DEF Verify, Compose, FollowUpTasks

LEMMA SameQueueLooksTheSame == UNCHANGED queue => UNCHANGED <<Verifications, Compositions>>
  BY DEF Verifications, Compositions, Verify, Compose, Observations

\* What becomes of the work of o when one task changes its status.
LEMMA OneTaskMoves ==
    ASSUME TypeOK, NEW t \in Tasks, NEW to, queue' = [queue EXCEPT ![t] = to]
    PROVE  /\ t \in ScanTasks => UNCHANGED <<Verifications, Compositions>>
           /\ \A o \in Observations : t = Verify(o) =>
                  /\ Verifications' = [Verifications EXCEPT ![o] = to]
                  /\ Compositions' = Compositions
           /\ \A o \in Observations : t = Compose(o) =>
                  /\ Compositions' = [Compositions EXCEPT ![o] = to]
                  /\ Verifications' = Verifications
<1>1. \A u \in Tasks : queue'[u] = IF u = t THEN to ELSE queue[u]
  BY DEF TypeOK
<1>2. /\ Verifications' = [o \in Observations |-> queue'[Verify(o)]]
      /\ Compositions' = [o \in Observations |-> queue'[Compose(o)]]
  BY DEF Verifications, Compositions, Verify, Compose, Observations
<1>3. \A o \in Observations : Verify(o) \in Tasks \ ScanTasks /\ Compose(o) \in Tasks \ ScanTasks
  BY FollowUps DEF Tasks
<1>4. ASSUME t \in ScanTasks PROVE UNCHANGED <<Verifications, Compositions>>
  BY <1>1, <1>2, <1>3, <1>4 DEF Verifications, Compositions
<1>5. ASSUME NEW o \in Observations, t = Verify(o)
      PROVE  Verifications' = [Verifications EXCEPT ![o] = to] /\ Compositions' = Compositions
  <2>1. \A p \in Observations :
            /\ queue'[Verify(p)] = IF p = o THEN to ELSE queue[Verify(p)]
            /\ queue'[Compose(p)] = queue[Compose(p)]
    BY <1>1, <1>3, <1>5, WorkOfObservations
  <2> QED
    BY <1>2, <2>1 DEF Verifications, Compositions
<1>6. ASSUME NEW o \in Observations, t = Compose(o)
      PROVE  Compositions' = [Compositions EXCEPT ![o] = to] /\ Verifications' = Verifications
  <2>1. \A p \in Observations :
            /\ queue'[Compose(p)] = IF p = o THEN to ELSE queue[Compose(p)]
            /\ queue'[Verify(p)] = queue[Verify(p)]
    BY <1>1, <1>3, <1>6, WorkOfObservations
  <2> QED
    BY <1>2, <2>1 DEF Verifications, Compositions
<1> QED
  BY <1>4, <1>5, <1>6

\* Scans are no part of the life of an observation.
LEMMA EnqueuedScansAreUnseen ==
    ASSUME NEW ts, \A t \in ts : t.type = "module_scan", Enqueue(ts)
    PROVE  UNCHANGED <<Verifications, Compositions>>
<1>1. \A u \in Tasks \ ScanTasks : queue'[u] = queue[u]
  BY DEF Enqueue, Tasks, FollowUpTasks
<1>2. /\ Verifications' = [o \in Observations |-> queue'[Verify(o)]]
      /\ Compositions' = [o \in Observations |-> queue'[Compose(o)]]
  BY DEF Verifications, Compositions, Verify, Compose, Observations
<1>3. \A o \in Observations : Verify(o) \in Tasks \ ScanTasks /\ Compose(o) \in Tasks \ ScanTasks
  BY FollowUps DEF Tasks
<1> QED
  BY <1>1, <1>2, <1>3 DEF Verifications, Compositions

\* What is planned was proposed or verified, and is planned once.
LEMMA PlanMaps ==
    ASSUME RuntimeInv, NEW t \in FollowUpTasks, Plan(t) PROVE Lifecycle!Next
<1>0. TypeOK /\ t \in Tasks /\ UNCHANGED accepted /\ projection = accepted
  BY DEF Tasks, Plan, RuntimeInv, FreshProjection
<1>1. t \notin Queued
  <2>1. t \notin ScanTasks /\ SameWork(t, t)
    BY DEF SameWork, FollowUpTasks, ScanTasks
  <2> QED
    BY <2>1 DEF Plan, Plannable
<1>2. queue[t] = "absent" /\ queue' = [queue EXCEPT ![t] = "pending"]
  BY <1>0, <1>1 DEF Plan, Enqueue, Queued, Having, TypeOK
<1>3. t \in Wanted
  BY DEF Plan, Plannable
<1>4. ASSUME NEW o \in Observations, t = Verify(o) PROVE Lifecycle!QueueVerification(o)
  <2>1. accepted.status[o] = "proposed"
    BY <1>0, <1>3, <1>4, WorkOfObservations DEF Wanted
  <2>2. Verifications[o] = "absent"
    BY <1>2, <1>4 DEF Verifications
  <2>3. Verifications' = [Verifications EXCEPT ![o] = "pending"] /\ Compositions' = Compositions
    BY <1>0, <1>2, <1>4, OneTaskMoves
  <2> QED
    BY <1>0, <2>1, <2>2, <2>3 DEF Lifecycle!QueueVerification
<1>5. ASSUME NEW o \in Observations, t = Compose(o) PROVE Lifecycle!QueueComposition(o)
  <2>1. accepted.status[o] = "verified" /\ o \notin accepted.backed
    BY <1>0, <1>3, <1>5, WorkOfObservations DEF Wanted
  <2>2. Compositions[o] = "absent"
    BY <1>2, <1>5 DEF Compositions
  <2>3. Compositions' = [Compositions EXCEPT ![o] = "pending"] /\ Verifications' = Verifications
    BY <1>0, <1>2, <1>5, OneTaskMoves
  <2> QED
    BY <1>0, <2>1, <2>2, <2>3 DEF Lifecycle!QueueComposition
<1> QED
  BY <1>4, <1>5, WorkOfObservations DEF Lifecycle!Next

\* A task is claimed only when no other runs, of whatever type.
LEMMA ClaimMaps ==
    ASSUME RuntimeInv, NEW t \in Tasks, Claim(t) PROVE Lifecycle!Next \/ UNCHANGED seen
<1>0. TypeOK /\ UNCHANGED accepted /\ queue' = [queue EXCEPT ![t] = "running"]
  BY DEF Claim, Transition, RuntimeInv
<1>1. queue[t] = "pending"
  BY DEF Claim, Having
<1>2. Lifecycle!NothingRuns
  <2>1. \A o \in Observations : Verify(o) \in Tasks /\ Compose(o) \in Tasks
    BY FollowUps DEF Tasks
  <2>2. \A u \in Tasks : queue[u] # "running"
    BY DEF Claim, Having
  <2> QED
    BY <2>1, <2>2 DEF Lifecycle!NothingRuns, Verifications, Compositions
<1>3. CASE t \in ScanTasks
  BY <1>0, <1>3, OneTaskMoves DEF seen
<1>4. ASSUME NEW o \in Observations, t = Verify(o) PROVE Lifecycle!StartVerification(o)
  <2>1. Verifications[o] = "pending"
    BY <1>1, <1>4 DEF Verifications
  <2>2. Verifications' = [Verifications EXCEPT ![o] = "running"] /\ Compositions' = Compositions
    BY <1>0, <1>4, OneTaskMoves
  <2> QED
    BY <1>0, <1>2, <2>1, <2>2 DEF Lifecycle!StartVerification
<1>5. ASSUME NEW o \in Observations, t = Compose(o) PROVE Lifecycle!StartComposition(o)
  <2>1. Compositions[o] = "pending"
    BY <1>1, <1>5 DEF Compositions
  <2>2. Compositions' = [Compositions EXCEPT ![o] = "running"] /\ Verifications' = Verifications
    BY <1>0, <1>5, OneTaskMoves
  <2> QED
    BY <1>0, <1>2, <2>1, <2>2 DEF Lifecycle!StartComposition
<1> QED
  BY <1>3, <1>4, <1>5, WorkOfObservations DEF Lifecycle!Next, Tasks

\* What a run settles is the task it holds, and the queue shows it as running.
LEMMA SettlingMaps ==
    ASSUME RuntimeInv, Succeed \/ Fail PROVE Lifecycle!Next \/ UNCHANGED seen
<1> DEFINE t == run.task
<1>0. TypeOK /\ UNCHANGED accepted /\ t \in Tasks /\ queue[t] = "running"
  BY DEF Succeed, Fail, RuntimeInv, RunHoldsTask, Having
<1>1. PICK outcome \in {"done", "failed"} : queue' = [queue EXCEPT ![t] = outcome]
  BY DEF Succeed, Fail, Transition
<1> HIDE DEF t
<1>2. CASE t \in ScanTasks
  BY <1>0, <1>1, <1>2, OneTaskMoves DEF seen
<1>3. ASSUME NEW o \in Observations, t = Verify(o) PROVE Lifecycle!EndVerification(o, outcome)
  <2>1. Verifications[o] = "running"
    BY <1>0, <1>3 DEF Verifications
  <2>2. Verifications' = [Verifications EXCEPT ![o] = outcome] /\ Compositions' = Compositions
    BY <1>0, <1>1, <1>3, OneTaskMoves
  <2> QED
    BY <1>0, <2>1, <2>2 DEF Lifecycle!EndVerification
<1>4. ASSUME NEW o \in Observations, t = Compose(o) PROVE Lifecycle!EndComposition(o, outcome)
  <2>1. Compositions[o] = "running"
    BY <1>0, <1>4 DEF Compositions
  <2>2. Compositions' = [Compositions EXCEPT ![o] = outcome] /\ Verifications' = Verifications
    BY <1>0, <1>1, <1>4, OneTaskMoves
  <2> QED
    BY <1>0, <2>1, <2>2 DEF Lifecycle!EndComposition
<1> QED
  BY <1>0, <1>2, <1>3, <1>4, WorkOfObservations DEF Lifecycle!Next, Tasks

\* The events of a batch are about what the task of the run is about.
LEMMA ProposeMaps ==
    ASSUME RuntimeInv, NEW o \in Observations, Propose(o) PROVE Lifecycle!Next
<1>0. accepted \in CanonicalState /\ UNCHANGED queue
  BY DEF RuntimeInv, TypeOK, Propose, Accept
<1>1. accepted' = [accepted EXCEPT !.status[o] = "proposed"]
  BY DEF Propose, Accept
<1>2. /\ accepted'.status = [accepted.status EXCEPT ![o] = "proposed"]
      /\ accepted'.backed = accepted.backed
  BY <1>0, <1>1 DEF CanonicalState
<1>3. UNCHANGED <<Verifications, Compositions>>
  BY <1>0, SameQueueLooksTheSame
<1>4. Lifecycle!Propose(o)
  BY <1>2, <1>3 DEF Lifecycle!Propose, Propose
<1> QED
  BY <1>4 DEF Lifecycle!Next

LEMMA DecideMaps ==
    ASSUME RuntimeInv, NEW verdict \in {"verified", "rejected"}, NEW claim, Decide(verdict, claim)
    PROVE  Lifecycle!Next
<1>0. accepted \in CanonicalState /\ UNCHANGED queue
  BY DEF RuntimeInv, TypeOK, Decide, Accept
<1>1. run.task \in Tasks /\ queue[run.task] = "running" /\ run.task.type = "verify_claim"
  BY DEF Decide, Processing, RuntimeInv, RunHoldsTask, Having
<1>2. PICK o \in Observations : run.task.target = o /\ run.task = Verify(o)
  BY <1>1, WorkOfObservations, FollowUps DEF Tasks, ScanTasks
<1>3. Verifications[o] = "running"
  BY <1>1, <1>2 DEF Verifications
<1>4. accepted' = [accepted EXCEPT !.status[o] = verdict, !.says[o] = claim]
  BY <1>2 DEF Decide, Accept
<1>5. /\ accepted'.status = [accepted.status EXCEPT ![o] = verdict]
      /\ accepted'.backed = accepted.backed
  BY <1>0, <1>4 DEF CanonicalState
<1>6. UNCHANGED <<Verifications, Compositions>>
  BY <1>0, SameQueueLooksTheSame
<1>7. Lifecycle!Decide(o, verdict)
  BY <1>2, <1>3, <1>5, <1>6 DEF Lifecycle!Decide, Decide
<1> QED
  BY <1>7 DEF Lifecycle!Next

LEMMA IssueMaps ==
    ASSUME RuntimeInv, NEW cited \in SUBSET Observations, ProposeIssue(cited)
    PROVE  Lifecycle!Next
<1>0. accepted \in CanonicalState /\ UNCHANGED queue
  BY DEF RuntimeInv, TypeOK, ProposeIssue, Accept
<1>1. run.task \in Tasks /\ queue[run.task] = "running" /\ run.task.type = "compose_issue"
  BY DEF ProposeIssue, Processing, RuntimeInv, RunHoldsTask, Having
<1>2. PICK o \in Observations : run.task = Compose(o)
  BY <1>1, WorkOfObservations, FollowUps DEF Tasks, ScanTasks
<1>3. Compositions[o] = "running"
  BY <1>1, <1>2 DEF Compositions
<1>4. accepted' = [accepted EXCEPT !.backed = @ \cup cited]
  BY DEF ProposeIssue, Accept
<1>5. accepted'.status = accepted.status /\ accepted'.backed = accepted.backed \cup cited
  BY <1>0, <1>4 DEF CanonicalState
<1>6. UNCHANGED <<Verifications, Compositions>>
  BY <1>0, SameQueueLooksTheSame
<1>7. Lifecycle!Back(o, cited)
  BY <1>3, <1>5, <1>6 DEF Lifecycle!Back, ProposeIssue
<1> QED
  BY <1>7 DEF Lifecycle!Next

LEMMA RuntimeStepsMapToSteps == RuntimeInv /\ [Next]_vars => [Lifecycle!Next]_seen
<1> SUFFICES ASSUME RuntimeInv, [Next]_vars PROVE Lifecycle!Next \/ UNCHANGED seen
  OBVIOUS
<1>1. ASSUME UNCHANGED <<accepted, queue>> PROVE UNCHANGED seen
  BY <1>1, SameQueueLooksTheSame DEF seen
<1>2. ASSUME NEW ts, \A t \in ts : t.type = "module_scan", Enqueue(ts), UNCHANGED accepted
      PROVE  UNCHANGED seen
  BY <1>2, EnqueuedScansAreUnseen DEF seen
<1>3. ASSUME NEW f \in Files, EnqueueScan(f) PROVE UNCHANGED seen
  BY <1>2, <1>3 DEF EnqueueScan
<1>4. ASSUME NEW fs \in SUBSET Files, Expand(fs) PROVE UNCHANGED seen
  BY <1>2, <1>4 DEF Expand
<1>5. CASE \/ \E t \in FollowUpTasks : Plan(t)
           \/ \E t \in Tasks : Claim(t)
           \/ Succeed \/ Fail
           \/ \E o \in Observations : Propose(o)
           \/ \E verdict \in {"verified", "rejected"}, claim \in Claims : Decide(verdict, claim)
           \/ \E cited \in SUBSET Observations : ProposeIssue(cited)
  BY <1>5, PlanMaps, ClaimMaps, SettlingMaps, ProposeMaps, DecideMaps, IssueMaps
<1>6. CASE \/ \E s \in Snapshots : MoveHead(s)
           \/ RebuildState \/ SnapshotTarget \/ CompileReport \/ Crash \/ UNCHANGED vars
  BY <1>1, <1>6 DEF MoveHead, RebuildState, SnapshotTarget, CompileReport, Crash
<1>7. CASE \/ Begin \/ EndPlanning \/ NothingToRun \/ Bind \/ AcceptOther
           \/ RefuseDuplicate \/ RefuseOther \/ EndBatch \/ Project
           \/ \E t \in Tasks : Resume(t)
  BY <1>1, <1>7 DEF Begin, EndPlanning, NothingToRun, Bind, AcceptOther, Accept,
                    RefuseDuplicate, RefuseOther, EndBatch, Project, Resume
<1> QED
  BY <1>3, <1>4, <1>5, <1>6, <1>7 DEF Next, RunTask

(***************************************************************************)
(* Whatever dies between two writes and wherever HEAD goes, what ledger    *)
(* and queue show of the observations is a run of their orderly life.      *)
(***************************************************************************)
THEOREM RuntimeImplementsLifecycle == Spec => ImplementsLifecycle
<1>1. Init => Lifecycle!Init
  BY FollowUps DEF Init, Lifecycle!Init, Verifications, Compositions, Tasks
<1>2. RuntimeInv /\ [Next]_vars => [Lifecycle!Next]_(Lifecycle!vars)
  BY RuntimeStepsMapToSteps DEF seen, Lifecycle!vars
<1> QED
  BY <1>1, <1>2, RuntimeInvariant, PTL DEF Spec, ImplementsLifecycle, Lifecycle!Spec
=============================================================================
