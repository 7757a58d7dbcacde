---------------------------- MODULE OutboxProofs ----------------------------
(* What holds of Outbox for every value of its constants. *)
EXTENDS Outbox, TLAPS, FiniteSetTheorems

\* Every action leaves each variable in its type.
LEMMA RowTypes ==
    ASSUME NEW r \in Row, NEW n \in Nat
    PROVE  /\ NewRow \in Row
           /\ Unlocked(r) \in Row
           /\ \A p \in Processors : LockedRow(r, p) \in Row
           /\ PublishedRow(r) \in Row
           /\ FailedRow(r, n) \in Row
           /\ ReleasedRow(r) \in Row
           /\ TickedRow(r) \in Row
<1> USE DEF Row, Statuses, NeverDue, Expired
<1>1. AbsentRow \in Row /\ NewRow \in Row
  BY DEF AbsentRow, NewRow
<1>2. Unlocked(r) \in Row /\ PublishedRow(r) \in Row /\ ReleasedRow(r) \in Row
  BY DEF Unlocked, PublishedRow, ReleasedRow, LockExpired
<1>3. \A p \in Processors : LockedRow(r, p) \in Row
  BY TimesAssumption DEF LockedRow
<1>4. Backoff(n) \in Nat
  BY TimesAssumption DEF Backoff
<1>5. FailedRow(r, n) \in Row
  <2>1. r.attempts + 1 \in Nat
    OBVIOUS
  <2>2. QED  BY <1>4, <2>1 DEF FailedRow, Unlocked
<1>6. TickedRow(r) \in Row
  <2> DEFINE due == IF r.dueIn > 0 THEN r.dueIn - 1 ELSE r.dueIn
             left == IF r.leaseLeft >= 0 THEN r.leaseLeft - 1 ELSE r.leaseLeft
  <2>1. due \in Nat \cup {NeverDue} /\ left \in Nat \cup {Expired}
    <3>1. r.dueIn \in Nat \cup {-1} /\ r.leaseLeft \in Nat \cup {-1}
      OBVIOUS
    <3>2. QED  BY <3>1
  <2>2. TickedRow(r) = [r EXCEPT !.dueIn = due, !.leaseLeft = left]
    BY DEF TickedRow
  <2> HIDE DEF due, left
  <2>3. QED  BY <2>1, <2>2
<1>7. QED  BY <1>1, <1>2, <1>3, <1>5, <1>6

LEMMA TaskTypes ==
    ASSUME TypeOK, NEW p \in Processors, NEW e \in Events
    PROVE  /\ NoTask \in Task
           /\ ClaimedTask(e) \in Task
           /\ task[p][e] \in Task
           /\ FailingTask(task[p][e]) \in Task
           /\ row[e] \in Row
           /\ \A t \in Task : [task EXCEPT ![p][e] = t] \in [Processors -> [Events -> Task]]
<1>1. task[p][e] \in Task /\ row[e] \in Row
  BY DEF TypeOK
<1>2. NoTask \in Task /\ ClaimedTask(e) \in Task /\ FailingTask(task[p][e]) \in Task
  BY <1>1 DEF Task, Stages, NoTask, ClaimedTask, FailingTask, Row
<1>3. ASSUME NEW t \in Task
      PROVE  [task EXCEPT ![p][e] = t] \in [Processors -> [Events -> Task]]
  BY DEF TypeOK
<1>4. QED  BY <1>1, <1>2, <1>3

LEMMA AddedType ==
    ASSUME TypeOK, NEW q \in Queues, NEW e \in Events
    PROVE  Added(job, q, e) \in [Queues -> [Events -> JobStates]]
BY DEF TypeOK, Added, JobStates

LEMMA LockedType ==
    ASSUME TypeOK, NEW p \in Processors, NEW S
    PROVE  Locked(S, p) \in [Events -> Row]
BY RowTypes, 0 \in Nat DEF TypeOK, Locked

LEMMA InitTypes == Init => TypeOK
BY NobodyAssumption, AttemptsAssumption
     DEF Init, TypeOK, Row, Statuses, AbsentRow, NeverDue, Expired, Task, Stages, NoTask,
         Modes, JobStates

LEMMA TypeStep == ASSUME TypeOK, [Next]_vars PROVE TypeOK'
<1> USE DEF TypeOK
<1>1. ASSUME NEW e \in Events, Commit(e) PROVE TypeOK'
  BY <1>1, RowTypes DEF Commit, NewRow, AbsentRow, Row, Statuses, NeverDue, Expired
<1>2. ASSUME NEW p \in Processors, Trigger(p)
      PROVE  mode' \in [Processors -> Modes] /\ again' \in [Processors -> BOOLEAN]
  BY <1>2 DEF Trigger, Modes
<1>3. ASSUME NEW p \in Processors, RetryDueEvents(p) PROVE TypeOK'
  BY <1>2, <1>3 DEF RetryDueEvents
<1>4. ASSUME NEW p \in Processors, ReleaseExpiredLocks(p) PROVE TypeOK'
  BY <1>4, RowTypes, 0 \in Nat DEF ReleaseExpiredLocks
<1>5. ASSUME NEW p \in Processors, ClaimBatch(p) PROVE TypeOK'
  <2>1. PICK S \in Batches :
          /\ row' = Locked(S, p)
          /\ task' = [task EXCEPT ![p] = [e \in Events |-> IF e \in S THEN ClaimedTask(e) ELSE @[e]]]
          /\ mode' = [mode EXCEPT ![p] = IF S = {} THEN "empty" ELSE "working"]
    BY <1>5 DEF ClaimBatch
  <2>2. row' \in [Events -> Row]
    BY <2>1, LockedType
  <2>3. \A e \in Events : (IF e \in S THEN ClaimedTask(e) ELSE task[p][e]) \in Task
    BY TaskTypes
  <2>4. task' \in [Processors -> [Events -> Task]]
    BY <2>1, <2>3
  <2>5. mode' \in [Processors -> Modes]
    BY <2>1 DEF Modes
  <2>6. QED  BY <1>5, <2>2, <2>4, <2>5 DEF ClaimBatch
<1>6. ASSUME Fault PROVE faults' \in 0..MaxFaults
  BY <1>6, AttemptsAssumption DEF Fault
<1>7. ASSUME NEW p \in Processors, ClaimFails(p) PROVE TypeOK'
  BY <1>6, <1>7, LockedType DEF ClaimFails, Modes
<1>8. ASSUME NEW p \in Processors, DrainReturns(p) PROVE TypeOK'
  BY <1>8 DEF DrainReturns, Modes
<1>9. ASSUME NEW p \in Processors, BatchSettled(p) PROVE TypeOK'
  BY <1>9 DEF BatchSettled, Modes
<1>10. ASSUME NEW p \in Processors, NEW e \in Events, Notified(p, e) PROVE TypeOK'
  BY <1>2, <1>10 DEF Notified
<1>11. ASSUME NEW p \in Processors, NEW e \in Events, StartRow(p, e) PROVE TypeOK'
  <2>1. [task[p][e] EXCEPT !.stage = IF Routes[e] = {} THEN "marking" ELSE "adding",
                           !.todo = Routes[e]] \in Task
    <3>1. task[p][e] \in Task /\ Routes[e] \subseteq Queues
      BY TaskTypes, RoutesAssumption
    <3>2. QED  BY <3>1 DEF Task, Stages
  <2>2. QED  BY <1>11, <2>1, TaskTypes DEF StartRow
<1>12. ASSUME NEW p \in Processors, NEW e \in Events, NEW q \in Queues, AddResolves(p, e, q)
       PROVE  TypeOK'
  <2> DEFINE left == task[p][e].todo \ {q}
  <2>1. [task[p][e] EXCEPT !.todo = left,
                           !.stage = IF left = {} THEN "marking" ELSE "adding"] \in Task
    BY TaskTypes DEF Task, Stages
  <2>2. QED  BY <1>12, <2>1, TaskTypes, AddedType DEF AddResolves
<1>13. ASSUME NEW p \in Processors, NEW e \in Events, AddRejects(p, e) PROVE TypeOK'
  <2>1. task[p][e].todo \subseteq Queues
    BY TaskTypes DEF Task
  <2>2. QED  BY <1>13, <2>1, TaskTypes DEF AddRejects
<1>14. ASSUME NEW p \in Processors, NEW e \in Events, MarkPublished(p, e) PROVE TypeOK'
  BY <1>14, RowTypes, TaskTypes, 0 \in Nat DEF MarkPublished
<1>15. ASSUME NEW p \in Processors, NEW e \in Events, MarkPublishedFails(p, e) PROVE TypeOK'
  <2>1. row' \in [Events -> Row]
    BY <1>15, RowTypes, 0 \in Nat DEF MarkPublishedFails
  <2>2. task' \in [Processors -> [Events -> Task]]
    BY <1>15, TaskTypes DEF MarkPublishedFails
  <2>3. QED  BY <1>6, <1>15, <2>1, <2>2 DEF MarkPublishedFails
<1>16. ASSUME NEW p \in Processors, NEW e \in Events
       PROVE  [row EXCEPT ![e] = FailedRow(@, task[p][e].snap)] \in [Events -> Row]
  BY RowTypes, TaskTypes DEF Task
<1>17. ASSUME NEW p \in Processors, NEW e \in Events, MarkFailed(p, e) PROVE TypeOK'
  BY <1>16, <1>17, TaskTypes DEF MarkFailed
<1>18. ASSUME NEW p \in Processors, NEW e \in Events, MarkFailedFails(p, e) PROVE TypeOK'
  <2>1. row' \in [Events -> Row]
    <3>1. row' = row \/ row' = [row EXCEPT ![e] = FailedRow(@, task[p][e].snap)]
      BY <1>18, Zenon DEF MarkFailedFails
    <3>2. row \in [Events -> Row]
      OBVIOUS
    <3>3. [row EXCEPT ![e] = FailedRow(@, task[p][e].snap)] \in [Events -> Row]
      BY <1>16
    <3> HIDE DEF TypeOK
    <3>4. QED  BY <3>1, <3>2, <3>3
  <2>2. task' \in [Processors -> [Events -> Task]]
    BY <1>18, TaskTypes DEF MarkFailedFails
  <2>3. QED  BY <1>6, <1>18, <2>1, <2>2 DEF MarkFailedFails
<1>19. ASSUME NEW p \in Processors, Crash(p) PROVE TypeOK'
  <2>1. task' \in [Processors -> [Events -> Task]]
    BY <1>19, TaskTypes DEF Crash
  <2>2. stray' \subseteq Events \X Queues
    BY <1>19 DEF Crash, Task
  <2>3. notices' \subseteq Processors \X Events
    BY <1>19 DEF Crash
  <2>4. QED  BY <1>6, <1>19, <2>1, <2>2, <2>3 DEF Crash, Modes
<1>20. ASSUME NEW p \in Processors, Restart(p) PROVE TypeOK'
  BY <1>20 DEF Restart, Modes
<1>21. ASSUME NEW p \in Processors, NEW e \in Events, LoseNotice(p, e) PROVE TypeOK'
  BY <1>6, <1>21 DEF LoseNotice
<1>22. ASSUME NEW e \in Events, NEW q \in Queues, StrayAdd(e, q) PROVE TypeOK'
  BY <1>22, AddedType DEF StrayAdd
<1>23. ASSUME NEW e \in Events, NEW q \in Queues, JobEnds(q, e) PROVE TypeOK'
  BY <1>23 DEF JobEnds, JobStates
<1>24. ASSUME Tick PROVE TypeOK'
  <2>1. \A e \in Events : TickedRow(row[e]) \in Row
    BY RowTypes, 0 \in Nat
  <2>2. QED  BY <1>24, <2>1 DEF Tick
<1>25. CASE UNCHANGED vars
  BY <1>25 DEF vars
<1>26. QED
  BY <1>1, <1>3, <1>4, <1>5, <1>7, <1>8, <1>9, <1>10, <1>11, <1>12, <1>13, <1>14, <1>15,
     <1>17, <1>18, <1>19, <1>20, <1>21, <1>22, <1>23, <1>24, <1>25
     DEF Next, LoopStep, RowStep

\* Every variable keeps its type in every reachable state of the outbox,
\* whatever the number of events, processors, queues, attempts and faults.
THEOREM TypeCorrect == Spec => []TypeOK
BY InitTypes, TypeStep, PTL DEF Spec

-----------------------------------------------------------------------------
(* Rows stay where claimBatch or releaseExpiredLocks will find them. *)

LEMMA FindableKept ==
    ASSUME NEW r \in Row, Findable(r), NEW n \in Nat
    PROVE  /\ Findable(NewRow)
           /\ IsDue(r) => \A p \in Processors : Findable(LockedRow(r, p))
           /\ Findable(PublishedRow(r))
           /\ Findable(FailedRow(r, n))
           /\ Findable(ReleasedRow(r))
           /\ Findable(TickedRow(r))
<1> USE DEF Findable, Row, NeverDue, Expired
<1>1. Findable(NewRow) /\ Findable(PublishedRow(r)) /\ Findable(ReleasedRow(r))
  BY DEF NewRow, AbsentRow, PublishedRow, ReleasedRow, LockExpired, Unlocked
<1>2. IsDue(r) => \A p \in Processors : Findable(LockedRow(r, p))
  BY NobodyAssumption DEF IsDue, LockedRow
<1>3. Findable(FailedRow(r, n))
  <2>1. Backoff(n) \in Nat
    BY TimesAssumption DEF Backoff
  <2>2. QED  BY <2>1 DEF FailedRow, Unlocked
<1>4. Findable(TickedRow(r))
  BY DEF TickedRow
<1>5. QED  BY <1>1, <1>2, <1>3, <1>4

\* The rows before and after a step: which of the repository's updates a
\* step applies to which row.
LEMMA RowUpdates ==
    ASSUME TypeOK, [Next]_vars, NEW e \in Events
    PROVE  \/ row'[e] = row[e]
           \/ row[e].status = "absent" /\ row'[e] = NewRow
           \/ IsDue(row[e]) /\ \E p \in Processors : row'[e] = LockedRow(row[e], p)
           \/ \E p \in Processors :
                 /\ task[p][e].stage = "marking" /\ row'[e] = PublishedRow(row[e])
                 /\ task'[p][e] \in {NoTask, FailingTask(task[p][e])}
           \/ \E p \in Processors :
                 /\ task[p][e].stage = "failing" /\ row'[e] = FailedRow(row[e], task[p][e].snap)
                 /\ task'[p][e] = NoTask
           \/ row'[e] = ReleasedRow(row[e])
           \/ Tick /\ row'[e] = TickedRow(row[e])
<1> DEFINE Goal == \/ row'[e] = row[e]
                   \/ row[e].status = "absent" /\ row'[e] = NewRow
                   \/ IsDue(row[e]) /\ \E p \in Processors : row'[e] = LockedRow(row[e], p)
                   \/ \E p \in Processors :
                         /\ task[p][e].stage = "marking" /\ row'[e] = PublishedRow(row[e])
                         /\ task'[p][e] \in {NoTask, FailingTask(task[p][e])}
                   \/ \E p \in Processors :
                         /\ task[p][e].stage = "failing"
                         /\ row'[e] = FailedRow(row[e], task[p][e].snap)
                         /\ task'[p][e] = NoTask
                   \/ row'[e] = ReleasedRow(row[e])
                   \/ Tick /\ row'[e] = TickedRow(row[e])
<1> SUFFICES Goal
  OBVIOUS
<1>0. row \in [Events -> Row] /\ task \in [Processors -> [Events -> Task]]
  BY DEF TypeOK
<1>1. ASSUME NEW d \in Events, Commit(d) PROVE Goal
  BY <1>0, <1>1 DEF Commit
<1>2. ASSUME NEW p \in Processors, ReleaseExpiredLocks(p) PROVE Goal
  BY <1>2 DEF ReleaseExpiredLocks
<1>3. ASSUME NEW p \in Processors, NEW S \in Batches \cup {{}}, row' = Locked(S, p) PROVE Goal
  <2>1. e \in S => IsDue(row[e])
    BY DEF Batches
  <2>2. QED  BY <1>3, <2>1 DEF Locked
<1>4. ASSUME NEW p \in Processors, ClaimBatch(p) \/ ClaimFails(p) PROVE Goal
  BY <1>3, <1>4 DEF ClaimBatch, ClaimFails
<1>5. ASSUME NEW p \in Processors, NEW d \in Events, MarkPublished(p, d) PROVE Goal
  BY <1>0, <1>5 DEF MarkPublished
<1>6. ASSUME NEW p \in Processors, NEW d \in Events, MarkPublishedFails(p, d) PROVE Goal
  BY <1>0, <1>6 DEF MarkPublishedFails
<1>7. ASSUME NEW p \in Processors, NEW d \in Events, MarkFailed(p, d) PROVE Goal
  BY <1>0, <1>7 DEF MarkFailed
<1>8. ASSUME NEW p \in Processors, NEW d \in Events, MarkFailedFails(p, d) PROVE Goal
  BY <1>0, <1>8 DEF MarkFailedFails
<1>9. CASE Tick
  BY <1>9 DEF Tick
<1>10. CASE UNCHANGED row
  BY <1>10
<1> HIDE DEF Goal
<1>11. QED
  <2>1. ASSUME NEW p \in Processors, LoopStep(p) PROVE Goal
    BY <1>4, <1>10, <2>1 DEF LoopStep, DrainReturns, BatchSettled
  <2>2. ASSUME NEW p \in Processors, NEW d \in Events, RowStep(p, d) PROVE Goal
    BY <1>5, <1>6, <1>7, <1>8, <1>10, <2>2 DEF RowStep, StartRow, AddResolves, AddRejects
  <2>3. ASSUME NEW p \in Processors,
               RetryDueEvents(p) \/ Crash(p) \/ Restart(p)
                 \/ \E d \in Events : Notified(p, d) \/ LoseNotice(p, d)
        PROVE  Goal
    BY <1>10, <2>3 DEF RetryDueEvents, Crash, Restart, Notified, LoseNotice
  <2>4. ASSUME NEW d \in Events, NEW q \in Queues, StrayAdd(d, q) \/ JobEnds(q, d) PROVE Goal
    BY <1>10, <2>4 DEF StrayAdd, JobEnds
  <2>5. CASE UNCHANGED vars
    BY <1>10, <2>5 DEF vars
  <2>6. QED  BY <1>1, <1>2, <1>9, <2>1, <2>2, <2>3, <2>4, <2>5 DEF Next

LEMMA FindabilityStep ==
    ASSUME TypeOK, NothingStranded, [Next]_vars PROVE NothingStranded'
<1> SUFFICES ASSUME NEW e \in Events PROVE Findable(row'[e])
  BY DEF NothingStranded
<1>1. row[e] \in Row /\ Findable(row[e])
  BY DEF TypeOK, NothingStranded
<1>2. \A p \in Processors : task[p][e].snap \in Nat
  BY TaskTypes DEF Task
<1>3. QED  BY <1>1, <1>2, RowUpdates, FindableKept, 0 \in Nat

\* A pending or locked row always has a next_attempt_at, and only locked rows
\* have an owner and a lease, whatever former owners do to it: no committed
\* event is ever out of reach of both the claim and the release of locks.
THEOREM Findability == Spec => []NothingStranded
<1>1. Init => NothingStranded
  BY DEF Init, NothingStranded, Findable, AbsentRow
<1>2. QED  BY <1>1, FindabilityStep, TypeCorrect, PTL DEF Spec

-----------------------------------------------------------------------------
(* At-least-once: published means handed to every queue. *)

LEMMA AddedJob ==
    ASSUME TypeOK, NEW q \in Queues, NEW e \in Events
    PROVE  /\ Added(job, q, e)[q][e] # "never"
           /\ \A q2 \in Queues, e2 \in Events :
                job[q2][e2] # "never" => Added(job, q, e)[q2][e2] # "never"
BY DEF TypeOK, Added, JobStates

LEMMA JobsStay ==
    ASSUME TypeOK, [Next]_vars, NEW q \in Queues, NEW e \in Events, job[q][e] # "never"
    PROVE  job'[q][e] # "never"
<1>1. ASSUME NEW p \in Processors, NEW d \in Events, RowStep(p, d) PROVE job'[q][e] # "never"
  <2>1. job' = job \/ \E r \in Queues : job' = Added(job, r, d)
    BY <1>1 DEF RowStep, StartRow, AddResolves, AddRejects, MarkPublished,
       MarkPublishedFails, MarkFailed, MarkFailedFails
  <2>2. QED  BY <2>1, AddedJob
<1>2. ASSUME NEW d \in Events, NEW r \in Queues, StrayAdd(d, r) PROVE job'[q][e] # "never"
  BY <1>2, AddedJob DEF StrayAdd
<1>3. ASSUME NEW d \in Events, NEW r \in Queues, JobEnds(r, d) PROVE job'[q][e] # "never"
  <2>1. PICK outcome \in {"done", "dead"} : job' = [job EXCEPT ![r][d] = outcome]
    BY <1>3 DEF JobEnds
  <2>2. QED  BY <2>1 DEF TypeOK
<1>4. ASSUME NEW p \in Processors, LoopStep(p) PROVE UNCHANGED job
  BY <1>4 DEF LoopStep, ClaimBatch, ClaimFails, DrainReturns, BatchSettled
<1>5. ASSUME NEW p \in Processors, NEW d \in Events, Notified(p, d) \/ LoseNotice(p, d)
      PROVE  UNCHANGED job
  BY <1>5 DEF Notified, LoseNotice
<1>6. QED
  BY <1>1, <1>2, <1>3, <1>4, <1>5
     DEF Next, vars, Commit, RetryDueEvents, ReleaseExpiredLocks, Crash, Restart, Tick

\* What a step does to a call of processRow.
LEMMA TaskUpdates ==
    ASSUME TypeOK, [Next]_vars, NEW p \in Processors, NEW e \in Events
    PROVE  \/ task'[p][e] = task[p][e]
           \/ task'[p][e] = NoTask
           \/ task'[p][e] = ClaimedTask(e) /\ IsDue(row[e]) /\ row'[e] = LockedRow(row[e], p)
           \/ task[p][e].stage = "claimed" /\ StartRow(p, e)
           \/ \E q \in Queues : AddResolves(p, e, q)
           \/ AddRejects(p, e)
           \/ MarkPublishedFails(p, e) /\ task'[p][e] = FailingTask(task[p][e])
<1> DEFINE Goal ==
           \/ task'[p][e] = task[p][e]
           \/ task'[p][e] = NoTask
           \/ task'[p][e] = ClaimedTask(e) /\ IsDue(row[e]) /\ row'[e] = LockedRow(row[e], p)
           \/ task[p][e].stage = "claimed" /\ StartRow(p, e)
           \/ \E q \in Queues : AddResolves(p, e, q)
           \/ AddRejects(p, e)
           \/ MarkPublishedFails(p, e) /\ task'[p][e] = FailingTask(task[p][e])
<1> SUFFICES Goal
  OBVIOUS
<1>0. task \in [Processors -> [Events -> Task]]
  BY DEF TypeOK
<1>1. CASE UNCHANGED task
  BY <1>1
<1>2. ASSUME NEW r \in Processors, ClaimBatch(r) PROVE Goal
  <2>1. PICK S \in Batches :
          /\ row' = Locked(S, r)
          /\ task' = [task EXCEPT ![r] = [d \in Events |-> IF d \in S THEN ClaimedTask(d) ELSE @[d]]]
    BY <1>2 DEF ClaimBatch
  <2>2. CASE r = p /\ e \in S
    <3>1. IsDue(row[e])
      BY <2>2 DEF Batches
    <3>2. task'[p][e] = ClaimedTask(e)
      BY <2>1, <2>2, <1>0
    <3>3. row'[e] = LockedRow(row[e], p)
      BY <2>1, <2>2 DEF Locked
    <3>4. QED  BY <3>1, <3>2, <3>3
  <2>3. CASE ~(r = p /\ e \in S)
    <3>1. task'[p][e] = task[p][e]
      BY <2>1, <2>3, <1>0
    <3>2. QED  BY <3>1
  <2>4. QED  BY <2>2, <2>3
<1>3. ASSUME NEW r \in Processors, NEW d \in Events, RowStep(r, d) PROVE Goal
  <2>1. CASE r = p /\ d = e
    <3>1. CASE StartRow(p, e) \/ AddRejects(p, e) \/ \E q \in Queues : AddResolves(p, e, q)
      BY <3>1 DEF StartRow
    <3>2. CASE MarkPublished(p, e) \/ MarkFailed(p, e) \/ MarkFailedFails(p, e)
      BY <3>2, <1>0 DEF MarkPublished, MarkFailed, MarkFailedFails
    <3>3. CASE MarkPublishedFails(p, e)
      BY <3>3, <1>0 DEF MarkPublishedFails
    <3>4. QED  BY <1>3, <2>1, <3>1, <3>2, <3>3 DEF RowStep
  <2>2. CASE ~(r = p /\ d = e)
    <3>1. \E t : task' = [task EXCEPT ![r][d] = t]
      BY <1>3 DEF RowStep, StartRow, AddResolves, AddRejects, MarkPublished,
         MarkPublishedFails, MarkFailed, MarkFailedFails
    <3>2. task'[p][e] = task[p][e]
      BY <2>2, <3>1, <1>0
    <3>3. QED  BY <3>2
  <2>3. QED  BY <2>1, <2>2
<1>4. ASSUME NEW r \in Processors, Crash(r) PROVE Goal
  <2>1. task'[p][e] \in {task[p][e], NoTask}
    BY <1>4, <1>0 DEF Crash
  <2>2. QED  BY <2>1
<1> HIDE DEF Goal
<1>5. QED
  <2>1. ASSUME NEW r \in Processors, LoopStep(r) PROVE Goal
    BY <1>1, <1>2, <2>1 DEF LoopStep, ClaimFails, DrainReturns, BatchSettled
  <2>2. ASSUME NEW r \in Processors,
               RetryDueEvents(r) \/ ReleaseExpiredLocks(r) \/ Restart(r)
                 \/ \E d \in Events : Notified(r, d) \/ LoseNotice(r, d)
        PROVE  Goal
    BY <1>1, <2>2 DEF RetryDueEvents, ReleaseExpiredLocks, Restart, Notified, LoseNotice
  <2>3. ASSUME NEW d \in Events, NEW q \in Queues, StrayAdd(d, q) \/ JobEnds(q, d) PROVE Goal
    BY <1>1, <2>3 DEF StrayAdd, JobEnds
  <2>4. ASSUME Tick \/ UNCHANGED vars \/ \E d \in Events : Commit(d) PROVE Goal
    BY <1>1, <2>4 DEF Tick, vars, Commit
  <2>5. QED  BY <1>3, <1>4, <2>1, <2>2, <2>3, <2>4 DEF Next

LEMMA HandedOverKept ==
    ASSUME DeliveryInv, [Next]_vars, NEW p \in Processors, NEW e \in Events
    PROVE  HandedOver(p, e)'
<1> SUFFICES ASSUME NEW q \in Routes[e],
                    \/ task'[p][e].stage = "adding" /\ q \notin task'[p][e].todo
                    \/ task'[p][e].stage = "marking"
             PROVE  job'[q][e] # "never"
  BY DEF HandedOver
<1>1. TypeOK /\ HandedOver(p, e) /\ q \in Queues
  BY RoutesAssumption DEF DeliveryInv
<1>2. task[p][e] \in Task
  BY <1>1, TaskTypes
<1>3. CASE task'[p][e] = task[p][e]
  BY <1>1, <1>3, JobsStay DEF HandedOver
<1>4. CASE StartRow(p, e)
  <2>1. task'[p][e] = [task[p][e] EXCEPT !.stage = IF Routes[e] = {} THEN "marking" ELSE "adding",
                                         !.todo = Routes[e]]
    BY <1>1, <1>4 DEF StartRow, TypeOK
  <2>2. QED  BY <1>2, <2>1 DEF Task
<1>5. ASSUME NEW r \in Queues, AddResolves(p, e, r) PROVE job'[q][e] # "never"
  <2> DEFINE left == task[p][e].todo \ {r}
  <2>1. task[p][e].stage = "adding" /\ r \in task[p][e].todo /\ job' = Added(job, r, e)
    BY <1>5 DEF AddResolves
  <2>2. task'[p][e] = [task[p][e] EXCEPT !.todo = left,
                                         !.stage = IF left = {} THEN "marking" ELSE "adding"]
    BY <1>1, <1>5 DEF AddResolves, TypeOK
  <2>3. q \notin left
    BY <1>2, <2>2 DEF Task
  <2>4. CASE q = r
    BY <1>1, <2>1, <2>4, AddedJob
  <2>5. CASE q # r
    BY <1>1, <2>1, <2>3, <2>5, JobsStay DEF HandedOver
  <2>6. QED  BY <2>4, <2>5
<1>6. task'[p][e] \notin {NoTask, ClaimedTask(e), FailingTask(task[p][e])}
  <2>1. NoTask.stage = "none" /\ ClaimedTask(e).stage = "claimed"
    BY DEF NoTask, ClaimedTask
  <2>2. FailingTask(task[p][e]).stage = "failing"
    BY <1>2 DEF FailingTask, Task
  <2>3. QED  BY <2>1, <2>2
<1>7. AddRejects(p, e) => task'[p][e] = FailingTask(task[p][e])
  BY <1>1 DEF AddRejects, TypeOK
<1>8. QED  BY <1>1, <1>3, <1>4, <1>5, <1>6, <1>7, TaskUpdates

LEMMA DeliveryStep == ASSUME DeliveryInv, [Next]_vars PROVE DeliveryInv'
<1>1. ASSUME NEW e \in Events, NEW q \in Routes[e], row'[e].status = "published"
      PROVE  job'[q][e] # "never"
  <2>1. TypeOK /\ q \in Queues /\ row[e] \in Row
    BY RoutesAssumption DEF DeliveryInv, TypeOK
  <2>2. CASE row[e].status = "published"
    BY <2>1, <2>2, JobsStay DEF DeliveryInv, PublishedDelivered
  <2>3. CASE \E p \in Processors : task[p][e].stage = "marking"
    BY <2>1, <2>3, JobsStay DEF DeliveryInv, HandedOver
  <2>4. row'[e].status = "published" /\ row[e].status # "published"
          => \E p \in Processors : task[p][e].stage = "marking"
    <3>1. NewRow.status # "published"
            /\ \A p \in Processors : LockedRow(row[e], p).status # "published"
      BY <2>1 DEF NewRow, AbsentRow, LockedRow, Row
    <3>2. \A n : FailedRow(row[e], n).status # "published"
      BY <2>1 DEF FailedRow, Unlocked, Row
    <3>3. row[e].status # "published" =>
            ReleasedRow(row[e]).status # "published" /\ TickedRow(row[e]).status # "published"
      BY <2>1 DEF ReleasedRow, Unlocked, TickedRow, Row
    <3>4. QED  BY <2>1, <3>1, <3>2, <3>3, RowUpdates DEF DeliveryInv
  <2>5. QED  BY <1>1, <2>2, <2>3, <2>4
<1>2. TypeOK'
  BY TypeStep DEF DeliveryInv
<1>3. QED  BY <1>1, <1>2, HandedOverKept DEF DeliveryInv, PublishedDelivered

LEMMA DeliveryHolds == Spec => []DeliveryInv
<1>1. Init => DeliveryInv
  BY InitTypes DEF Init, DeliveryInv, PublishedDelivered, HandedOver, AbsentRow, NoTask
<1>2. QED  BY <1>1, DeliveryStep, PTL DEF Spec

\* A published event's job was handed to every queue the event is routed to,
\* for any number of processors, failures, crashes and late marks.
THEOREM Delivered == Spec => []PublishedDelivered
<1>1. DeliveryInv => PublishedDelivered
  BY DEF DeliveryInv
<1>2. QED  BY <1>1, DeliveryHolds, PTL

-----------------------------------------------------------------------------
(* Mutual exclusion and exact counting while no call outlasts its lease. *)

\* What a row looks like after each update.
LEMMA RowEffects ==
    ASSUME NEW r \in Row, NEW n \in Nat, NEW p \in Processors
    PROVE  /\ NewRow.status = "pending" /\ NewRow.attempts = 0
           /\ LockedRow(r, p).status = "locked" /\ LockedRow(r, p).lockedBy = p
           /\ LockedRow(r, p).leaseLeft = LockDuration
           /\ LockedRow(r, p).attempts = r.attempts
           /\ PublishedRow(r).status = "published" /\ PublishedRow(r).attempts = r.attempts
           /\ FailedRow(r, n).status = IF n + 1 >= MaxAttempts THEN "failed" ELSE "pending"
           /\ FailedRow(r, n).attempts = r.attempts + 1
           /\ IF LockExpired(r)
              THEN ReleasedRow(r).status = "pending" /\ ReleasedRow(r).attempts = r.attempts
              ELSE ReleasedRow(r) = r
           /\ TickedRow(r).status = r.status /\ TickedRow(r).attempts = r.attempts
           /\ TickedRow(r).lockedBy = r.lockedBy
           /\ r.leaseLeft > 0 => TickedRow(r).leaseLeft # Expired
<1> USE DEF Row
<1>1. NewRow.status = "pending" /\ NewRow.attempts = 0
  BY DEF NewRow, AbsentRow
<1>2. /\ LockedRow(r, p).status = "locked" /\ LockedRow(r, p).lockedBy = p
      /\ LockedRow(r, p).leaseLeft = LockDuration
      /\ LockedRow(r, p).attempts = r.attempts
  BY DEF LockedRow
<1>3. PublishedRow(r).status = "published" /\ PublishedRow(r).attempts = r.attempts
  BY DEF PublishedRow, Unlocked
<1>4. /\ FailedRow(r, n).status = IF n + 1 >= MaxAttempts THEN "failed" ELSE "pending"
      /\ FailedRow(r, n).attempts = r.attempts + 1
  BY DEF FailedRow, Unlocked
<1>5. IF LockExpired(r)
      THEN ReleasedRow(r).status = "pending" /\ ReleasedRow(r).attempts = r.attempts
      ELSE ReleasedRow(r) = r
  BY DEF ReleasedRow, Unlocked
<1>6. /\ TickedRow(r).status = r.status /\ TickedRow(r).attempts = r.attempts
      /\ TickedRow(r).lockedBy = r.lockedBy
      /\ r.leaseLeft > 0 => TickedRow(r).leaseLeft # Expired
  BY DEF TickedRow, Expired
<1>7. QED  BY <1>1, <1>2, <1>3, <1>4, <1>5, <1>6

\* The owner invariant, said of one call.
LEMMA Owner ==
    ASSUME OwnerInv, NEW p \in Processors, NEW e \in Events
    PROVE  /\ row[e] \in Row /\ task[p][e] \in Task
           /\ Busy(p, e) =>
                /\ task[p][e].snap = row[e].attempts /\ row[e].attempts < MaxAttempts
                /\ \/ row[e].status = "locked" /\ row[e].lockedBy = p /\ ~LockExpired(row[e])
                   \/ row[e].status = "published" /\ task[p][e].stage = "failing"
                /\ \A p2 \in Processors : Busy(p2, e) => p2 = p
<1>1. TypeOK /\ Findable(row[e]) /\ (Busy(p, e) => Holds(p, e))
  BY DEF OwnerInv, NothingStranded
<1>2. row[e].lockedBy = p => row[e].status = "locked"
  BY <1>1, NobodyAssumption DEF Findable
<1>3. QED  BY <1>1, <1>2, TaskTypes DEF OwnerInv, Holds, LockExpired, OneWorkerPerEvent

LEMMA HoldsKept ==
    ASSUME Timely, OwnerInv, [Next]_vars, NEW p \in Processors, NEW e \in Events, Busy(p, e)'
    PROVE  Holds(p, e)' /\ (Busy(p, e) \/ (IsDue(row[e]) /\ row'[e].lockedBy = p))
<1>1. TypeOK /\ row[e] \in Row /\ task[p][e] \in Task /\ row \in [Events -> Row]
        /\ task \in [Processors -> [Events -> Task]]
  BY Owner DEF OwnerInv, TypeOK
<1>2. NoTask.stage = "none" /\ FailingTask(task[p][e]).stage = "failing"
        /\ FailingTask(task[p][e]).snap = task[p][e].snap
  BY <1>1 DEF NoTask, FailingTask, Task
<1>11. Busy(p, e) => Holds(p, e)
  BY DEF OwnerInv
<1>3. CASE task'[p][e] = task[p][e]
  <2>1. Busy(p, e)
    BY <1>3 DEF Busy
  <2>2. CASE row'[e] = row[e]
    BY <1>3, <1>11, <2>1, <2>2 DEF Holds
  <2>3. ~(row[e].status = "absent") /\ ~IsDue(row[e])
    BY <2>1, Owner DEF IsDue
  <2>4. ASSUME NEW p2 \in Processors, task[p2][e].stage \in {"marking", "failing"},
               task'[p2][e] \in {NoTask, FailingTask(task[p2][e])},
               task[p2][e].stage = "failing" => task'[p2][e] = NoTask
        PROVE  FALSE
    <3>1. p2 = p
      BY <2>1, <2>4, Owner DEF Busy
    <3>2. QED  BY <1>2, <1>3, <2>4, <3>1
  <2>5. CASE row'[e] = ReleasedRow(row[e])
    BY <1>1, <2>1, <2>2, <2>5, Owner, RowEffects, 0 \in Nat DEF LockExpired
  <2>6. CASE Tick /\ row'[e] = TickedRow(row[e])
    <3>1. row[e].lockedBy = p => row[e].leaseLeft > 0
      BY <2>1, <2>6 DEF Tick, LeasesOutlastWork
    <3>2. /\ row'[e].status = row[e].status /\ row'[e].attempts = row[e].attempts
          /\ row'[e].lockedBy = row[e].lockedBy
          /\ row[e].leaseLeft > 0 => row'[e].leaseLeft # Expired
      BY <1>1, <2>6, RowEffects, 0 \in Nat
    <3>3. QED  BY <1>3, <1>11, <2>1, <3>1, <3>2 DEF Holds
  <2>7. QED  BY <1>1, <2>2, <2>3, <2>4, <2>5, <2>6, RowUpdates
<1>4. CASE task'[p][e] = ClaimedTask(e) /\ IsDue(row[e]) /\ row'[e] = LockedRow(row[e], p)
  <2>1. row'[e].lockedBy = p /\ row'[e].leaseLeft = LockDuration
          /\ row'[e].attempts = row[e].attempts
    BY <1>1, <1>4 DEF LockedRow, Row
  <2>2. row[e].attempts < MaxAttempts
    BY <1>4 DEF OwnerInv, AttemptsExact, IsDue
  <2>3. QED  BY <1>4, <2>1, <2>2, TimesAssumption DEF Holds, ClaimedTask, Expired
<1>5. ASSUME UNCHANGED row, task[p][e].stage \in {"claimed", "adding"},
             task'[p][e].snap = task[p][e].snap
      PROVE  Holds(p, e)' /\ Busy(p, e)
  <2>1. Busy(p, e) /\ task[p][e].stage # "failing"
    BY <1>5 DEF Busy
  <2>2. QED  BY <1>5, <1>11, <2>1 DEF Holds
<1>6. CASE StartRow(p, e)
  <2>1. task'[p][e].snap = task[p][e].snap
    BY <1>1, <1>6 DEF StartRow, Task
  <2>2. QED  BY <1>5, <1>6, <2>1 DEF StartRow
<1>7. ASSUME NEW q \in Queues, AddResolves(p, e, q)
      PROVE  Holds(p, e)' /\ Busy(p, e)
  <2>1. task'[p][e].snap = task[p][e].snap
    BY <1>1, <1>7 DEF AddResolves, Task
  <2>2. QED  BY <1>5, <1>7, <2>1 DEF AddResolves
<1>8. CASE AddRejects(p, e)
  <2>1. task'[p][e].snap = task[p][e].snap
    BY <1>1, <1>2, <1>8 DEF AddRejects
  <2>2. QED  BY <1>5, <1>8, <2>1 DEF AddRejects
<1>9. CASE MarkPublishedFails(p, e) /\ task'[p][e] = FailingTask(task[p][e])
  <2>1. Busy(p, e)
    BY <1>9 DEF MarkPublishedFails, Busy
  <2>2. row'[e] = row[e] \/ row'[e] = PublishedRow(row[e])
    BY <1>1, <1>9 DEF MarkPublishedFails
  <2>3. PublishedRow(row[e]).status = "published"
          /\ PublishedRow(row[e]).attempts = row[e].attempts
    BY <1>1, RowEffects, 0 \in Nat
  <2>4. task[p][e].stage = "marking"
    BY <1>9 DEF MarkPublishedFails
  <2>5. QED  BY <1>2, <1>9, <1>11, <2>1, <2>2, <2>3, <2>4 DEF Holds
<1>10. QED
  BY <1>1, <1>2, <1>3, <1>4, <1>6, <1>7, <1>8, <1>9, TaskUpdates DEF Busy

LEMMA OwnerStep == ASSUME Timely, OwnerInv, [Next]_vars PROVE OwnerInv'
<1>1. TypeOK' /\ NothingStranded'
  BY TypeStep, FindabilityStep DEF OwnerInv
<1>2. ASSUME NEW p \in Processors, NEW e \in Events, Busy(p, e)' PROVE Holds(p, e)'
  BY <1>2, HoldsKept
<1>3. ASSUME NEW e \in Events, NEW p1 \in Processors, NEW p2 \in Processors,
             Busy(p1, e)', Busy(p2, e)'
      PROVE  p1 = p2
  <2>1. /\ Busy(p1, e) \/ (IsDue(row[e]) /\ row'[e].lockedBy = p1)
        /\ Busy(p2, e) \/ (IsDue(row[e]) /\ row'[e].lockedBy = p2)
    BY <1>3, HoldsKept
  <2>2. \A p \in Processors : Busy(p, e) => ~IsDue(row[e])
    BY Owner DEF IsDue
  <2>3. QED  BY <2>1, <2>2 DEF OwnerInv, OneWorkerPerEvent
<1>4. ASSUME NEW e \in Events
      PROVE  /\ row'[e].attempts <= MaxAttempts
             /\ row'[e].status = "failed" => row'[e].attempts = MaxAttempts
             /\ row'[e].status \in {"pending", "locked"} => row'[e].attempts < MaxAttempts
  <2> DEFINE Exact(r) == /\ r.attempts <= MaxAttempts
                         /\ r.status = "failed" => r.attempts = MaxAttempts
                         /\ r.status \in {"pending", "locked"} => r.attempts < MaxAttempts
  <2>1. row[e] \in Row /\ Exact(row[e]) /\ row[e].attempts \in Nat
    BY DEF OwnerInv, AttemptsExact, TypeOK, Row
  <2>2. Exact(NewRow)
    BY AttemptsAssumption DEF NewRow, AbsentRow
  <2>3. ASSUME NEW p \in Processors, IsDue(row[e]) PROVE Exact(LockedRow(row[e], p))
    BY <2>1, <2>3 DEF LockedRow, IsDue, Row
  <2>4. Exact(PublishedRow(row[e]))
    BY <2>1, AttemptsAssumption DEF PublishedRow, Unlocked, Row
  <2>5. ASSUME NEW p \in Processors, task[p][e].stage = "failing"
        PROVE  Exact(FailedRow(row[e], task[p][e].snap))
    <3>1. task[p][e].snap = row[e].attempts /\ row[e].attempts < MaxAttempts
      BY <2>5, Owner DEF Busy
    <3>2. QED  BY <2>1, <3>1, AttemptsAssumption DEF FailedRow, Unlocked, Row
  <2>6. Exact(ReleasedRow(row[e]))
    BY <2>1 DEF ReleasedRow, LockExpired, Unlocked, Row
  <2>7. Exact(TickedRow(row[e]))
    BY <2>1 DEF TickedRow, Row
  <2> HIDE DEF Exact
  <2>8. Exact(row'[e])
    BY <2>1, <2>2, <2>3, <2>4, <2>5, <2>6, <2>7, RowUpdates DEF OwnerInv
  <2>9. QED  BY <2>8 DEF Exact
<1>5. QED
  BY <1>1, <1>2, <1>3, <1>4 DEF OwnerInv, OneWorkerPerEvent, AttemptsExact

LEMMA OwnerHolds == ASSUME Timely PROVE Spec => []OwnerInv
<1>1. Init => NothingStranded
  BY DEF Init, NothingStranded, Findable, AbsentRow
<1>2. Init => OwnerInv
  BY <1>1, InitTypes, AttemptsAssumption
     DEF Init, OwnerInv, OneWorkerPerEvent, AttemptsExact, Busy, AbsentRow, NoTask
<1>3. OwnerInv /\ [Next]_vars => OwnerInv'
  BY OwnerStep
<1>4. QED  BY <1>2, <1>3, PTL DEF Spec

\* While no call outlasts its lease, two processors never work on one event,
\* though locks are released by a cron job of any processor and no mark ever
\* looks at who holds the row.
THEOREM Exclusion == ASSUME Timely PROVE Spec => []OneWorkerPerEvent
<1>1. OwnerInv => OneWorkerPerEvent
  BY DEF OwnerInv
<1>2. QED  BY <1>1, OwnerHolds, PTL

\* While no call outlasts its lease, an event is dead-lettered at exactly its
\* MaxAttempts-th recorded failure.
THEOREM Counting == ASSUME Timely PROVE Spec => []AttemptsExact
<1>1. OwnerInv => AttemptsExact
  BY DEF OwnerInv
<1>2. QED  BY <1>1, OwnerHolds, PTL

\* While no call outlasts its lease, a live lease is ended by its holder only.
THEOREM Leases == ASSUME Timely PROVE Spec => LeaseRespected
<1>1. ASSUME OwnerInv, [Next]_vars, NEW e \in Events, row[e].status = "locked",
             row[e].leaseLeft # Expired, row'[e].lockedBy # row[e].lockedBy
      PROVE  /\ task[row[e].lockedBy][e].stage \in {"marking", "failing"}
             /\ task'[row[e].lockedBy][e] # task[row[e].lockedBy][e]
  <2>0. TypeOK
    BY <1>1 DEF OwnerInv
  <2>1. TypeOK /\ row[e] \in Row
    BY <2>0 DEF TypeOK
  <2>2. ReleasedRow(row[e]) = row[e]
    BY <1>1 DEF ReleasedRow, LockExpired
  <2>3. TickedRow(row[e]).lockedBy = row[e].lockedBy
    BY <2>1 DEF TickedRow, Row
  <2>4. PICK p \in Processors :
          /\ task[p][e].stage \in {"marking", "failing"}
          /\ task'[p][e] \in {NoTask, FailingTask(task[p][e])}
          /\ task[p][e].stage = "failing" => task'[p][e] = NoTask
    BY <1>1, <2>1, <2>2, <2>3, RowUpdates DEF IsDue
  <2>5. p = row[e].lockedBy
    BY <1>1, <2>4, Owner DEF Busy
  <2>6. task'[p][e] # task[p][e]
    <3>1. NoTask.stage = "none"
      BY DEF NoTask
    <3>2. FailingTask(task[p][e]).stage = "failing"
      BY <1>1, Owner DEF FailingTask, Task
    <3>3. QED  BY <2>4, <3>1, <3>2
  <2>7. QED  BY <2>4, <2>5, <2>6
<1>2. OwnerInv /\ [Next]_vars =>
        [\A e \in Events : LET p == row[e].lockedBy IN
           (row[e].status = "locked" /\ row[e].leaseLeft # Expired /\ row'[e].lockedBy # p)
             => task[p][e].stage \in {"marking", "failing"} /\ task'[p][e] # task[p][e]]_vars
  BY <1>1
<1>3. QED  BY <1>2, OwnerHolds, PTL DEF Spec, LeaseRespected

\* While no call outlasts its lease, a dead letter stays one.
THEOREM DeadLetters == ASSUME Timely PROVE Spec => DeadLetterFinal
<1>1. ASSUME OwnerInv, [Next]_vars, NEW e \in Events, row[e].status = "failed"
      PROVE  row'[e].status = "failed"
  <2>0. TypeOK
    BY <1>1 DEF OwnerInv
  <2>1. TypeOK /\ row[e] \in Row
    BY <2>0 DEF TypeOK
  <2>2. ReleasedRow(row[e]) = row[e]
    BY <1>1 DEF ReleasedRow, LockExpired
  <2>3. TickedRow(row[e]).status = "failed"
    BY <1>1, <2>1 DEF TickedRow, Row
  <2>4. \A p \in Processors : task[p][e].stage \notin {"marking", "failing"}
    BY <1>1, Owner DEF Busy
  <2>5. QED  BY <1>1, <2>1, <2>2, <2>3, <2>4, RowUpdates DEF IsDue
<1>2. OwnerInv /\ [Next]_vars =>
        [\A e \in Events : row[e].status = "failed" => row'[e].status = "failed"]_vars
  BY <1>1
<1>3. QED  BY <1>2, OwnerHolds, PTL DEF Spec, DeadLetterFinal

-----------------------------------------------------------------------------
(* Wake-ups, as long as nothing fails and no call outlasts its lease. *)

\* A row that was never claimed to be marked is due from the start.
FreshDue ==
    \A e \in Events :
        row[e].status \in {"pending", "locked"} /\ row[e].attempts = 0 => row[e].dueIn = 0

Worked(e) == \E p \in Processors : Busy(p, e)

\* Every processor runs, and every locked row is being worked on.
Undisturbed ==
    /\ \A p \in Processors : mode[p] # "down"
    /\ \A e \in Events : row[e].status = "locked" => Worked(e)

QuietInv == OwnerInv /\ FreshDue /\ (faults = 0 => Undisturbed) /\ WakeupKept

Fresh(e) == row[e].status = "pending" /\ row[e].attempts = 0

Known(p, e) ==
    \/ <<p, e>> \in notices
    \/ mode[p] \in {"draining", "working"}
    \/ mode[p] = "empty" /\ again[p]

\* The steps that are left when nothing fails.
LEMMA NoFault ==
    ASSUME TypeOK, [Next]_vars, faults' = 0
    PROVE  /\ faults = 0
           /\ \/ \E e \in Events : Commit(e)
              \/ \E p \in Processors :
                   \/ RetryDueEvents(p) \/ ReleaseExpiredLocks(p) \/ Restart(p)
                   \/ ClaimBatch(p) \/ DrainReturns(p) \/ BatchSettled(p)
                   \/ \E e \in Events :
                        \/ Notified(p, e) \/ StartRow(p, e) \/ AddRejects(p, e)
                        \/ MarkPublished(p, e) \/ MarkFailed(p, e)
                        \/ \E q \in Queues : AddResolves(p, e, q)
              \/ \E e \in Events, q \in Queues : StrayAdd(e, q) \/ JobEnds(q, e)
              \/ Tick \/ UNCHANGED vars
<1>1. ~Fault
  BY AttemptsAssumption DEF Fault, TypeOK
<1>2. /\ \A p \in Processors : ~ClaimFails(p) /\ ~Crash(p)
      /\ \A p \in Processors, e \in Events :
           ~LoseNotice(p, e) /\ ~MarkPublishedFails(p, e) /\ ~MarkFailedFails(p, e)
  BY <1>1 DEF ClaimFails, Crash, LoseNotice, MarkPublishedFails, MarkFailedFails
<1>3. ASSUME NEW p \in Processors,
             \/ RetryDueEvents(p) \/ ReleaseExpiredLocks(p) \/ Restart(p)
             \/ ClaimBatch(p) \/ DrainReturns(p) \/ BatchSettled(p)
             \/ \E e \in Events :
                  \/ Notified(p, e) \/ StartRow(p, e) \/ AddRejects(p, e)
                  \/ MarkPublished(p, e) \/ MarkFailed(p, e)
                  \/ \E q \in Queues : AddResolves(p, e, q)
      PROVE  faults = 0
  BY <1>3 DEF RetryDueEvents, ReleaseExpiredLocks, Restart, ClaimBatch, DrainReturns,
     BatchSettled, Notified, StartRow, AddRejects, MarkPublished, MarkFailed, AddResolves
<1>4. ASSUME \/ \E e \in Events : Commit(e)
             \/ \E e \in Events, q \in Queues : StrayAdd(e, q) \/ JobEnds(q, e)
             \/ Tick \/ UNCHANGED vars
      PROVE  faults = 0
  BY <1>4 DEF Commit, StrayAdd, JobEnds, Tick, vars
<1>5. QED  BY <1>2, <1>3, <1>4 DEF Next, LoopStep, RowStep

LEMMA FreshDueStep == ASSUME OwnerInv, FreshDue, [Next]_vars PROVE FreshDue'
<1> SUFFICES ASSUME NEW e \in Events, row'[e].status \in {"pending", "locked"},
                    row'[e].attempts = 0
             PROVE  row'[e].dueIn = 0
  BY DEF FreshDue
<1>1. TypeOK /\ row[e] \in Row
  BY Owner DEF OwnerInv, TypeOK
<1>2. CASE row'[e] = row[e]
  BY <1>2 DEF FreshDue
<1>3. CASE row'[e] = NewRow
  BY <1>3 DEF NewRow, AbsentRow
<1>4. CASE IsDue(row[e]) /\ \E p \in Processors : row'[e] = LockedRow(row[e], p)
  BY <1>1, <1>4 DEF IsDue, LockedRow, Row
<1>5. CASE row'[e] = PublishedRow(row[e])
  BY <1>1, <1>5 DEF PublishedRow, Unlocked, Row
<1>6. ASSUME NEW p \in Processors, row'[e] = FailedRow(row[e], task[p][e].snap) PROVE FALSE
  <2>1. row'[e].attempts = row[e].attempts + 1
    BY <1>1, <1>6 DEF FailedRow, Unlocked, Row
  <2>2. QED  BY <1>1, <2>1 DEF Row
<1>7. CASE row'[e] = ReleasedRow(row[e])
  BY <1>1, <1>7 DEF ReleasedRow, LockExpired, Unlocked, Row, FreshDue
<1>8. CASE row'[e] = TickedRow(row[e])
  BY <1>1, <1>8 DEF TickedRow, Row, FreshDue
<1>9. QED  BY <1>1, <1>2, <1>3, <1>4, <1>5, <1>6, <1>7, <1>8, RowUpdates

\* Without faults no lock is released: each is being worked on.
LEMMA NothingReleased ==
    ASSUME OwnerInv, Undisturbed, NEW e \in Events
    PROVE  ReleasedRow(row[e]) = row[e]
BY Owner DEF Undisturbed, Worked, ReleasedRow, LockExpired

\* An event waits unclaimed because it did before, or because it was committed.
LEMMA WaitsUnclaimed ==
    ASSUME QuietInv, [Next]_vars, faults' = 0, NEW e \in Events,
           row'[e].status = "absent" \/ row'[e].attempts = 0
    PROVE  /\ row[e].status = "absent" \/ row[e].attempts = 0
           /\ row'[e].status \in {"absent", "pending"} => row[e].status \in {"absent", "pending"}
<1>1. TypeOK /\ row[e] \in Row /\ faults = 0 /\ Undisturbed
  BY Owner, NoFault DEF QuietInv, OwnerInv, TypeOK
<1>2. /\ \A p \in Processors : LockedRow(row[e], p).status = "locked"
                               /\ LockedRow(row[e], p).attempts = row[e].attempts
      /\ PublishedRow(row[e]).status = "published"
      /\ PublishedRow(row[e]).attempts = row[e].attempts
      /\ TickedRow(row[e]).status = row[e].status
      /\ TickedRow(row[e]).attempts = row[e].attempts
  BY <1>1 DEF LockedRow, PublishedRow, Unlocked, TickedRow, Row
<1>3. \A n : /\ FailedRow(row[e], n).attempts = row[e].attempts + 1
             /\ FailedRow(row[e], n).status \in {"failed", "pending"}
  BY <1>1 DEF FailedRow, Unlocked, Row
<1>4. \A n : FailedRow(row[e], n).attempts # 0 /\ FailedRow(row[e], n).status # "absent"
  BY <1>1, <1>3 DEF Row
<1>5. ReleasedRow(row[e]) = row[e]
  BY <1>1, NothingReleased DEF QuietInv
<1>6. QED  BY <1>1, <1>2, <1>4, <1>5, RowUpdates

\* A trigger, at whatever time, makes the loop claim again.
LEMMA TriggerWakes ==
    ASSUME TypeOK, NEW r \in Processors, mode[r] # "down", Trigger(r),
           NEW p \in Processors, NEW e \in Events
    PROVE  /\ p = r => (mode'[p] \in {"draining", "working"} \/ (mode'[p] = "empty" /\ again'[p]))
           /\ p # r => mode'[p] = mode[p] /\ again'[p] = again[p]
BY DEF Trigger, TypeOK, Modes

LEMMA WakeupStep ==
    ASSUME QuietInv, [Next]_vars, faults' = 0, NEW e \in Events, NEW p \in Processors,
           Fresh(e)'
    PROVE  Known(p, e)'
<1> USE DEF QuietInv
<1>1. TypeOK /\ faults = 0 /\ Undisturbed /\ mode[p] # "down"
  BY NoFault DEF OwnerInv, Undisturbed
<1>2. row[e].status \in {"absent", "pending"}
        /\ (row[e].status = "absent" \/ row[e].attempts = 0)
  BY WaitsUnclaimed DEF Fresh
<1>3. CASE row[e].status = "absent"
  <2>1. Commit(e)
    <3>1. ASSUME NEW d \in Events, Commit(d) PROVE Commit(e)
      BY <1>1, <1>3, <3>1 DEF Commit, Fresh, TypeOK
    <3>2. ASSUME NEW r \in Processors, ClaimBatch(r) PROVE FALSE
      <4>1. PICK S \in Batches : row' = Locked(S, r)
        BY <3>2 DEF ClaimBatch
      <4>2. e \notin S
        BY <1>3, <4>1 DEF Batches, IsDue
      <4>3. QED  BY <1>3, <4>1, <4>2 DEF Locked, Fresh
    <3>3. ASSUME NEW r \in Processors, NEW d \in Events, MarkPublished(r, d) PROVE FALSE
      <4>1. row'[e] \in {row[e], PublishedRow(row[e])}
        BY <1>1, <3>3 DEF MarkPublished, TypeOK
      <4>2. PublishedRow(row[e]).status = "published"
        BY <1>1, RowEffects, 0 \in Nat DEF TypeOK
      <4>3. QED  BY <1>3, <4>1, <4>2 DEF Fresh
    <3>4. ASSUME NEW r \in Processors, NEW d \in Events, MarkFailed(r, d) PROVE FALSE
      <4>1. row'[e] = row[e] \/ (d = e /\ task[r][e].stage = "failing")
        BY <1>1, <3>4 DEF MarkFailed, TypeOK
      <4>2. QED  BY <1>3, <4>1, Owner DEF Fresh, Busy
    <3>5. ASSUME NEW r \in Processors, ReleaseExpiredLocks(r) PROVE FALSE
      BY <1>1, <1>3, <3>5, NothingReleased DEF ReleaseExpiredLocks, Fresh
    <3>6. ASSUME Tick PROVE FALSE
      <4>1. TickedRow(row[e]).status = row[e].status
        BY <1>1, RowEffects, 0 \in Nat DEF TypeOK
      <4>2. QED  BY <1>3, <3>6, <4>1 DEF Tick, Fresh
    <3>7. row' # row
      BY <1>3 DEF Fresh
    <3>8. ASSUME NEW r \in Processors,
                 \/ RetryDueEvents(r) \/ Restart(r) \/ DrainReturns(r) \/ BatchSettled(r)
                 \/ \E d \in Events :
                      \/ Notified(r, d) \/ StartRow(r, d) \/ AddRejects(r, d)
                      \/ \E q \in Queues : AddResolves(r, d, q)
          PROVE  FALSE
      BY <3>7, <3>8 DEF RetryDueEvents, Restart, DrainReturns, BatchSettled, Notified,
         StartRow, AddRejects, AddResolves
    <3>9. ASSUME (\E d \in Events, q \in Queues : StrayAdd(d, q) \/ JobEnds(q, d))
                 \/ UNCHANGED vars
          PROVE  FALSE
      BY <3>7, <3>9 DEF StrayAdd, JobEnds, vars
    <3>10. QED
      BY <1>1, <3>1, <3>2, <3>3, <3>4, <3>5, <3>6, <3>8, <3>9, NoFault
  <2>2. QED  BY <1>1, <2>1 DEF Commit, Known
<1>4. CASE Fresh(e)
  <2>1. Known(p, e)
    BY <1>1, <1>4 DEF WakeupKept, Known, Fresh
  <2>2. ASSUME notices \subseteq notices', UNCHANGED <<mode, again>> PROVE Known(p, e)'
    BY <2>1, <2>2 DEF Known
  <2>3. ASSUME NEW r \in Processors, NEW d \in Events, Notified(r, d) PROVE Known(p, e)'
    <3>1. p # r => <<p, e>> # <<r, d>>
      OBVIOUS
    <3>2. CASE mode[r] # "down"
      BY <1>1, <2>1, <2>3, <3>1, <3>2, TriggerWakes DEF Notified, Known
    <3>3. QED  BY <1>1, <3>2 DEF Undisturbed
  <2>4. ASSUME NEW r \in Processors, RetryDueEvents(r) PROVE Known(p, e)'
    BY <1>1, <2>1, <2>4, TriggerWakes DEF RetryDueEvents, Known
  <2>5. ASSUME NEW r \in Processors, ClaimBatch(r) PROVE Known(p, e)'
    <3>1. PICK S \in Batches :
            mode' = [mode EXCEPT ![r] = IF S = {} THEN "empty" ELSE "working"]
      BY <2>5 DEF ClaimBatch
    <3>2. IsDue(row[e])
      BY <1>4 DEF Fresh, FreshDue, IsDue
    <3>3. S # {}
      <4>1. Cardinality({}) = 0
        BY FS_EmptySet
      <4>2. QED  BY <3>2, <4>1, SizesAssumption DEF Batches
    <3>4. mode'[p] = IF p = r THEN "working" ELSE mode[p]
      BY <1>1, <3>1, <3>3 DEF TypeOK
    <3>5. QED  BY <2>1, <2>5, <3>4 DEF ClaimBatch, Known
  <2>6. ASSUME NEW r \in Processors, DrainReturns(r) PROVE Known(p, e)'
    BY <1>1, <2>1, <2>6 DEF DrainReturns, Known, TypeOK
  <2>7. ASSUME NEW r \in Processors, BatchSettled(r) PROVE Known(p, e)'
    BY <1>1, <2>1, <2>7 DEF BatchSettled, Known, TypeOK
  <2>8. ASSUME NEW r \in Processors, Restart(r) PROVE FALSE
    BY <1>1, <2>8 DEF Restart, Undisturbed
  <2>9. ASSUME NEW r \in Processors, NEW d \in Events,
               \/ ReleaseExpiredLocks(r) \/ StartRow(r, d) \/ AddRejects(r, d)
               \/ MarkPublished(r, d) \/ MarkFailed(r, d)
               \/ \E q \in Queues : AddResolves(r, d, q)
        PROVE  Known(p, e)'
    BY <2>2, <2>9 DEF ReleaseExpiredLocks, StartRow, AddResolves, AddRejects,
       MarkPublished, MarkFailed
  <2>10. ASSUME \/ \E d \in Events : Commit(d)
                \/ \E d \in Events, q \in Queues : StrayAdd(d, q) \/ JobEnds(q, d)
                \/ Tick \/ UNCHANGED vars
         PROVE  Known(p, e)'
    BY <2>2, <2>10 DEF Commit, StrayAdd, JobEnds, Tick, vars
  <2>11. QED
    BY <1>1, <2>3, <2>4, <2>5, <2>6, <2>7, <2>8, <2>9, <2>10, NoFault
<1>5. QED  BY <1>2, <1>3, <1>4 DEF Fresh

LEMMA UndisturbedStep ==
    ASSUME QuietInv, [Next]_vars, faults' = 0
    PROVE  Undisturbed'
<1> USE DEF QuietInv
<1>1. TypeOK /\ faults = 0 /\ Undisturbed
  BY NoFault DEF OwnerInv
<1>2. ASSUME NEW p \in Processors PROVE mode'[p] # "down"
  <2>1. mode[p] # "down" /\ mode \in [Processors -> Modes]
    BY <1>1 DEF Undisturbed, TypeOK
  <2>2. ASSUME NEW r \in Processors, Trigger(r) PROVE mode'[p] # "down"
    BY <2>1, <2>2 DEF Trigger
  <2>3. ASSUME NEW r \in Processors,
               ClaimBatch(r) \/ DrainReturns(r) \/ BatchSettled(r) \/ Restart(r)
        PROVE  mode'[p] # "down"
    BY <2>1, <2>3 DEF ClaimBatch, DrainReturns, BatchSettled, Restart
  <2>4. ASSUME NEW r \in Processors, NEW e \in Events,
               \/ ReleaseExpiredLocks(r) \/ StartRow(r, e) \/ AddRejects(r, e)
               \/ MarkPublished(r, e) \/ MarkFailed(r, e)
               \/ \E q \in Queues : AddResolves(r, e, q)
        PROVE  UNCHANGED mode
    BY <2>4 DEF ReleaseExpiredLocks, StartRow, AddResolves, AddRejects,
       MarkPublished, MarkFailed
  <2>5. ASSUME \/ \E e \in Events : Commit(e)
               \/ \E e \in Events, q \in Queues : StrayAdd(e, q) \/ JobEnds(q, e)
               \/ Tick \/ UNCHANGED vars
        PROVE  UNCHANGED mode
    BY <2>5 DEF Commit, StrayAdd, JobEnds, Tick, vars
  <2>6. ASSUME NEW r \in Processors, NEW e \in Events, RetryDueEvents(r) \/ Notified(r, e)
        PROVE  mode'[p] # "down"
    BY <2>2, <2>6 DEF RetryDueEvents, Notified
  <2>7. ASSUME NEW r \in Processors, RetryDueEvents(r)
        PROVE  mode'[p] # "down"
    BY <2>2, <2>7 DEF RetryDueEvents
  <2>8. ASSUME NEW r \in Processors, ReleaseExpiredLocks(r)
        PROVE  mode'[p] # "down"
    BY <2>1, <2>8 DEF ReleaseExpiredLocks
  <2>9. QED  BY <1>1, <2>1, <2>3, <2>4, <2>5, <2>6, <2>7, <2>8, NoFault
<1>3. ASSUME NEW e \in Events, row'[e].status = "locked"
      PROVE  Worked(e)'
  <2>0. row[e] \in Row /\ task \in [Processors -> [Events -> Task]] /\ row \in [Events -> Row]
    BY <1>1 DEF TypeOK
  <2>1. ASSUME row[e].status = "locked", \A p \in Processors : Busy(p, e) => Busy(p, e)'
        PROVE  Worked(e)'
    BY <1>1, <2>1 DEF Undisturbed, Worked
  <2>2. ASSUME UNCHANGED task, row'[e].status = row[e].status PROVE Worked(e)'
    BY <1>3, <2>1, <2>2 DEF Busy
  <2>3. ASSUME NEW d \in Events, Commit(d) PROVE Worked(e)'
    <3>1. row'[e] \in {row[e], NewRow}
      BY <2>0, <2>3 DEF Commit
    <3>2. NewRow.status = "pending"
      BY DEF NewRow, AbsentRow
    <3>3. QED  BY <1>3, <2>2, <2>3, <3>1, <3>2 DEF Commit
  <2>4. ASSUME NEW r \in Processors, ReleaseExpiredLocks(r) PROVE Worked(e)'
    BY <1>1, <2>2, <2>4, NothingReleased DEF ReleaseExpiredLocks
  <2>5. CASE Tick
    <3>1. TickedRow(row[e]).status = row[e].status
      BY <2>0 DEF TickedRow, Row
    <3>2. QED  BY <2>2, <2>5, <3>1 DEF Tick
  <2>6. ASSUME NEW r \in Processors, ClaimBatch(r) PROVE Worked(e)'
    <3>1. PICK S \in Batches :
            /\ row' = Locked(S, r)
            /\ task' = [task EXCEPT ![r] = [d \in Events |-> IF d \in S THEN ClaimedTask(d) ELSE @[d]]]
      BY <2>6 DEF ClaimBatch
    <3>2. CASE e \in S
      <4>1. task'[r][e] = ClaimedTask(e)
        BY <2>0, <3>1, <3>2
      <4>2. QED  BY <4>1 DEF Worked, Busy, ClaimedTask
    <3>3. CASE e \notin S
      <4>1. row'[e] = row[e] /\ \A p \in Processors : task'[p][e] = task[p][e]
        BY <2>0, <3>1, <3>3 DEF Locked
      <4>2. QED  BY <1>3, <2>1, <4>1 DEF Busy
    <3>4. QED  BY <3>2, <3>3
  <2>7. ASSUME NEW r \in Processors, NEW d \in Events,
               MarkPublished(r, d) \/ MarkFailed(r, d)
        PROVE  Worked(e)'
    <3>1. CASE d = e
      <4>1. row'[e] = PublishedRow(row[e]) \/ row'[e] = FailedRow(row[e], task[r][e].snap)
        BY <2>0, <2>7, <3>1 DEF MarkPublished, MarkFailed
      <4>2. row'[e].status # "locked"
        BY <2>0, <4>1 DEF PublishedRow, FailedRow, Unlocked, Row
      <4>3. QED  BY <1>3, <4>2
    <3>2. CASE d # e
      <4>1. row'[e] = row[e] /\ \A p \in Processors : task'[p][e] = task[p][e]
        BY <2>0, <2>7, <3>2 DEF MarkPublished, MarkFailed
      <4>2. QED  BY <1>3, <2>1, <4>1 DEF Busy
    <3>3. QED  BY <3>1, <3>2
  <2>8. ASSUME NEW r \in Processors, NEW d \in Events,
               StartRow(r, d) \/ AddRejects(r, d) \/ \E q \in Queues : AddResolves(r, d, q)
        PROVE  Worked(e)'
    <3>1. row' = row /\ \E t : task' = [task EXCEPT ![r][d] = t] /\ t.stage # "none"
      <4>1. task[r][d] \in Task
        BY <2>0
      <4>2. FailingTask(task[r][d]).stage = "failing"
        BY <4>1 DEF FailingTask, Task
      <4>3. \A st, td : [task[r][d] EXCEPT !.stage = st, !.todo = td].stage = st
        BY <4>1 DEF Task
      <4>4. \A st, td : [task[r][d] EXCEPT !.todo = td, !.stage = st].stage = st
        BY <4>1 DEF Task
      <4>5. CASE StartRow(r, d)
        <5> DEFINE stage == IF Routes[d] = {} THEN "marking" ELSE "adding"
        <5>1. /\ row' = row
              /\ task' = [task EXCEPT ![r][d] = [task[r][d] EXCEPT !.stage = stage, !.todo = Routes[d]]]
          BY <2>0, <4>5 DEF StartRow
        <5>2. stage # "none"
          OBVIOUS
        <5>3. QED  BY <4>3, <5>1, <5>2
      <4>6. CASE AddRejects(r, d)
        BY <2>0, <4>2, <4>6 DEF AddRejects
      <4>7. ASSUME NEW q \in Queues, AddResolves(r, d, q) PROVE <3>1!1 /\ <3>1!2
        BY <2>0, <4>4, <4>7 DEF AddResolves
      <4>8. QED  BY <2>8, <4>5, <4>6, <4>7
    <3>2. \A p \in Processors : Busy(p, e) => Busy(p, e)'
      BY <2>0, <3>1 DEF Busy
    <3>3. QED  BY <1>3, <2>1, <3>1, <3>2
  <2>9. ASSUME NEW r \in Processors,
               \/ RetryDueEvents(r) \/ Restart(r) \/ DrainReturns(r) \/ BatchSettled(r)
               \/ \E d \in Events : Notified(r, d)
        PROVE  Worked(e)'
    BY <2>2, <2>9 DEF RetryDueEvents, Restart, DrainReturns, BatchSettled, Notified
  <2>10. ASSUME (\E d \in Events, q \in Queues : StrayAdd(d, q) \/ JobEnds(q, d)) \/ UNCHANGED vars
         PROVE  Worked(e)'
    BY <2>2, <2>10 DEF StrayAdd, JobEnds, vars
  <2>11. ASSUME NEW r \in Processors,
                \/ RetryDueEvents(r) \/ ReleaseExpiredLocks(r) \/ Restart(r)
                \/ ClaimBatch(r) \/ DrainReturns(r) \/ BatchSettled(r)
                \/ \E d \in Events :
                     \/ Notified(r, d) \/ StartRow(r, d) \/ AddRejects(r, d)
                     \/ MarkPublished(r, d) \/ MarkFailed(r, d)
                     \/ \E q \in Queues : AddResolves(r, d, q)
         PROVE  Worked(e)'
    BY <2>4, <2>6, <2>7, <2>8, <2>9, <2>11
  <2>12. CASE \E d \in Events : Commit(d)
    BY <2>3, <2>12
  <2>13. CASE \E r \in Processors :
                \/ RetryDueEvents(r) \/ ReleaseExpiredLocks(r) \/ Restart(r)
                \/ ClaimBatch(r) \/ DrainReturns(r) \/ BatchSettled(r)
                \/ \E d \in Events :
                     \/ Notified(r, d) \/ StartRow(r, d) \/ AddRejects(r, d)
                     \/ MarkPublished(r, d) \/ MarkFailed(r, d)
                     \/ \E q \in Queues : AddResolves(r, d, q)
    BY <2>11, <2>13
  <2>14. QED
    BY <1>1, <2>5, <2>10, <2>12, <2>13, NoFault
<1>4. QED  BY <1>2, <1>3 DEF Undisturbed

LEMMA QuietStep == ASSUME Timely, QuietInv, [Next]_vars PROVE QuietInv'
<1>1. OwnerInv' /\ FreshDue'
  BY OwnerStep, FreshDueStep DEF QuietInv
<1>2. ASSUME faults' = 0, NEW e \in Events, NEW p \in Processors, Fresh(e)'
      PROVE  Known(p, e)'
  BY <1>2, WakeupStep
<1>3. WakeupKept'
  BY <1>2 DEF WakeupKept, Fresh, Known
<1>4. QED  BY <1>1, <1>3, UndisturbedStep DEF QuietInv

LEMMA QuietHolds == ASSUME Timely PROVE Spec => []QuietInv
<1>1. ASSUME Init, OwnerInv PROVE QuietInv
  <2>1. \A e \in Events : row[e].status = "absent"
    BY <1>1 DEF Init, AbsentRow
  <2>2. \A p \in Processors : mode[p] # "down"
    BY <1>1 DEF Init
  <2>3. QED  BY <1>1, <2>1, <2>2 DEF QuietInv, FreshDue, Undisturbed, WakeupKept
<1>2. QED  BY <1>1, OwnerHolds, QuietStep, PTL DEF Spec

\* While no call outlasts its lease and nothing fails, no wake-up is lost: not
\* one that comes between an empty claim and the loop's look at it either.
THEOREM Wakeups == ASSUME Timely PROVE Spec => []WakeupKept
<1>1. QuietInv => WakeupKept
  BY DEF QuietInv
<1>2. QED  BY <1>1, QuietHolds, PTL

\* Duplicates, under the same conditions: no command has gone out for an event
\* that waits for its first publication, or to a queue not yet awaited.
Unsent(q, e) == job[q][e] = "never" /\ <<e, q>> \notin stray

Waiting(e) ==
    \/ row[e].status \in {"absent", "pending"}
    \/ \E p \in Processors : task[p][e].stage = "claimed"

Awaited(q, e) ==
    \E p \in Processors : task[p][e].stage = "adding" /\ q \in task[p][e].todo

Once(q, e) ==
    row[e].status = "absent" \/ row[e].attempts = 0 =>
        /\ Waiting(e) \/ Awaited(q, e) => Unsent(q, e)
        /\ <<e, q>> \in stray => job[q][e] = "never"

OnceInv ==
    QuietInv /\ (faults = 0 => \A q \in Queues, e \in Events : Once(q, e))

\* An event waits because it did before; a queue is awaited because it was, or
\* because the event waited.
LEMMA WaitsAsBefore ==
    ASSUME QuietInv, [Next]_vars, faults' = 0, NEW e \in Events, NEW q \in Queues,
           row'[e].status = "absent" \/ row'[e].attempts = 0
    PROVE  /\ Waiting(e)' => Waiting(e)
           /\ Awaited(q, e)' => Waiting(e) \/ Awaited(q, e)
<1>1. OwnerInv /\ TypeOK
  BY DEF QuietInv, OwnerInv
<1>2. ASSUME NEW p \in Processors
      PROVE  /\ task'[p][e].stage = "claimed" => Waiting(e)
             /\ task'[p][e].stage = "adding" /\ q \in task'[p][e].todo
                  => Waiting(e) \/ Awaited(q, e)
  <2>1. task[p][e] \in Task /\ task \in [Processors -> [Events -> Task]]
    BY <1>1, Owner DEF TypeOK
  <2>2. NoTask.stage = "none" /\ FailingTask(task[p][e]).stage = "failing"
    BY <2>1 DEF NoTask, FailingTask, Task
  <2>3. CASE task'[p][e] = task[p][e]
    BY <2>3 DEF Waiting, Awaited
  <2>4. CASE IsDue(row[e]) \/ task[p][e].stage = "claimed"
    BY <2>4 DEF Waiting, IsDue
  <2>5. ASSUME NEW q2 \in Queues, AddResolves(p, e, q2)
        PROVE  /\ task'[p][e].stage # "claimed"
               /\ task[p][e].stage = "adding" /\ task'[p][e].todo \subseteq task[p][e].todo
    <3>1. task'[p][e] = [task[p][e] EXCEPT
                           !.todo = task[p][e].todo \ {q2},
                           !.stage = IF task[p][e].todo \ {q2} = {} THEN "marking" ELSE "adding"]
      BY <2>1, <2>5 DEF AddResolves
    <3>2. QED  BY <2>1, <2>5, <3>1 DEF Task, AddResolves
  <2>6. AddRejects(p, e) => task'[p][e] = FailingTask(task[p][e])
    BY <2>1 DEF AddRejects
  <2>7. QED
    BY <1>1, <2>2, <2>3, <2>4, <2>5, <2>6, TaskUpdates DEF Awaited
<1>3. row'[e].status \in {"absent", "pending"} => row[e].status \in {"absent", "pending"}
  BY WaitsUnclaimed
<1>4. QED  BY <1>2, <1>3 DEF Waiting, Awaited

\* The steps that send a command, or leave one on its way.
LEMMA Sends ==
    ASSUME TypeOK, [Next]_vars, faults' = 0, NEW e \in Events, NEW q \in Queues
    PROVE  \/ job'[q][e] = job[q][e] /\ (<<e, q>> \in stray' => <<e, q>> \in stray)
           \/ job[q][e] = "live" /\ JobEnds(q, e)
           \/ StrayAdd(e, q)
           \/ \E p \in Processors : AddResolves(p, e, q)
           \/ \E p \in Processors : AddRejects(p, e) /\ q \in task[p][e].todo
<1> DEFINE Goal == \/ job'[q][e] = job[q][e] /\ (<<e, q>> \in stray' => <<e, q>> \in stray)
                   \/ job[q][e] = "live" /\ JobEnds(q, e)
                   \/ StrayAdd(e, q)
                   \/ \E p \in Processors : AddResolves(p, e, q)
                   \/ \E p \in Processors : AddRejects(p, e) /\ q \in task[p][e].todo
<1> SUFFICES Goal
  OBVIOUS
<1>0. job \in [Queues -> [Events -> JobStates]]
  BY DEF TypeOK
<1>1. ASSUME UNCHANGED job, stray' \subseteq stray PROVE Goal
  BY <1>1
<1>2. ASSUME NEW d \in Events, NEW k \in Queues, k # q \/ d # e
      PROVE  Added(job, k, d)[q][e] = job[q][e]
  BY <1>0, <1>2 DEF Added
<1>3. ASSUME NEW d \in Events, NEW k \in Queues, StrayAdd(d, k) PROVE Goal
  <2>1. CASE k = q /\ d = e
    BY <1>3, <2>1
  <2>2. CASE k # q \/ d # e
    <3>1. job'[q][e] = job[q][e] /\ stray' \subseteq stray
      BY <1>2, <1>3, <2>2 DEF StrayAdd
    <3>2. QED  BY <3>1
  <2>3. QED  BY <2>1, <2>2
<1>4. ASSUME NEW d \in Events, NEW k \in Queues, JobEnds(k, d) PROVE Goal
  <2>1. CASE k = q /\ d = e
    BY <1>4, <2>1 DEF JobEnds
  <2>2. CASE k # q \/ d # e
    <3>1. job'[q][e] = job[q][e] /\ stray' = stray
      BY <1>0, <1>4, <2>2 DEF JobEnds
    <3>2. QED  BY <3>1
  <2>3. QED  BY <2>1, <2>2
<1>5. ASSUME NEW p \in Processors, NEW d \in Events, NEW k \in Queues, AddResolves(p, d, k)
      PROVE  Goal
  <2>1. CASE k = q /\ d = e
    BY <1>5, <2>1
  <2>2. CASE k # q \/ d # e
    <3>1. job'[q][e] = job[q][e] /\ stray' = stray
      BY <1>2, <1>5, <2>2 DEF AddResolves
    <3>2. QED  BY <3>1
  <2>3. QED  BY <2>1, <2>2
<1>6. ASSUME NEW p \in Processors, NEW d \in Events, AddRejects(p, d) PROVE Goal
  <2>1. job' = job /\ stray' = stray \cup ({d} \X task[p][d].todo)
    BY <1>6 DEF AddRejects
  <2>2. CASE d = e /\ q \in task[p][e].todo
    BY <1>6, <2>2
  <2>3. CASE ~(d = e /\ q \in task[p][e].todo)
    BY <2>1, <2>3
  <2>4. QED  BY <2>2, <2>3
<1>7. ASSUME NEW p \in Processors,
             \/ RetryDueEvents(p) \/ ReleaseExpiredLocks(p) \/ Restart(p)
             \/ ClaimBatch(p) \/ DrainReturns(p) \/ BatchSettled(p)
             \/ \E d \in Events :
                  \/ Notified(p, d) \/ StartRow(p, d)
                  \/ MarkPublished(p, d) \/ MarkFailed(p, d)
      PROVE  Goal
  BY <1>1, <1>7 DEF RetryDueEvents, ReleaseExpiredLocks, Restart, ClaimBatch, DrainReturns,
     BatchSettled, Notified, StartRow, MarkPublished, MarkFailed
<1>8. ASSUME (\E d \in Events : Commit(d)) \/ Tick \/ UNCHANGED vars PROVE Goal
  BY <1>1, <1>8 DEF Commit, Tick, vars
<1> HIDE DEF Goal
<1>9. QED  BY <1>3, <1>4, <1>5, <1>6, <1>7, <1>8, NoFault

\* After p has sent or failed to send, no other call of e is left to send.
LEMMA LastToSend ==
    ASSUME QuietInv, [Next]_vars, faults' = 0, NEW p \in Processors, NEW e \in Events,
           NEW q \in Queues,
           AddResolves(p, e, q) \/ (AddRejects(p, e) /\ q \in task[p][e].todo)
    PROVE  Awaited(q, e) /\ ~Waiting(e)' /\ ~Awaited(q, e)'
<1>1. OwnerInv /\ TypeOK /\ task \in [Processors -> [Events -> Task]]
  BY DEF QuietInv, OwnerInv, TypeOK
<1>2. task[p][e].stage = "adding" /\ q \in task[p][e].todo /\ row' = row
  BY DEF AddResolves, AddRejects
<1>3. row[e].status = "locked" /\ \A r \in Processors : Busy(r, e) => r = p
  BY <1>1, <1>2, Owner DEF Busy
<1>4. \A r \in Processors : r # p => task'[r][e] = task[r][e]
  BY <1>1 DEF AddResolves, AddRejects
<1>5. task'[p][e].stage # "claimed" /\ q \notin task'[p][e].todo
  <2>1. task[p][e] \in Task
    BY <1>1
  <2>2. CASE AddResolves(p, e, q)
    <3>1. task'[p][e] = [task[p][e] EXCEPT
                           !.todo = task[p][e].todo \ {q},
                           !.stage = IF task[p][e].todo \ {q} = {} THEN "marking" ELSE "adding"]
      BY <1>1, <2>2 DEF AddResolves
    <3>2. QED  BY <2>1, <3>1 DEF Task
  <2>3. CASE AddRejects(p, e)
    <3>1. task'[p][e] = FailingTask(task[p][e])
      BY <1>1, <2>3 DEF AddRejects
    <3>2. QED  BY <2>1, <3>1 DEF Task, FailingTask
  <2>4. QED  BY <2>2, <2>3
<1>6. \A r \in Processors : r # p => task'[r][e].stage = "none"
  BY <1>3, <1>4 DEF Busy
<1>7. QED
  BY <1>2, <1>3, <1>5, <1>6 DEF Waiting, Awaited

LEMMA OnceStep ==
    ASSUME OnceInv, [Next]_vars, faults' = 0, NEW q \in Queues, NEW e \in Events
    PROVE  Once(q, e)'
<1> SUFFICES ASSUME row'[e].status = "absent" \/ row'[e].attempts = 0
             PROVE  /\ Waiting(e)' \/ Awaited(q, e)' => Unsent(q, e)'
                    /\ <<e, q>> \in stray' => job'[q][e] = "never"
  BY DEF Once
<1>1. QuietInv /\ TypeOK /\ faults = 0
  BY NoFault DEF OnceInv, QuietInv, OwnerInv
<1>2. row[e].status = "absent" \/ row[e].attempts = 0
  BY <1>1, WaitsUnclaimed
<1>3. /\ Waiting(e) \/ Awaited(q, e) => Unsent(q, e)
      /\ <<e, q>> \in stray => job[q][e] = "never"
  BY <1>1, <1>2 DEF OnceInv, Once
<1>4. Waiting(e)' \/ Awaited(q, e)' => Unsent(q, e)
  BY <1>1, <1>3, WaitsAsBefore
<1>5. CASE job'[q][e] = job[q][e] /\ (<<e, q>> \in stray' => <<e, q>> \in stray)
  BY <1>3, <1>4, <1>5 DEF Unsent
<1>6. CASE job[q][e] = "live" /\ JobEnds(q, e)
  BY <1>3, <1>4, <1>6 DEF Unsent, JobEnds
<1>7. CASE StrayAdd(e, q)
  BY <1>4, <1>7 DEF Unsent, StrayAdd
<1>8. ASSUME NEW p \in Processors, AddResolves(p, e, q)
      PROVE  /\ Waiting(e)' \/ Awaited(q, e)' => Unsent(q, e)'
             /\ <<e, q>> \in stray' => job'[q][e] = "never"
  <2>1. Awaited(q, e) /\ ~Waiting(e)' /\ ~Awaited(q, e)'
    BY <1>1, <1>8, LastToSend
  <2>2. QED  BY <1>3, <1>8, <2>1 DEF Unsent, AddResolves
<1>9. ASSUME NEW p \in Processors, AddRejects(p, e), q \in task[p][e].todo
      PROVE  /\ Waiting(e)' \/ Awaited(q, e)' => Unsent(q, e)'
             /\ <<e, q>> \in stray' => job'[q][e] = "never"
  <2>1. Awaited(q, e) /\ ~Waiting(e)' /\ ~Awaited(q, e)'
    BY <1>1, <1>9, LastToSend
  <2>2. QED  BY <1>3, <1>9, <2>1 DEF Unsent, AddRejects
<1>10. QED
  BY <1>1, <1>5, <1>6, <1>7, <1>8, <1>9, Sends

LEMMA OnceHolds == ASSUME Timely PROVE Spec => []OnceInv
<1>1. ASSUME Init, QuietInv PROVE OnceInv
  <2>1. ASSUME NEW q \in Queues, NEW e \in Events PROVE Unsent(q, e)
    BY <1>1 DEF Init, Unsent
  <2>2. QED  BY <1>1, <2>1 DEF OnceInv, Once, Unsent
<1>2. ASSUME OnceInv, QuietInv', [Next]_vars PROVE OnceInv'
  BY <1>2, OnceStep DEF OnceInv
<1>3. QED  BY <1>1, <1>2, QuietHolds, PTL DEF Spec

\* While no call outlasts its lease and nothing fails, only a failed
\* publication has a job that already ran added again.
THEOREM Duplicates == ASSUME Timely PROVE Spec => DuplicatesOnlyByRetry
<1>1. ASSUME OnceInv, [Next]_vars, faults' = 0, NEW e \in Events, NEW q \in Queues,
             job[q][e] = "done", job'[q][e] = "live"
      PROVE  row[e].attempts > 0
  <2>1. QuietInv /\ TypeOK /\ faults = 0 /\ row[e].attempts \in Nat
    BY <1>1, NoFault, Owner DEF OnceInv, QuietInv, OwnerInv, TypeOK, Row
  <2>2. Once(q, e)
    BY <1>1, <2>1 DEF OnceInv
  <2>3. Awaited(q, e) \/ <<e, q>> \in stray
    <3>1. ~JobEnds(q, e) \/ job[q][e] # "live"
      BY <1>1
    <3>2. \A p \in Processors : AddRejects(p, e) => job' = job
      BY DEF AddRejects
    <3>3. StrayAdd(e, q) => <<e, q>> \in stray
      BY DEF StrayAdd
    <3>4. \A p \in Processors : AddResolves(p, e, q) => Awaited(q, e)
      BY DEF AddResolves, Awaited
    <3>5. QED  BY <1>1, <2>1, <3>1, <3>2, <3>3, <3>4, Sends
  <2>4. row[e].attempts # 0
    BY <1>1, <2>2, <2>3 DEF Once, Unsent
  <2>5. QED  BY <2>1, <2>4
<1>2. OnceInv /\ [Next]_vars =>
        [faults' = 0 =>
           \A e \in Events, q \in Queues :
             job[q][e] = "done" /\ job'[q][e] = "live" => row[e].attempts > 0]_vars
  BY <1>1
<1>3. QED  BY <1>2, OnceHolds, PTL DEF Spec, DuplicatesOnlyByRetry

-----------------------------------------------------------------------------
(* The outbox implements its promise. *)

LEMMA Committed ==
    ASSUME TypeOK, [Next]_vars, NEW e \in Events, row[e].status # "absent"
    PROVE  row'[e].status # "absent"
<1>1. row[e] \in Row
  BY DEF TypeOK
<1>2. /\ \A p \in Processors : LockedRow(row[e], p).status # "absent"
      /\ PublishedRow(row[e]).status # "absent"
  BY <1>1 DEF LockedRow, PublishedRow, Unlocked, Row
<1>3. \A n : FailedRow(row[e], n).status # "absent"
  BY <1>1 DEF FailedRow, Unlocked, Row
<1>4. ReleasedRow(row[e]).status # "absent" /\ TickedRow(row[e]).status # "absent"
      /\ NewRow.status # "absent"
  BY <1>1 DEF ReleasedRow, Unlocked, TickedRow, NewRow, AbsentRow, Row
<1>5. QED  BY <1>2, <1>3, <1>4, RowUpdates

LEMMA RoutedStep == ASSUME TypeOK, RoutedInv, [Next]_vars PROVE RoutedInv'
<1>0. /\ task \in [Processors -> [Events -> Task]]
      /\ job \in [Queues -> [Events -> JobStates]]
  BY DEF TypeOK
<1>1. ASSUME NEW p \in Processors, NEW e \in Events
      PROVE  /\ task'[p][e].todo \subseteq Routes[e]
             /\ task'[p][e].stage # "none" \/ task'[p][e].todo # {} => row'[e].status # "absent"
  <2>1. task[p][e].todo \subseteq Routes[e] /\ task[p][e] \in Task
    BY <1>0 DEF RoutedInv
  <2>2. NoTask.todo = {} /\ ClaimedTask(e).todo = {} /\ FailingTask(task[p][e]).todo = {}
    BY <2>1 DEF NoTask, ClaimedTask, FailingTask, Task
  <2>3. StartRow(p, e) => task'[p][e].todo = Routes[e]
    BY <1>0, <2>1 DEF StartRow, Task
  <2>4. ASSUME NEW q \in Queues, AddResolves(p, e, q)
        PROVE  task'[p][e].todo = task[p][e].todo \ {q}
    <3>1. task'[p][e] = [task[p][e] EXCEPT
                           !.todo = task[p][e].todo \ {q},
                           !.stage = IF task[p][e].todo \ {q} = {} THEN "marking" ELSE "adding"]
      BY <1>0, <2>4 DEF AddResolves
    <3>2. QED  BY <2>1, <3>1 DEF Task
  <2>5. AddRejects(p, e) => task'[p][e].todo = {}
    <3>1. AddRejects(p, e) => task'[p][e] = FailingTask(task[p][e])
      BY <1>0 DEF AddRejects
    <3>2. QED  BY <2>2, <3>1
  <2>6. task'[p][e].todo \subseteq Routes[e]
    BY <2>1, <2>2, <2>3, <2>4, <2>5, TaskUpdates
  <2>7. CASE row[e].status # "absent"
    BY <2>6, <2>7, Committed
  <2>8. CASE row[e].status = "absent"
    <3>1. task[p][e].stage = "none" /\ task[p][e].todo = {}
      BY <2>8 DEF RoutedInv, Busy
    <3>2. ~IsDue(row[e]) /\ NoTask.stage = "none"
      BY <2>8 DEF IsDue, NoTask
    <3>3. /\ ~AddRejects(p, e) /\ ~StartRow(p, e) /\ ~MarkPublishedFails(p, e)
          /\ \A q \in Queues : ~AddResolves(p, e, q)
      BY <3>1 DEF AddRejects, StartRow, MarkPublishedFails, AddResolves
    <3>4. task'[p][e] \in {task[p][e], NoTask}
      BY <3>2, <3>3, TaskUpdates
    <3>5. task'[p][e].stage = "none" /\ task'[p][e].todo = {}
      BY <2>2, <3>1, <3>2, <3>4
    <3>6. QED  BY <2>6, <3>5
  <2>9. QED  BY <2>6, <2>7, <2>8
<1>2. ASSUME NEW e \in Events, NEW q \in Queues, <<e, q>> \in stray'
      PROVE  q \in Routes[e] /\ row'[e].status # "absent"
  <2> DEFINE Goal == q \in Routes[e] /\ row[e].status # "absent"
  <2>1. ASSUME <<e, q>> \in stray PROVE Goal
    <3>1. row[<<e, q>>[1]].status # "absent"
      BY <2>1 DEF RoutedInv
    <3>2. QED  BY <2>1, <3>1 DEF RoutedInv
  <2>2. ASSUME NEW p \in Processors, NEW d \in Events, AddRejects(p, d) PROVE Goal
    <3>1. <<e, q>> \in stray \/ (e = d /\ q \in task[p][d].todo)
      BY <1>2, <2>2 DEF AddRejects
    <3>2. QED  BY <2>1, <3>1 DEF RoutedInv
  <2>3. ASSUME NEW p \in Processors, Crash(p) PROVE Goal
    <3>1. <<e, q>> \in stray \/ q \in task[p][e].todo
      BY <1>2, <2>3 DEF Crash
    <3>2. QED  BY <2>1, <3>1 DEF RoutedInv
  <2>4. ASSUME NEW p \in Processors, NEW d \in Events, RowStep(p, d) PROVE Goal
    BY <1>2, <2>1, <2>2, <2>4 DEF RowStep, StartRow, AddResolves, MarkPublished,
       MarkPublishedFails, MarkFailed, MarkFailedFails
  <2>5. ASSUME NEW p \in Processors, LoopStep(p) PROVE Goal
    BY <1>2, <2>1, <2>5 DEF LoopStep, ClaimBatch, ClaimFails, DrainReturns, BatchSettled
  <2>6. ASSUME NEW p \in Processors,
               RetryDueEvents(p) \/ ReleaseExpiredLocks(p) \/ Restart(p)
                 \/ \E d \in Events : Notified(p, d) \/ LoseNotice(p, d)
        PROVE  Goal
    BY <1>2, <2>1, <2>6 DEF RetryDueEvents, ReleaseExpiredLocks, Restart, Notified, LoseNotice
  <2>7. ASSUME NEW d \in Events, NEW r \in Queues, StrayAdd(d, r) \/ JobEnds(r, d)
        PROVE  Goal
    BY <1>2, <2>1, <2>7 DEF StrayAdd, JobEnds
  <2>8. ASSUME Tick \/ UNCHANGED vars \/ \E d \in Events : Commit(d) PROVE Goal
    BY <1>2, <2>1, <2>8 DEF Tick, vars, Commit
  <2>9. Goal
    BY <2>3, <2>4, <2>5, <2>6, <2>7, <2>8 DEF Next
  <2>10. QED  BY <2>9, Committed
<1>3. ASSUME NEW e \in Events, NEW q \in Queues, job'[q][e] # "never" PROVE q \in Routes[e]
  <2>1. CASE job[q][e] # "never"
    BY <2>1 DEF RoutedInv
  <2>2. CASE UNCHANGED job
    BY <1>3, <2>1, <2>2
  <2>3. ASSUME NEW d \in Events, NEW r \in Queues, r \in Routes[d],
               job' = job \/ job' = Added(job, r, d)
        PROVE  q \in Routes[e]
    <3>1. job'[q][e] = job[q][e] \/ (q = r /\ e = d)
      BY <1>0, <2>3 DEF Added
    <3>2. QED  BY <1>3, <2>1, <2>3, <3>1
  <2>4. ASSUME NEW p \in Processors, NEW d \in Events, RowStep(p, d) PROVE q \in Routes[e]
    <3>1. ASSUME NEW r \in Queues, AddResolves(p, d, r) PROVE q \in Routes[e]
      BY <2>3, <3>1 DEF AddResolves, RoutedInv
    <3>2. QED
      BY <2>2, <2>4, <3>1 DEF RowStep, StartRow, AddRejects, MarkPublished,
         MarkPublishedFails, MarkFailed, MarkFailedFails
  <2>5. ASSUME NEW d \in Events, NEW r \in Queues, StrayAdd(d, r) PROVE q \in Routes[e]
    BY <2>3, <2>5 DEF StrayAdd, RoutedInv
  <2>6. ASSUME NEW d \in Events, NEW r \in Queues, JobEnds(r, d) PROVE q \in Routes[e]
    <3>1. job'[q][e] = job[q][e] \/ job[q][e] = "live"
      BY <1>0, <2>6 DEF JobEnds
    <3>2. QED  BY <1>3, <2>1, <3>1
  <2>7. ASSUME NEW p \in Processors, LoopStep(p) PROVE q \in Routes[e]
    BY <2>2, <2>7 DEF LoopStep, ClaimBatch, ClaimFails, DrainReturns, BatchSettled
  <2>8. ASSUME NEW p \in Processors,
               RetryDueEvents(p) \/ ReleaseExpiredLocks(p) \/ Restart(p) \/ Crash(p)
                 \/ \E d \in Events : Notified(p, d) \/ LoseNotice(p, d)
        PROVE  q \in Routes[e]
    BY <2>2, <2>8
       DEF RetryDueEvents, ReleaseExpiredLocks, Restart, Crash, Notified, LoseNotice
  <2>9. ASSUME Tick \/ UNCHANGED vars \/ \E d \in Events : Commit(d) PROVE q \in Routes[e]
    BY <2>2, <2>9 DEF Tick, vars, Commit
  <2>10. QED  BY <2>4, <2>5, <2>6, <2>7, <2>8, <2>9 DEF Next
<1>4. stray' \subseteq Events \X Queues
  BY TypeStep DEF TypeOK
<1>5. QED  BY <1>1, <1>2, <1>3, <1>4 DEF RoutedInv, Busy

PState == [e \in Events |-> PromisedState(e)]
PGiven == [e \in Events |-> {q \in Queues : job[q][e] # "never"}]

LEMMA PromiseKept ==
    ASSUME Timely, OwnerInv, DeliveryInv, RoutedInv, [Next]_vars
    PROVE  [Promise!Next]_(Promise!vars)
<1> DEFINE Goal == [Promise!Next]_(Promise!vars)
<1> SUFFICES Goal
  OBVIOUS
<1>0. /\ row \in [Events -> Row] /\ TypeOK
      /\ task \in [Processors -> [Events -> Task]]
      /\ job \in [Queues -> [Events -> JobStates]]
  BY DEF OwnerInv, TypeOK
<1>1. ASSUME UNCHANGED job, \A e \in Events : PromisedState(e)' = PromisedState(e) PROVE Goal
  BY <1>1 DEF Promise!vars
<1>2. CASE UNCHANGED <<row, job>>
  BY <1>2, <1>1 DEF PromisedState
\* A step of one row from status s to status t, seen from outside.
<1>3. ASSUME NEW e \in Events, NEW r, row' = [row EXCEPT ![e] = r], UNCHANGED job
      PROVE  /\ PGiven' = PGiven
             /\ PState' = [PState EXCEPT ![e] = PromisedState(e)']
  BY <1>0, <1>3 DEF PState, PGiven, PromisedState
<1>4. ASSUME NEW e \in Events, Commit(e) PROVE Goal
  <2>1. PState[e] = "none" /\ PromisedState(e)' = "open"
    BY <1>0, <1>4, RowEffects DEF Commit, PState, PromisedState, NewRow, AbsentRow
  <2>2. PGiven' = PGiven /\ PState' = [PState EXCEPT ![e] = "open"]
    BY <1>3, <1>4, <2>1 DEF Commit
  <2>3. Promise!Record(e)
    BY <2>1, <2>2 DEF Promise!Record, PState, PGiven
  <2>4. QED  BY <2>3 DEF Promise!Next
<1>5. ASSUME NEW p \in Processors, NEW e \in Events, task[p][e].stage = "marking",
             row' = [row EXCEPT ![e] = PublishedRow(@)], UNCHANGED job
      PROVE  Goal
  <2>1. row[e].status = "locked"
    BY <1>5, Owner DEF Busy
  <2>2. PState[e] = "open" /\ PromisedState(e)' = "published"
    BY <1>0, <1>5, <2>1 DEF PState, PromisedState, PublishedRow, Unlocked, Row
  <2>3. PGiven' = PGiven /\ PState' = [PState EXCEPT ![e] = "published"]
    BY <1>3, <1>5, <2>2
  <2>4. \A q \in Routes[e] : job[q][e] # "never"
    BY <1>5 DEF DeliveryInv, HandedOver
  <2>5. PGiven[e] = Routes[e]
    BY <2>4, RoutesAssumption DEF RoutedInv, PGiven
  <2>6. Promise!Publish(e)
    BY <2>2, <2>3, <2>5 DEF Promise!Publish, PState, PGiven
  <2>7. QED  BY <2>6 DEF Promise!Next
<1>6. ASSUME NEW p \in Processors, NEW e \in Events, task[p][e].stage = "failing",
             row' = [row EXCEPT ![e] = FailedRow(@, task[p][e].snap)], UNCHANGED job
      PROVE  Goal
  <2>1. row[e].status \in {"locked", "published"}
    BY <1>6, Owner DEF Busy
  <2>2. PState[e] \in {"open", "published"} /\ PromisedState(e)' \in {"open", "failed"}
    <3>1. PState[e] \in {"open", "published"}
      BY <2>1 DEF PState, PromisedState
    <3>2. row'[e] = FailedRow(row[e], task[p][e].snap)
      BY <1>0, <1>6
    <3>3. row'[e].status \in {"failed", "pending"}
      BY <1>0, <3>2 DEF FailedRow, Unlocked, Row
    <3>4. QED  BY <3>1, <3>3 DEF PromisedState
  <2>3. PGiven' = PGiven /\ PState' = [PState EXCEPT ![e] = PromisedState(e)']
    BY <1>3, <1>6
  <2>4. CASE PromisedState(e)' = "failed"
    <3>1. Promise!GiveUp(e)
      BY <2>2, <2>3, <2>4 DEF Promise!GiveUp, PState, PGiven
    <3>2. QED  BY <3>1 DEF Promise!Next
  <2>5. CASE PromisedState(e)' = "open" /\ PState[e] = "published"
    <3>1. Promise!Withdraw(e)
      BY <2>3, <2>5 DEF Promise!Withdraw, PState, PGiven
    <3>2. QED  BY <3>1 DEF Promise!Next
  <2>6. CASE PromisedState(e)' = "open" /\ PState[e] = "open"
    <3>1. PState' = PState
      BY <2>3, <2>6 DEF PState
    <3>2. QED  BY <2>3, <3>1 DEF Promise!vars, PState, PGiven
  <2>7. QED  BY <2>2, <2>4, <2>5, <2>6
\* The lock of a row cannot be seen from outside.
<1>7. ASSUME UNCHANGED job,
             \A e \in Events :
               \/ row'[e].status = row[e].status
               \/ {row[e].status, row'[e].status} \subseteq {"pending", "locked"}
      PROVE  Goal
  <2>1. \A e \in Events : PromisedState(e)' = PromisedState(e)
    BY <1>7 DEF PromisedState
  <2>2. QED  BY <1>1, <1>7, <2>1
<1>8. ASSUME NEW p \in Processors, NEW S \in Batches \cup {{}}, row' = Locked(S, p),
             UNCHANGED job
      PROVE  Goal
  <2>1. \A e \in S : e \in Events /\ row[e].status = "pending"
    BY DEF Batches, IsDue
  <2>2. \A e \in Events : row'[e] = IF e \in S THEN LockedRow(row[e], p) ELSE row[e]
    BY <1>8 DEF Locked
  <2>3. \A e \in Events : LockedRow(row[e], p).status = "locked"
    BY <1>0 DEF LockedRow, Row
  <2>4. QED  BY <1>7, <1>8, <2>1, <2>2, <2>3
<1>9. ASSUME NEW p \in Processors, ReleaseExpiredLocks(p) PROVE Goal
  <2>1. \A e \in Events : row'[e] = ReleasedRow(row[e])
    BY <1>9 DEF ReleaseExpiredLocks
  <2>2. \A e \in Events : ReleasedRow(row[e]).status = row[e].status
                          \/ (row[e].status = "locked" /\ ReleasedRow(row[e]).status = "pending")
    BY <1>0 DEF ReleasedRow, LockExpired, Unlocked, Row
  <2>3. UNCHANGED job
    BY <1>9 DEF ReleaseExpiredLocks
  <2>4. QED  BY <1>7, <2>1, <2>2, <2>3
<1>10. CASE Tick
  <2>1. \A e \in Events : row'[e].status = row[e].status
    BY <1>0, <1>10 DEF Tick, TickedRow, Row
  <2>2. QED  BY <1>7, <1>10, <2>1 DEF Tick
\* One job is added, or not.
<1>11. ASSUME NEW e \in Events, NEW q \in Routes[e], row[e].status # "absent", UNCHANGED row,
              job' = Added(job, q, e)
       PROVE  Goal
  <2>0. q \in Queues
    BY RoutesAssumption
  <2>1. PState' = PState /\ PState[e] # "none"
    BY <1>0, <1>11 DEF PState, PromisedState, Row, Statuses
  <2>2. CASE job[q][e] # "never"
    <3>1. \A d \in Events : \A r \in Queues : job'[r][d] = "never" <=> job[r][d] = "never"
      BY <1>0, <1>11, <2>0, <2>2 DEF Added
    <3>2. PGiven' = PGiven
      BY <3>1 DEF PGiven
    <3>3. QED  BY <2>1, <3>2 DEF Promise!vars, PState, PGiven
  <2>3. CASE job[q][e] = "never"
    <3>1. \A d \in Events : \A r \in Queues :
            job'[r][d] = IF r = q /\ d = e THEN "live" ELSE job[r][d]
      BY <1>0, <1>11, <2>0, <2>3 DEF Added
    <3>2. PGiven' = [PGiven EXCEPT ![e] = @ \cup {q}]
      <4>1. \A d \in Events : PGiven'[d] = IF d = e THEN PGiven[d] \cup {q} ELSE PGiven[d]
        BY <2>0, <3>1 DEF PGiven
      <4>2. PGiven = [d \in Events |-> PGiven[d]] /\ PGiven' = [d \in Events |-> PGiven'[d]]
        BY DEF PGiven
      <4> HIDE DEF PGiven
      <4>3. QED  BY <4>1, <4>2
    <3>3. q \in Routes[e] \ PGiven[e]
      BY <2>3 DEF PGiven
    <3>4. Promise!Give(e, q)
      BY <2>1, <3>2, <3>3 DEF Promise!Give, PState, PGiven
    <3>5. QED  BY <2>0, <3>4 DEF Promise!Next
  <2>4. QED  BY <2>2, <2>3
<1>12. ASSUME NEW e \in Events, NEW q \in Queues, JobEnds(q, e) PROVE Goal
  <2>1. \A d \in Events : \A r \in Queues : job'[r][d] = "never" <=> job[r][d] = "never"
    BY <1>0, <1>12 DEF JobEnds
  <2>2. PGiven' = PGiven /\ PState' = PState
    BY <1>12, <2>1 DEF PGiven, PState, PromisedState, JobEnds
  <2>3. QED  BY <2>2 DEF Promise!vars, PState, PGiven
<1>13. ASSUME NEW e \in Events, NEW q \in Queues, StrayAdd(e, q) PROVE Goal
  <2>1. row[<<e, q>>[1]].status # "absent" /\ q \in Routes[e]
    BY <1>13 DEF StrayAdd, RoutedInv
  <2>2. QED  BY <1>2, <1>11, <1>13, <2>1 DEF StrayAdd
<1>14. ASSUME NEW p \in Processors, NEW e \in Events, RowStep(p, e) PROVE Goal
  <2>1. ASSUME NEW q \in Queues, AddResolves(p, e, q) PROVE Goal
    <3>1. row[e].status # "absent" /\ q \in Routes[e]
      BY <2>1 DEF AddResolves, RoutedInv
    <3>2. QED  BY <1>11, <2>1, <3>1 DEF AddResolves
  <2>2. CASE MarkPublished(p, e)
    BY <1>5, <2>2 DEF MarkPublished
  <2>3. CASE MarkPublishedFails(p, e)
    BY <1>2, <1>5, <2>3 DEF MarkPublishedFails
  <2>4. CASE MarkFailed(p, e)
    BY <1>6, <2>4 DEF MarkFailed
  <2>5. CASE MarkFailedFails(p, e)
    BY <1>2, <1>6, <2>5 DEF MarkFailedFails
  <2>6. CASE StartRow(p, e) \/ AddRejects(p, e)
    BY <1>2, <2>6 DEF StartRow, AddRejects
  <2>7. QED  BY <1>14, <2>1, <2>2, <2>3, <2>4, <2>5, <2>6 DEF RowStep
<1>15. ASSUME NEW p \in Processors, LoopStep(p) PROVE Goal
  BY <1>2, <1>8, <1>15 DEF LoopStep, ClaimBatch, ClaimFails, DrainReturns, BatchSettled
<1>16. ASSUME NEW p \in Processors,
              RetryDueEvents(p) \/ Restart(p) \/ Crash(p)
                \/ \E d \in Events : Notified(p, d) \/ LoseNotice(p, d)
       PROVE  Goal
  BY <1>2, <1>16 DEF RetryDueEvents, Restart, Crash, Notified, LoseNotice
<1>17. CASE UNCHANGED vars
  BY <1>2, <1>17 DEF vars
<1> HIDE DEF Goal
<1>18. QED
  BY <1>4, <1>9, <1>10, <1>12, <1>13, <1>14, <1>15, <1>16, <1>17 DEF Next

\* While no call outlasts its lease, processors, table and queues implement
\* the promise of OutboxDelivery: no committed event is lost, its jobs go to
\* the routed queues only, published means all of them got it, a dead letter
\* is final.
THEOREM Refinement == ASSUME Timely PROVE Spec => KeepsPromise
<1>1. Init => Promise!Init
  BY DEF Init, Promise!Init, PromisedState, AbsentRow
<1>2. Init => RoutedInv
  BY DEF Init, RoutedInv, Busy, NoTask
<1>3. OwnerInv /\ RoutedInv /\ [Next]_vars => RoutedInv'
  BY RoutedStep DEF OwnerInv
<1>4. OwnerInv /\ DeliveryInv /\ RoutedInv /\ [Next]_vars => [Promise!Next]_(Promise!vars)
  BY PromiseKept
<1>5. QED
  BY <1>1, <1>2, <1>3, <1>4, OwnerHolds, DeliveryHolds, PTL DEF Spec, KeepsPromise, Promise!Spec
=============================================================================
