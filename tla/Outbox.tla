------------------------------- MODULE Outbox -------------------------------
(***************************************************************************)
(* The transactional outbox: the table operational.outbox_events, the      *)
(* processes of apps/outbox-processor that claim its rows under a lease,   *)
(* add one BullMQ job per route and mark the row, and the queues they add  *)
(* to.  One action is one database transaction, one BullMQ call, one       *)
(* callback, or the clock.                                                 *)
(*                                                                         *)
(* Time is kept as the time left until lock_expires_at (leaseLeft) and     *)
(* until next_attempt_at (dueIn), so the clock itself needs no bound.      *)
(***************************************************************************)
EXTENDS Integers, FiniteSets

CONSTANTS
    Events,         \* domain events, one row each (the row id is the event)
    Processors,     \* outbox-processor processes
    Nobody,         \* locked_by IS NULL (then locked_at and lock_expires_at are too)
    Queues,         \* BullMQ queues
    Routes,         \* the queues an event's type is routed to
    OccurredAt,     \* occurred_at, fixed by the emitter
    BatchSize,      \* BATCH_SIZE
    Concurrency,    \* CONCURRENCY_LIMIT
    LockDuration,   \* LOCK_DURATION, in ticks
    MaxAttempts,    \* MAX_PUBLISH_ATTEMPTS
    BaseBackoff,    \* BASE_BACKOFF, in ticks
    MaxBackoff,     \* MAX_BACKOFF, in ticks
    MaxFaults,      \* bound on crashes, failed transactions and lost notifications
    Timely          \* the environment assumption that work ends within its lease

ASSUME RoutesAssumption == Routes \in [Events -> SUBSET Queues]
ASSUME NobodyAssumption == Nobody \notin Processors
ASSUME OccurredAssumption == OccurredAt \in [Events -> Nat]
ASSUME SizesAssumption == BatchSize \in Nat \ {0} /\ Concurrency \in Nat \ {0}
ASSUME TimesAssumption ==
    /\ LockDuration \in Nat \ {0} /\ BaseBackoff \in Nat /\ MaxBackoff \in Nat
ASSUME AttemptsAssumption == MaxAttempts \in Nat \ {0} /\ MaxFaults \in Nat
ASSUME TimelyAssumption == Timely \in BOOLEAN

VARIABLES
    row,       \* the table: [Events -> Row]
    task,      \* processRow calls in memory: [Processors -> [Events -> Task]]
    mode,      \* where a processor's triggerProcessing/drain loop stands
    again,     \* needsAnotherPass
    notices,   \* pg_notify messages not yet dispatched, <<processor, event>>
    job,       \* BullMQ: [Queues -> [Events -> JobState]]
    stray,     \* queue.add commands nobody awaits any more, <<event, queue>>
    faults     \* faults so far, at most MaxFaults

vars == <<row, task, mode, again, notices, job, stray, faults>>

-----------------------------------------------------------------------------
(* Rows *)

NeverDue == -1                  \* next_attempt_at IS NULL
Expired  == -1                  \* lock_expires_at < now()

Statuses == {"absent", "pending", "locked", "published", "failed"}

Row == [status: Statuses, attempts: Nat, dueIn: Nat \cup {NeverDue},
        lockedBy: Processors \cup {Nobody}, leaseLeft: Nat \cup {Expired}]

AbsentRow == [status |-> "absent", attempts |-> 0, dueIn |-> NeverDue,
              lockedBy |-> Nobody, leaseLeft |-> Expired]

\* The columns toPublish writes, next_attempt_at defaulting to now().
NewRow == [AbsentRow EXCEPT !.status = "pending", !.dueIn = 0]

Unlocked(r) == [r EXCEPT !.lockedBy = Nobody, !.leaseLeft = Expired]

LockedRow(r, p) ==
    [r EXCEPT !.status = "locked", !.lockedBy = p, !.leaseLeft = LockDuration]

\* markPublished: no condition on status or owner.
PublishedRow(r) == [Unlocked(r) EXCEPT !.status = "published"]

\* Math.min(BASE_BACKOFF * 2 ** n, MAX_BACKOFF)
Backoff(n) ==
    LET delay == BaseBackoff * 2^n
    IN  IF delay \in 0..MaxBackoff THEN delay ELSE MaxBackoff

\* Mutated forms: dead-lettered one attempt late; status and next attempt
\* decided from two copies of the counter.
FailedRowLate(r, snap) ==
    [Unlocked(r) EXCEPT !.status = IF snap >= MaxAttempts THEN "failed" ELSE "pending",
                        !.attempts = @ + 1, !.dueIn = Backoff(snap)]
FailedRowTwoCopies(r, snap) ==
    [Unlocked(r) EXCEPT !.status = IF r.attempts + 1 = MaxAttempts THEN "failed" ELSE "pending",
                        !.attempts = @ + 1,
                        !.dueIn = IF snap + 1 >= MaxAttempts THEN NeverDue ELSE Backoff(snap)]

\* markFailed, as handleFailure calls it with the publishAttempts that the
\* claim returned (snap): no condition on status or owner either.
FailedRow(r, snap) ==
    LET dead == snap + 1 >= MaxAttempts
    IN  [Unlocked(r) EXCEPT !.status   = IF dead THEN "failed" ELSE "pending",
                            !.attempts = @ + 1,
                            !.dueIn    = IF dead THEN NeverDue ELSE Backoff(snap)]

\* Mutated form: a claim that also takes rows others hold.
IsDueOrLocked(r) == r.status \in {"pending", "locked"} /\ r.dueIn = 0

IsDue(r) == r.status = "pending" /\ r.dueIn = 0

\* Mutated forms: an instant early; without the condition on the status.
LockExpiredEarly(r) == r.status = "locked" /\ r.leaseLeft <= 0
LockExpiredAnyStatus(r) == r.status # "absent" /\ r.leaseLeft = Expired

LockExpired(r) == r.status = "locked" /\ r.leaseLeft = Expired

\* releaseExpiredLocks: publish_attempts and next_attempt_at stay as they are.
ReleasedRow(r) ==
    IF LockExpired(r) THEN [Unlocked(r) EXCEPT !.status = "pending"] ELSE r

-----------------------------------------------------------------------------
(* Calls of processRow *)

\* "claimed": returned by the claim, waiting for a pLimit slot;
\* "adding": awaiting Promise.all over the queue.add calls still in todo;
\* "marking": awaiting markPublished; "failing": awaiting markFailed.
Stages == {"none", "claimed", "adding", "marking", "failing"}

Task == [stage: Stages, todo: SUBSET Queues, snap: Nat]

NoTask == [stage |-> "none", todo |-> {}, snap |-> 0]

Busy(p, e) == task[p][e].stage # "none"

SlotsUsed(p) == {e \in Events : task[p][e].stage \in {"adding", "marking", "failing"}}

\* What the claim hands to processRow.
ClaimedTask(e) == [stage |-> "claimed", todo |-> {}, snap |-> row[e].attempts]

\* The catch block of processRow.
FailingTask(t) == [t EXCEPT !.stage = "failing", !.todo = {}]

\* "down": not running; "idle": isProcessing = false; "draining": about to
\* claim; "working": a batch is in flight; "empty": the claim brought no row
\* (or failed) and its continuation has not run yet.
Modes == {"down", "idle", "draining", "working", "empty"}

\* A job is removed when it completes ("done"), so that its id may be used
\* again, and kept when its attempts are exhausted ("dead").
JobStates == {"never", "live", "done", "dead"}

\* queue.add with jobId = row id is ignored while a job has that id.
Added(j, q, e) == IF j[q][e] \in {"never", "done"} THEN [j EXCEPT ![q][e] = "live"] ELSE j

TypeOK ==
    /\ row \in [Events -> Row]
    /\ task \in [Processors -> [Events -> Task]]
    /\ mode \in [Processors -> Modes]
    /\ again \in [Processors -> BOOLEAN]
    /\ notices \subseteq Processors \X Events
    /\ job \in [Queues -> [Events -> JobStates]]
    /\ stray \subseteq Events \X Queues
    /\ faults \in 0..MaxFaults

Init ==
    /\ row = [e \in Events |-> AbsentRow]
    /\ task = [p \in Processors |-> [e \in Events |-> NoTask]]
    /\ mode = [p \in Processors |-> "idle"]
    /\ again = [p \in Processors |-> FALSE]
    /\ notices = {}
    /\ job = [q \in Queues |-> [e \in Events |-> "never"]]
    /\ stray = {}
    /\ faults = 0

-----------------------------------------------------------------------------
(* The emitting side and triggers *)

\* A command commits: its events are inserted by the same transaction and the
\* insert trigger notifies every processor that listens.
Commit(e) ==
    /\ row[e].status = "absent"
    /\ row' = [row EXCEPT ![e] = NewRow]
    /\ notices' = notices \cup ({p \in Processors : mode[p] # "down"} \X {e})
    /\ UNCHANGED <<task, mode, again, job, stray, faults>>

\* triggerProcessing up to its first claim.
Trigger(p) ==
    IF mode[p] = "idle"
    THEN mode' = [mode EXCEPT ![p] = "draining"] /\ again' = [again EXCEPT ![p] = FALSE]
    ELSE again' = [again EXCEPT ![p] = TRUE] /\ UNCHANGED mode

\* The OUTBOX_PENDING subscription calls triggerProcessing.
Notified(p, e) ==
    /\ <<p, e>> \in notices
    /\ notices' = notices \ {<<p, e>>}
    /\ Trigger(p)
    /\ UNCHANGED <<row, task, job, stray, faults>>

\* retryDueEvents, every 10 seconds.
RetryDueEvents(p) ==
    /\ mode[p] # "down"
    /\ Trigger(p)
    /\ UNCHANGED <<row, task, notices, job, stray, faults>>

\* Mutated form: a processor that only releases its own locks.
ReleaseOwnExpiredLocks(p) ==
    /\ mode[p] # "down"
    /\ row' = [e \in Events |-> IF row[e].lockedBy = p THEN ReleasedRow(row[e]) ELSE row[e]]
    /\ UNCHANGED <<task, mode, again, notices, job, stray, faults>>

\* releaseExpiredLocks, every minute.
ReleaseExpiredLocks(p) ==
    /\ mode[p] # "down"
    /\ row' = [e \in Events |-> ReleasedRow(row[e])]
    /\ UNCHANGED <<task, mode, again, notices, job, stray, faults>>

-----------------------------------------------------------------------------
(* The drain loop *)

\* The batches ORDER BY occurred_at LIMIT BatchSize may select.
Batches ==
    LET due == {e \in Events : IsDue(row[e])}
    IN  {S \in SUBSET due :
            /\ Cardinality(S) <= BatchSize
            /\ S # due => Cardinality(S) = BatchSize
            /\ \A x \in S, y \in due \ S : OccurredAt[x] <= OccurredAt[y]}

Locked(S, p) == [e \in Events |-> IF e \in S THEN LockedRow(row[e], p) ELSE row[e]]

\* processBatch: the claim commits and its rows reach the processor.
ClaimBatch(p) ==
    /\ mode[p] = "draining"
    /\ \E S \in Batches :
        /\ row' = Locked(S, p)
        /\ task' = [task EXCEPT ![p] = [e \in Events |-> IF e \in S THEN ClaimedTask(e) ELSE @[e]]]
        /\ mode' = [mode EXCEPT ![p] = IF S = {} THEN "empty" ELSE "working"]
    /\ UNCHANGED <<again, notices, job, stray, faults>>

\* A fault takes place: at most MaxFaults of them.
Fault == faults < MaxFaults /\ faults' = faults + 1

\* The claim's transaction rejects, rolled back or with its commit
\* unacknowledged; processBatch logs it and returns 0.
ClaimFails(p) ==
    /\ mode[p] = "draining"
    /\ Fault
    /\ \E S \in Batches \cup {{}} : row' = Locked(S, p)
    /\ mode' = [mode EXCEPT ![p] = "empty"]
    /\ UNCHANGED <<task, again, notices, job, stray>>

\* Mutated form: needsAnotherPass is not looked at after the drain.
DrainReturnsForgetful(p) ==
    /\ mode[p] = "empty"
    /\ mode' = [mode EXCEPT ![p] = "idle"]
    /\ again' = [again EXCEPT ![p] = FALSE]
    /\ UNCHANGED <<row, task, notices, job, stray, faults>>

\* drain returns; triggerProcessing makes another pass or ends.
DrainReturns(p) ==
    /\ mode[p] = "empty"
    /\ mode' = [mode EXCEPT ![p] = IF again[p] THEN "draining" ELSE "idle"]
    /\ again' = [again EXCEPT ![p] = FALSE]
    /\ UNCHANGED <<row, task, notices, job, stray, faults>>

\* Promise.allSettled: the next batch is claimed when no call is left.
BatchSettled(p) ==
    /\ mode[p] = "working"
    /\ \A e \in Events : ~Busy(p, e)
    /\ mode' = [mode EXCEPT ![p] = "draining"]
    /\ UNCHANGED <<row, task, again, notices, job, stray, faults>>

-----------------------------------------------------------------------------
(* processRow *)

\* pLimit starts the call: every route's job is added at once, or, when the
\* event has no route, the row is marked right away.
StartRow(p, e) ==
    /\ task[p][e].stage = "claimed"
    /\ Cardinality(SlotsUsed(p)) < Concurrency
    /\ task' = [task EXCEPT ![p][e] =
                   [@ EXCEPT !.stage = IF Routes[e] = {} THEN "marking" ELSE "adding",
                             !.todo = Routes[e]]]
    /\ UNCHANGED <<row, mode, again, notices, job, stray, faults>>

\* One queue.add resolves; Promise.all resolves with the last one.
AddResolves(p, e, q) ==
    /\ task[p][e].stage = "adding"
    /\ q \in task[p][e].todo
    /\ job' = Added(job, q, e)
    /\ LET left == task[p][e].todo \ {q}
       IN  task' = [task EXCEPT ![p][e] =
                      [@ EXCEPT !.todo = left,
                                !.stage = IF left = {} THEN "marking" ELSE "adding"]]
    /\ UNCHANGED <<row, mode, again, notices, stray, faults>>

\* Mutated form: a rejected add is swallowed (Promise.allSettled).
AddRejectsSwallowed(p, e) ==
    /\ task[p][e].stage = "adding"
    /\ stray' = stray \cup ({e} \X task[p][e].todo)
    /\ task' = [task EXCEPT ![p][e] = [@ EXCEPT !.stage = "marking", !.todo = {}]]
    /\ UNCHANGED <<row, mode, again, notices, job, faults>>

\* One queue.add rejects: Promise.all rejects at once.  The other commands,
\* and this one when only its answer was lost, may still reach Redis.
AddRejects(p, e) ==
    /\ task[p][e].stage = "adding"
    /\ stray' = stray \cup ({e} \X task[p][e].todo)
    /\ task' = [task EXCEPT ![p][e] = FailingTask(@)]
    /\ UNCHANGED <<row, mode, again, notices, job, faults>>

MarkPublished(p, e) ==
    /\ task[p][e].stage = "marking"
    /\ row' = [row EXCEPT ![e] = PublishedRow(@)]
    /\ task' = [task EXCEPT ![p][e] = NoTask]
    /\ UNCHANGED <<mode, again, notices, job, stray, faults>>

\* The transaction rejects, rolled back or with its commit unacknowledged.
\* Without a route its promise is returned, not awaited, so that the catch
\* block is skipped and the call ends.
MarkPublishedFails(p, e) ==
    /\ task[p][e].stage = "marking"
    /\ Fault
    /\ row' \in {row, [row EXCEPT ![e] = PublishedRow(@)]}
    /\ task' = [task EXCEPT ![p][e] = IF Routes[e] = {} THEN NoTask ELSE FailingTask(@)]
    /\ UNCHANGED <<mode, again, notices, job, stray>>

MarkFailed(p, e) ==
    /\ task[p][e].stage = "failing"
    /\ row' = [row EXCEPT ![e] = FailedRow(@, task[p][e].snap)]
    /\ task' = [task EXCEPT ![p][e] = NoTask]
    /\ UNCHANGED <<mode, again, notices, job, stray, faults>>

\* handleFailure rejects: the call ends, the row keeps its lock.
MarkFailedFails(p, e) ==
    /\ task[p][e].stage = "failing"
    /\ Fault
    /\ row' \in {row, [row EXCEPT ![e] = FailedRow(@, task[p][e].snap)]}
    /\ task' = [task EXCEPT ![p][e] = NoTask]
    /\ UNCHANGED <<mode, again, notices, job, stray>>

-----------------------------------------------------------------------------
(* Processes, connections, Redis, workers and time *)

\* The process dies with everything it holds in memory; commands it had sent
\* may still reach Redis.
Crash(p) ==
    /\ mode[p] # "down"
    /\ Fault
    /\ mode' = [mode EXCEPT ![p] = "down"]
    /\ again' = [again EXCEPT ![p] = FALSE]
    /\ task' = [task EXCEPT ![p] = [e \in Events |-> NoTask]]
    /\ stray' = stray \cup UNION {{e} \X task[p][e].todo : e \in Events}
    /\ notices' = {n \in notices : n[1] # p}
    /\ UNCHANGED <<row, job>>

\* A new process subscribes in onApplicationBootstrap and waits for a trigger.
Restart(p) ==
    /\ mode[p] = "down"
    /\ mode' = [mode EXCEPT ![p] = "idle"]
    /\ UNCHANGED <<row, task, again, notices, job, stray, faults>>

\* The listening connection drops before the notification is dispatched.
LoseNotice(p, e) ==
    /\ <<p, e>> \in notices
    /\ Fault
    /\ notices' = notices \ {<<p, e>>}
    /\ UNCHANGED <<row, task, mode, again, job, stray>>

\* A command that nobody awaits reaches Redis, or never does.
StrayAdd(e, q) ==
    /\ <<e, q>> \in stray
    /\ stray' = stray \ {<<e, q>>}
    /\ job' \in {job, Added(job, q, e)}
    /\ UNCHANGED <<row, task, mode, again, notices, faults>>

\* A worker completes a job, or BullMQ gives it up after its attempts.
JobEnds(q, e) ==
    /\ job[q][e] = "live"
    /\ \E outcome \in {"done", "dead"} : job' = [job EXCEPT ![q][e] = outcome]
    /\ UNCHANGED <<row, task, mode, again, notices, stray, faults>>

\* Under Timely, no lease runs out on a call that still works on its row.
LeasesOutlastWork ==
    \A p \in Processors, e \in Events :
        Busy(p, e) /\ row[e].lockedBy = p => row[e].leaseLeft > 0

TickedRow(r) ==
    [r EXCEPT !.dueIn = IF @ > 0 THEN @ - 1 ELSE @,
              !.leaseLeft = IF @ >= 0 THEN @ - 1 ELSE @]

Tick ==
    /\ Timely => LeasesOutlastWork
    /\ row' = [e \in Events |-> TickedRow(row[e])]
    /\ UNCHANGED <<task, mode, again, notices, job, stray, faults>>

-----------------------------------------------------------------------------

RowStep(p, e) ==
    \/ StartRow(p, e)
    \/ \E q \in Queues : AddResolves(p, e, q)
    \/ AddRejects(p, e)
    \/ MarkPublished(p, e)
    \/ MarkPublishedFails(p, e)
    \/ MarkFailed(p, e)
    \/ MarkFailedFails(p, e)

LoopStep(p) == ClaimBatch(p) \/ ClaimFails(p) \/ DrainReturns(p) \/ BatchSettled(p)

Next ==
    \/ \E e \in Events : Commit(e)
    \/ \E p \in Processors :
        \/ RetryDueEvents(p)
        \/ ReleaseExpiredLocks(p)
        \/ LoopStep(p)
        \/ Crash(p)
        \/ Restart(p)
        \/ \E e \in Events : Notified(p, e) \/ LoseNotice(p, e) \/ RowStep(p, e)
    \/ \E e \in Events, q \in Queues : StrayAdd(e, q) \/ JobEnds(q, e)
    \/ Tick

Spec == Init /\ [][Next]_vars

\* What a running process owes: node's event loop runs every continuation,
\* both cron jobs fire again and again, time passes, workers take jobs.
Fairness ==
    /\ \A p \in Processors :
        /\ WF_vars(RetryDueEvents(p))
        /\ WF_vars(ReleaseExpiredLocks(p))
        /\ WF_vars(LoopStep(p))
        /\ \A e \in Events : WF_vars(RowStep(p, e))
    /\ \A q \in Queues, e \in Events : WF_vars(JobEnds(q, e))
    /\ WF_vars(Tick)

FairSpec == Spec /\ Fairness

-----------------------------------------------------------------------------
(* Properties *)

\* No row is left where neither claimBatch nor releaseExpiredLocks will ever
\* find it: a pending or locked row has a next_attempt_at, and a row names an
\* owner and has a lease exactly while it is locked, whatever late marks of
\* former owners did to it.
Findable(r) ==
    /\ r.status \in {"pending", "locked"} => r.dueIn # NeverDue
    /\ r.status = "locked" <=> r.lockedBy # Nobody
    /\ r.status # "locked" => r.leaseLeft = Expired

NothingStranded == \A e \in Events : Findable(row[e])

\* A row is marked published only when every queue its event is routed to has
\* been given the job at some time, through failures, retries, lost answers,
\* crashes and marks by former owners (processRow marks after Promise.all).
PublishedDelivered ==
    \A e \in Events : \A q \in Routes[e] :
        row[e].status = "published" => job[q][e] # "never"

\* While no call outlasts its lease, no event is in the hands of two
\* processors at once: claims skip what others hold and a lock is released
\* only after its owner died or let go of it.
OneWorkerPerEvent ==
    \A e \in Events : \A p1, p2 \in Processors : Busy(p1, e) /\ Busy(p2, e) => p1 = p2

\* While no call outlasts its lease, publish_attempts counts exactly: an event
\* is dead-lettered at its MaxAttempts-th failure, neither earlier nor later,
\* though handleFailure decides from the copy the claim returned.
AttemptsExact ==
    \A e \in Events :
        /\ row[e].attempts <= MaxAttempts
        /\ row[e].status = "failed" => row[e].attempts = MaxAttempts
        /\ row[e].status \in {"pending", "locked"} => row[e].attempts < MaxAttempts

\* Nobody but the processor that holds an unexpired lease ends it, by marking
\* the row (outbox_events' 'locked' status is a processor's lease).
LeaseRespected ==
    [][\A e \in Events : LET p == row[e].lockedBy IN
        (row[e].status = "locked" /\ row[e].leaseLeft # Expired /\ row'[e].lockedBy # p)
            => task[p][e].stage \in {"marking", "failing"} /\ task'[p][e] # task[p][e]]_vars

\* A dead-lettered event stays dead-lettered ('failed' is permanent).
DeadLetterFinal ==
    [][\A e \in Events : row[e].status = "failed" => row'[e].status = "failed"]_vars

\* As long as nothing fails, an event that was never claimed is known to every
\* processor: its notification is on the way, or the drain loop will make
\* another claim, even when the notification arrived after an empty claim had
\* been answered and before the loop looked at it (needsAnotherPass).
WakeupKept ==
    faults = 0 =>
        \A e \in Events, p \in Processors :
            row[e].status = "pending" /\ row[e].attempts = 0 =>
                \/ <<p, e>> \in notices
                \/ mode[p] \in {"draining", "working"}
                \/ mode[p] = "empty" /\ again[p]

\* As long as nothing else fails, a job that already ran is added again only
\* for an event whose earlier publication was recorded as failed: retries are
\* the only source of duplicates.
DuplicatesOnlyByRetry ==
    [][faults' = 0 =>
        \A e \in Events, q \in Queues :
            job[q][e] = "done" /\ job'[q][e] = "live" => row[e].attempts > 0]_vars

-----------------------------------------------------------------------------
(* The inductive invariants behind PublishedDelivered, and, for Timely,      *)
(* behind OneWorkerPerEvent, AttemptsExact, LeaseRespected, DeadLetterFinal. *)

\* Every queue that processRow no longer waits for has the job.
HandedOver(p, e) ==
    LET awaited == IF task[p][e].stage = "adding" THEN task[p][e].todo ELSE {}
    IN  task[p][e].stage \in {"adding", "marking"} =>
            \A q \in Routes[e] \ awaited : job[q][e] # "never"

DeliveryInv ==
    /\ TypeOK
    /\ PublishedDelivered
    /\ \A p \in Processors, e \in Events : HandedOver(p, e)

\* A call works on a row that it holds under a live lease, or is about to
\* report as failed a publication whose commit went unacknowledged; the row
\* has not changed since the claim as far as the call can tell.
Holds(p, e) ==
    /\ task[p][e].snap = row[e].attempts
    /\ row[e].attempts < MaxAttempts
    /\ \/ row[e].lockedBy = p /\ row[e].leaseLeft # Expired
       \/ task[p][e].stage = "failing" /\ row[e].status = "published"

OwnerInv ==
    /\ TypeOK
    /\ NothingStranded
    /\ OneWorkerPerEvent
    /\ AttemptsExact
    /\ \A p \in Processors, e \in Events : Busy(p, e) => Holds(p, e)

\* Commands and jobs exist for routed queues of committed events only.
RoutedInv ==
    /\ \A p \in Processors, e \in Events :
        /\ task[p][e].todo \subseteq Routes[e]
        /\ Busy(p, e) \/ task[p][e].todo # {} => row[e].status # "absent"
    /\ \A n \in stray : row[n[1]].status # "absent"
    /\ \A e \in Events, q \in Queues :
        <<e, q>> \in stray \/ job[q][e] # "never" => q \in Routes[e]

-----------------------------------------------------------------------------
(* The promise *)

PromisedState(e) ==
    CASE row[e].status = "absent" -> "none"
      [] row[e].status \in {"pending", "locked"} -> "open"
      [] OTHER -> row[e].status

Promise == INSTANCE OutboxDelivery WITH
    state <- [e \in Events |-> PromisedState(e)],
    given <- [e \in Events |-> {q \in Queues : job[q][e] # "never"}]

\* While no call outlasts its lease, the table, processors and queues together
\* do what the outbox promises: nothing is lost, jobs go to routed queues only,
\* published means all of them got it, a dead letter is final.
KeepsPromise == Promise!Spec

-----------------------------------------------------------------------------
(* Liveness *)

Settled(e) == row[e].status \in {"published", "failed"}

\* A committed event is in the end published or dead-lettered for good, though
\* processors crash, transactions fail and leases expire.
EventuallySettled ==
    \A e \in Events : row[e].status # "absent" ~> []Settled(e)

\* A committed event is in the end dead-lettered, or handled or given up by a
\* worker of every queue it is routed to.
EventuallyHandled ==
    \A e \in Events :
        row[e].status # "absent" ~>
            \/ row[e].status = "failed"
            \/ \A q \in Routes[e] : job[q][e] \in {"done", "dead"}

=============================================================================
