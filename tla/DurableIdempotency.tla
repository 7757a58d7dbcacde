------------------------- MODULE DurableIdempotency -------------------------
(***************************************************************************)
(* DurableIdempotencyStrategy for one key in one scope (rows of different  *)
(* keys never meet): the row of operational.idempotency, the copy of it in *)
(* Redis, the requests that carry the key, and the two scheduled jobs.     *)
(* One action is one Redis command, one database statement, the handler's  *)
(* return, a job, or the clock.                                            *)
(*                                                                         *)
(* Time is the time left until expires_at; a row's age follows from it.    *)
(***************************************************************************)
EXTENDS Integers

CONSTANTS
    Requests,       \* requests, each sent once
    NoRequest,      \* nobody's
    Body,           \* the body of each request (its sha256 is the body)
    Ttl,            \* options.ttlSeconds ?? TTL_SECONDS, in ticks
    SweepAfter,     \* thresholdMin, in ticks
    Patience,       \* the longest a request works on after its claim, in ticks
    MaxFaults       \* bound on failures, crashes and evictions

ASSUME NobodyAssumption == NoRequest \notin Requests
ASSUME TimesAssumption ==
    /\ Ttl \in Nat \ {0} /\ SweepAfter \in Nat /\ Patience \in Nat
ASSUME FaultsAssumption == MaxFaults \in Nat

VARIABLES
    row,        \* the table's row for the key
    cache,      \* redis: the record under the key
    pc,         \* the call each request awaits
    verdict,    \* what the request's handler did
    held,       \* the record markCompleted or markFailed returned to it
    spent,      \* ticks since its claim
    answer,     \* what its client was told
    promise,    \* history: how long a success of each handler that some client
                \* heard of must last
    withdrawn,  \* history: the requests whose settled record was deleted again
    faults      \* failures so far, at most MaxFaults

vars == <<row, cache, pc, verdict, held, spent, answer, promise, withdrawn, faults>>

-----------------------------------------------------------------------------
(* Records *)

\* A row is deleted once past its expiry and stale once past its threshold:
\* the clock stops where both are.
Oldest == IF Ttl - SweepAfter - 1 < -1 THEN Ttl - SweepAfter - 1 ELSE -1

\* A copy cached when nothing was left of its life is stored without expiry.
Forever == Ttl + 1

Settled == {"completed", "failed"}

\* by: who inserted the row (its request_hash is that request's); result:
\* whose response or error it holds, NoRequest for "Request timed out".
Record == [status: {"none", "in_progress"} \cup Settled,
           by: Requests \cup {NoRequest}, result: Requests \cup {NoRequest},
           left: Oldest..Forever]

NoRecord == [status |-> "none", by |-> NoRequest, result |-> NoRequest, left |-> 0]

\* The values tryClaim inserts.
ClaimedRow(r) == [status |-> "in_progress", by |-> r, result |-> NoRequest, left |-> Ttl]

\* Mutated form: the insert replaces a record that failed.
ClaimableRetrying(rec) == rec.status \in {"none", "failed"}

\* ON CONFLICT DO NOTHING, whatever the row's expires_at.
Claimable(rec) == rec.status = "none"

\* findActiveRecord
Active(rec) == rec.status # "none" /\ rec.left > 0

\* WHERE of markCompleted and markFailed: any claim still in progress will do.
Markable(rec) == rec.status = "in_progress" /\ rec.left > 0

MarkedRow(rec, r) == [rec EXCEPT !.status = verdict[r], !.result = r]

\* Mutated form: every record in progress is stale.
StaleAtOnce(rec) == rec.status = "in_progress"

\* WHERE of sweepStaleInProgress: created_at < now - threshold.
Stale(rec) == rec.status = "in_progress" /\ Ttl - rec.left > SweepAfter

\* Mutated form: the comparison the other way round.
ExpiredSwapped(rec) == rec.status # "none" /\ rec.left > 0

\* WHERE of deleteExpired
Expired(rec) == rec.status # "none" /\ rec.left < 0

\* Mutated form: cached for the key's whole life instead of what remains of it.
CachedForTtl(rec) == [rec EXCEPT !.left = Ttl]

\* redis.set with getRemainingTtl, for which 0 means no expiry.
CachedCopy(rec) == [rec EXCEPT !.left = IF rec.left > 0 THEN rec.left ELSE Forever]

-----------------------------------------------------------------------------
(* Answers *)

Answer == [kind: {"none", "busy", "mismatch", "error"} \cup Settled,
           of: Requests \cup {NoRequest}]

Plain(kind) == [kind |-> kind, of |-> NoRequest]

\* Mutated form: the hash is not compared.
ResolvedAnyBody(r, rec) ==
    IF rec.status = "in_progress" THEN Plain("busy")
    ELSE [kind |-> rec.status, of |-> rec.result]

\* resolveExistingRecord and replayRecord
Resolved(r, rec) ==
    IF Body[rec.by] # Body[r] THEN Plain("mismatch")
    ELSE IF rec.status = "in_progress" THEN Plain("busy")
    ELSE [kind |-> rec.status, of |-> rec.result]

\* The client hears a; life is how long the record behind a success is kept.
Reply(r, a, life) ==
    /\ pc' = [pc EXCEPT ![r] = "done"]
    /\ answer' = [answer EXCEPT ![r] = a]
    /\ promise' = [s \in Requests |->
                      IF a.kind = "completed" /\ a.of = s /\ life > promise[s]
                      THEN life ELSE promise[s]]

Goto(r, l) == pc' = [pc EXCEPT ![r] = l] /\ UNCHANGED <<answer, promise>>

-----------------------------------------------------------------------------

Labels == {"lookup", "query", "claim", "recheck", "requery", "running", "mark",
           "cache", "delete", "uncache", "done"}

TypeOK ==
    /\ row \in Record /\ cache \in Record
    /\ pc \in [Requests -> Labels]
    /\ verdict \in [Requests -> {"none", "error"} \cup Settled]
    /\ held \in [Requests -> Record]
    /\ spent \in [Requests -> 0..Patience]
    /\ answer \in [Requests -> Answer]
    /\ promise \in [Requests -> 0..Forever]
    /\ withdrawn \subseteq Requests
    /\ faults \in 0..MaxFaults

Init ==
    /\ row = NoRecord /\ cache = NoRecord
    /\ pc = [r \in Requests |-> "lookup"]
    /\ verdict = [r \in Requests |-> "none"]
    /\ held = [r \in Requests |-> NoRecord]
    /\ spent = [r \in Requests |-> 0]
    /\ answer = [r \in Requests |-> Plain("none")]
    /\ promise = [r \in Requests |-> 0]
    /\ withdrawn = {} /\ faults = 0

Fault == faults < MaxFaults /\ faults' = faults + 1

-----------------------------------------------------------------------------
(* Before the handler *)

\* getRecord's redis.get, in the first look and after a refused claim.
Lookup(r) ==
    /\ pc[r] \in {"lookup", "recheck"}
    /\ \/ /\ cache.status # "none"
          /\ Reply(r, Resolved(r, cache), cache.left)
       \/ /\ cache.status = "none"
          /\ Goto(r, IF pc[r] = "lookup" THEN "query" ELSE "requery")
    /\ UNCHANGED <<row, cache, verdict, held, spent, faults, withdrawn>>

LookupFails(r) ==
    /\ pc[r] \in {"lookup", "recheck"}
    /\ Fault
    /\ Reply(r, Plain("error"), 0)
    /\ UNCHANGED <<row, cache, verdict, held, spent, withdrawn>>

\* findActiveRecord; the second time, nothing found is an internal error.
Query(r) ==
    /\ pc[r] \in {"query", "requery"}
    /\ \/ /\ Active(row)
          /\ Reply(r, Resolved(r, row), row.left)
       \/ /\ ~Active(row) /\ pc[r] = "query"
          /\ Goto(r, "claim")
       \/ /\ ~Active(row) /\ pc[r] = "requery"
          /\ Reply(r, Plain("error"), 0)
    /\ UNCHANGED <<row, cache, verdict, held, spent, faults, withdrawn>>

QueryFails(r) ==
    /\ pc[r] \in {"query", "requery"}
    /\ Fault
    /\ Reply(r, Plain("error"), 0)
    /\ UNCHANGED <<row, cache, verdict, held, spent, withdrawn>>

Claim(r) ==
    /\ pc[r] = "claim"
    /\ \/ /\ Claimable(row)
          /\ row' = ClaimedRow(r)
          /\ Goto(r, "running")
       \/ /\ ~Claimable(row)
          /\ Goto(r, "recheck")
          /\ UNCHANGED row
    /\ UNCHANGED <<cache, verdict, held, spent, faults, withdrawn>>

\* Rolled back, or committed and the answer lost: an error either way, as the
\* claim is awaited outside the pipe whose catchError cleans up.
ClaimFails(r) ==
    /\ pc[r] = "claim"
    /\ Fault
    /\ row' \in {row} \cup {rec \in {ClaimedRow(r)} : Claimable(row)}
    /\ Reply(r, Plain("error"), 0)
    /\ UNCHANGED <<cache, verdict, held, spent, withdrawn>>

-----------------------------------------------------------------------------
(* The handler and after *)

\* next.handle(): a response, a deterministic error, or another error.
HandlerReturns(r) ==
    /\ pc[r] = "running"
    /\ \E v \in Settled \cup {"error"} :
        /\ verdict' = [verdict EXCEPT ![r] = v]
        /\ Goto(r, IF v = "error" THEN "delete" ELSE "mark")
    /\ UNCHANGED <<row, cache, held, spent, faults, withdrawn>>

\* markCompleted and markFailed up to the redis.set, which is skipped when no
\* row matched.
Mark(r) ==
    /\ pc[r] = "mark"
    /\ \/ /\ Markable(row)
          /\ row' = MarkedRow(row, r)
          /\ held' = [held EXCEPT ![r] = MarkedRow(row, r)]
          /\ Goto(r, "cache")
       \/ /\ ~Markable(row)
          /\ Reply(r, [kind |-> verdict[r], of |-> r], Ttl - spent[r])
          /\ UNCHANGED <<row, held>>
    /\ UNCHANGED <<cache, verdict, spent, faults, withdrawn>>

\* Where a rejection of markCompleted or markFailed leads: the first is caught
\* by catchError as any error of the handler, the second is not caught.
Rejected(r) ==
    IF verdict[r] = "completed" THEN Goto(r, "delete") ELSE Reply(r, Plain("error"), 0)

\* Rolled back: a lost connection, or an empty response, which the table's
\* chk_idempotency_response_or_error refuses.
MarkFails(r) ==
    /\ pc[r] = "mark"
    /\ Fault
    /\ Rejected(r)
    /\ UNCHANGED <<row, cache, verdict, held, spent, withdrawn>>

\* Committed, and the answer lost.
MarkUnknown(r) ==
    /\ pc[r] = "mark"
    /\ Fault
    /\ Markable(row)
    /\ row' = MarkedRow(row, r)
    /\ Rejected(r)
    /\ UNCHANGED <<cache, verdict, held, spent, withdrawn>>

\* The record is a local variable of the call.
Drops(r) == held' = [held EXCEPT ![r] = NoRecord]

\* redis.set, then the handler's own response or error.
CacheSet(r) ==
    /\ pc[r] = "cache"
    /\ cache' = CachedCopy(held[r]) /\ Drops(r)
    /\ Reply(r, [kind |-> verdict[r], of |-> r], Ttl - spent[r])
    /\ UNCHANGED <<row, verdict, spent, faults, withdrawn>>

\* redis.set rejects, with or without having stored the record.
CacheSetFails(r) ==
    /\ pc[r] = "cache"
    /\ Fault
    /\ cache' \in {cache, CachedCopy(held[r])} /\ Drops(r)
    /\ Rejected(r)
    /\ UNCHANGED <<row, verdict, spent, withdrawn>>

NotesWithdrawal ==
    withdrawn' = IF row.status \in Settled /\ row' # row
                 THEN withdrawn \cup {row.by} ELSE withdrawn

\* deleteRecord deletes by key: whoever's row it is and whatever its status.
Delete(r) ==
    /\ pc[r] = "delete"
    /\ row' = NoRecord /\ NotesWithdrawal
    /\ Goto(r, "uncache")
    /\ UNCHANGED <<cache, verdict, held, spent, faults>>

DeleteFails(r) ==
    /\ pc[r] = "delete"
    /\ Fault
    /\ row' \in {row, NoRecord} /\ NotesWithdrawal
    /\ Reply(r, Plain("error"), 0)
    /\ UNCHANGED <<cache, verdict, held, spent>>

Uncache(r) ==
    /\ pc[r] = "uncache"
    /\ cache' = NoRecord
    /\ Reply(r, Plain("error"), 0)
    /\ UNCHANGED <<row, verdict, held, spent, faults, withdrawn>>

UncacheFails(r) ==
    /\ pc[r] = "uncache"
    /\ Fault
    /\ Reply(r, Plain("error"), 0)
    /\ UNCHANGED <<row, cache, verdict, held, spent, withdrawn>>

\* The process that serves the request dies.
Crash(r) ==
    /\ pc[r] \notin {"lookup", "done"}
    /\ Fault
    /\ Goto(r, "done") /\ Drops(r)
    /\ UNCHANGED <<row, cache, verdict, spent, withdrawn>>

-----------------------------------------------------------------------------
(* The jobs, Redis and time *)

\* sweepStaleInProgress
Sweep ==
    /\ Stale(row)
    /\ row' = [row EXCEPT !.status = "failed"]
    /\ UNCHANGED <<cache, pc, verdict, held, spent, answer, promise, withdrawn, faults>>

\* Mutated form: only completed records are cleaned up.
DeleteExpiredCompleted ==
    /\ Expired(row) /\ row.status = "completed"
    /\ row' = NoRecord
    /\ UNCHANGED <<cache, pc, verdict, held, spent, answer, promise, withdrawn, faults>>

\* deleteExpiredRecords
DeleteExpired ==
    /\ Expired(row)
    /\ row' = NoRecord
    /\ UNCHANGED <<cache, pc, verdict, held, spent, answer, promise, withdrawn, faults>>

\* Redis restarts or evicts the key.
CacheEvicts ==
    /\ Fault
    /\ cache' = NoRecord
    /\ UNCHANGED <<row, pc, verdict, held, spent, answer, promise, withdrawn>>

\* A request has claimed and is not done with its record.
Holds(r) == pc[r] \in {"running", "mark", "cache", "delete"}

Older(rec) == IF rec.status # "none" /\ rec.left > Oldest THEN [rec EXCEPT !.left = @ - 1] ELSE rec

\* Redis drops a key whose time to live is over.
OlderCopy(rec) ==
    IF rec.left = Forever THEN rec ELSE IF rec.left > 1 THEN Older(rec) ELSE NoRecord

\* No request works longer than Patience.
Tick ==
    /\ \A r \in Requests : Holds(r) => spent[r] < Patience
    /\ row' = Older(row) /\ cache' = OlderCopy(cache)
    /\ held' = [r \in Requests |-> Older(held[r])]
    /\ spent' = [r \in Requests |-> IF Holds(r) THEN spent[r] + 1 ELSE spent[r]]
    /\ promise' = [r \in Requests |-> IF promise[r] > 0 THEN promise[r] - 1 ELSE 0]
    /\ UNCHANGED <<pc, verdict, answer, withdrawn, faults>>

\* What the event loop of a living process does next for a request.
Step(r) ==
    \/ Query(r) \/ Claim(r) \/ HandlerReturns(r) \/ Mark(r)
    \/ CacheSet(r) \/ Delete(r) \/ Uncache(r)
    \/ pc[r] = "recheck" /\ Lookup(r)

Fails(r) ==
    \/ LookupFails(r) \/ QueryFails(r) \/ ClaimFails(r) \/ MarkFails(r)
    \/ MarkUnknown(r) \/ CacheSetFails(r) \/ DeleteFails(r) \/ UncacheFails(r)
    \/ Crash(r)

Next ==
    \/ \E r \in Requests : Lookup(r) \/ Step(r) \/ Fails(r)
    \/ Sweep
    \/ DeleteExpired
    \/ CacheEvicts
    \/ Tick

Spec == Init /\ [][Next]_vars

\* A living process goes on with its requests, some process runs the jobs.
FairSpec ==
    /\ Spec
    /\ \A r \in Requests : WF_vars(Step(r))
    /\ WF_vars(Sweep) /\ WF_vars(DeleteExpired) /\ WF_vars(Tick)

-----------------------------------------------------------------------------
(* Properties *)

\* No request has outlasted the sweep's threshold or its key.  Nothing in the
\* code sees to it, and once one has, none of the following is promised.
InTime == \A r \in Requests : spent[r] <= SweepAfter /\ spent[r] < Ttl

\* However many requests carry the key, and whichever calls fail, one of them
\* at most is between its claim and the end of its work on the record.
OneAtATime == InTime => \A r, s \in Requests : Holds(r) /\ Holds(s) => r = s

Honest ==
    \A r \in Requests : answer[r].kind \in Settled /\ answer[r].of # NoRequest =>
        /\ verdict[answer[r].of] = answer[r].kind
        /\ Body[answer[r].of] = Body[r]

\* Whoever is told a response or an error, replayed from either store, hears
\* what the handler of a request with the same body returned.
ReplayHonest == InTime => Honest

Standing ==
    \A r \in Requests : answer[r].kind = "completed" =>
        /\ row.by = answer[r].of => row.status = "completed"
        /\ answer[r].of = r => r \notin withdrawn

\* A client that was told a request succeeded is not contradicted by its
\* record: the sweep never reports as timed out what was reported done, and no
\* failure makes a request delete the record of a success it has answered.
AnswersStand == InTime => Standing

Kept(S) == \A s \in S : promise[s] > 0 => \A r \in Requests : pc[r] # "running"

\* As long as a success some client heard of is to be kept, no handler runs
\* for the key again, whichever calls fail: unless the request that succeeded
\* has deleted its record, which its own client was then not told had succeeded
\* (AnswersStand).
ExecuteOnce == InTime => Kept(Requests \ withdrawn)


Torn == cache.status # "none" /\ cache # row

\* What Redis holds and the table does not is a record that was deleted by its
\* own request, not merely late, expired or another's.
CacheAgrees == InTime /\ Torn => cache.by \in withdrawn

\* A key once used becomes usable again in both stores, whatever happens to its
\* requests, unless one outlasts the sweep or the key.
KeyReturns ==
    {row.status, cache.status} # {"none"} ~> {row.status, cache.status} = {"none"} \/ ~InTime

-----------------------------------------------------------------------------
(* The inductive invariants behind them *)

BeforeClaim == {"lookup", "query", "claim", "recheck", "requery"}

\* Whoever works on the record works on the row, and the row is as old as that.
HolderInv ==
    /\ row.left <= Ttl
    /\ row.status = "none" => row = NoRecord
    /\ \A r \in Requests : pc[r] \in BeforeClaim => spent[r] = 0
    /\ \A r \in Requests : Holds(r) =>
        /\ row.by = r /\ row.status # "none"
        /\ row.left = Ttl - spent[r]
        /\ pc[r] \in {"running", "mark"} => row.status = "in_progress"
        /\ pc[r] = "cache" => row.status \in Settled /\ row.result = r /\ held[r] = row

\* A record in a store holds what the handler of its request returned.
Vouched(rec) ==
    /\ rec.status \in Settled /\ rec.result = rec.by
    /\ rec.by \in Requests /\ verdict[rec.by] = rec.status

VerdictInv ==
    /\ \A r \in Requests :
        /\ pc[r] \in BeforeClaim \cup {"running"} => verdict[r] = "none"
        /\ pc[r] \in {"mark", "cache"} => verdict[r] \in Settled
    /\ row.status # "none" => row.by \in Requests
    /\ row.status = "in_progress" => row.result = NoRequest
    /\ row.status = "completed" \/ row.result # NoRequest => Vouched(row)
    /\ cache.status # "none" => Vouched(cache)
    /\ cache.status # "none" /\ row.by = cache.by => row.status = cache.status

AnswerInv ==
    /\ Honest
    /\ \A r \in Requests : answer[r].kind = "completed" =>
        /\ answer[r].of \in Requests
        /\ row.by = answer[r].of => row.status = "completed"

HonestInv == HolderInv /\ VerdictInv /\ AnswerInv

\* A success some client heard of is on record in the table, and in Redis if
\* there at all, unless it was withdrawn; and that has not been answered.
PromiseInv ==
    /\ \A r \in withdrawn : pc[r] \in {"uncache", "done"} /\ answer[r].kind \in {"none", "error"}
    /\ Torn => cache.by \in withdrawn
    /\ cache.status # "none" => cache.left > 0
    /\ \A r \in Requests : pc[r] = "delete" => row.status \in {"in_progress", "completed"}
    /\ \A s \in Requests \ withdrawn : promise[s] > 0 =>
        row.status = "completed" /\ row.by = s /\ promise[s] <= row.left

-----------------------------------------------------------------------------
(* What it implements *)

KeyState == CASE row.status = "none" -> "free"
              [] row.status = "in_progress" -> "busy"
              [] OTHER -> row.status

\* Errors say nothing about the key.
ToldBy(a) == IF a.kind \in {"busy", "mismatch"} \cup Settled THEN a.kind ELSE "nothing"

KeyTold == [r \in Requests |-> ToldBy(answer[r])]

Key == INSTANCE IdempotentKey WITH
    state <- KeyState, by <- row.by, left <- row.left, told <- KeyTold

\* A replay of what Redis holds and the table does not.
ReplaysTorn == Torn /\ \E r \in Requests : Lookup(r)

\* The two stores and the steps between them, whichever fail, implement one key,
\* which a request whose own client was told nothing may give back though it
\* succeeded; only what is replayed from a copy left behind by that is not the
\* key's word.
KeepsPromise ==
    /\ Key!Init
    /\ [][Key!Next \/ Key!Withdraw \/ ReplaysTorn \/ ~InTime']_(Key!vars)

=============================================================================
