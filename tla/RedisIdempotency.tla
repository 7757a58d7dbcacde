-------------------------- MODULE RedisIdempotency --------------------------
(***************************************************************************)
(* RedisIdempotencyStrategy for one key in one scope: the record that      *)
(* Redis holds under it and the requests that carry it.  One action is one *)
(* Redis command, the handler's return, or the clock.                      *)
(*                                                                         *)
(* Time is the time left until Redis drops the key.  A dropped key is gone *)
(* for GET and SETNX alike, so Expires comes before either.                *)
(***************************************************************************)
EXTENDS Integers

CONSTANTS
    Requests,       \* requests, each sent once
    NoRequest,      \* nobody's
    Body,           \* the body of each request (its sha256 is the body)
    Ttl,            \* options.ttlSeconds ?? TTL_SECONDS, in ticks
    InProgressTtl,  \* IP_TTL_SECONDS, in ticks
    Patience,       \* bound: the longest a request works on after its claim
    MaxFaults       \* bound on failures and crashes

ASSUME NobodyAssumption == NoRequest \notin Requests
ASSUME TimesAssumption ==
    /\ Ttl \in Nat /\ InProgressTtl \in Nat \ {0} /\ Patience \in Nat
ASSUME FaultsAssumption == MaxFaults \in Nat

VARIABLES
    record,     \* what is stored under the key
    pc,         \* the call each request awaits
    verdict,    \* what the request's handler did
    spent,      \* ticks since its claim
    answer,     \* what its client was told
    lost,       \* history: did Redis lose the key, or a verdict's reply?
    faults      \* failures so far, at most MaxFaults

vars == <<record, pc, verdict, spent, answer, lost, faults>>

-----------------------------------------------------------------------------
(* Records and answers *)

Settled == {"completed", "failed"}

Forever == Ttl + InProgressTtl + 1

\* RedisService.set and setNX: 0 means no expiry.
Lives(ttl) == IF ttl = 0 THEN Forever ELSE ttl

\* by: whose request_hash it holds, and whose response or error.
Record == [status: {"none", "in_progress"} \cup Settled,
           by: Requests \cup {NoRequest}, left: 0..Forever]

NoRecord == [status |-> "none", by |-> NoRequest, left |-> 0]

\* Mutated form: the claim is stored without its time to live.
ClaimedForever(r) == [status |-> "in_progress", by |-> r, left |-> Lives(0)]

\* createRecord
Claimed(r) == [status |-> "in_progress", by |-> r, left |-> Lives(InProgressTtl)]

\* Mutated form: a verdict is stored with the time to live of a claim.
MarkedBriefly(r) == [status |-> verdict[r], by |-> r, left |-> Lives(InProgressTtl)]

\* markCompleted and markFailed: whatever is stored under the key.
Marked(r) == [status |-> verdict[r], by |-> r, left |-> Lives(Ttl)]

Answer == [kind: {"none", "busy", "mismatch", "lost", "error", "unavailable"} \cup Settled,
           of: Requests \cup {NoRequest}]

Plain(kind) == [kind |-> kind, of |-> NoRequest]

\* Mutated form: the hash is not compared.
ResolvedAnyBody(r) ==
    IF record.status = "in_progress" THEN Plain("busy")
    ELSE [kind |-> record.status, of |-> record.by]

\* resolveExistingRecord and replayRecord
Resolved(r) ==
    IF Body[record.by] # Body[r] THEN Plain("mismatch")
    ELSE IF record.status = "in_progress" THEN Plain("busy")
    ELSE [kind |-> record.status, of |-> record.by]

Reply(r, a) ==
    /\ pc' = [pc EXCEPT ![r] = "done"]
    /\ answer' = [answer EXCEPT ![r] = a]

Goto(r, l) == pc' = [pc EXCEPT ![r] = l] /\ UNCHANGED answer

-----------------------------------------------------------------------------

Labels == {"lookup", "claim", "recheck", "running", "mark",
           "respond", "delete", "done"}

TypeOK ==
    /\ record \in Record
    /\ pc \in [Requests -> Labels]
    /\ verdict \in [Requests -> {"none", "error"} \cup Settled]
    /\ spent \in [Requests -> 0..Patience]
    /\ answer \in [Requests -> Answer]
    /\ lost \in BOOLEAN
    /\ faults \in 0..MaxFaults

Init ==
    /\ record = NoRecord
    /\ pc = [r \in Requests |-> "lookup"]
    /\ verdict = [r \in Requests |-> "none"]
    /\ spent = [r \in Requests |-> 0]
    /\ answer = [r \in Requests |-> Plain("none")]
    /\ lost = FALSE /\ faults = 0

Fault == faults < MaxFaults /\ faults' = faults + 1

\* Past its time, but not dropped yet.
Overdue == record.status # "none" /\ record.left = 0

-----------------------------------------------------------------------------
(* Before the handler *)

\* getRecord, in the first look and after a refused SETNX, when nothing found
\* is an internal error.
Lookup(r) ==
    /\ pc[r] \in {"lookup", "recheck"} /\ ~Overdue
    /\ \/ /\ record.status # "none"
          /\ Reply(r, Resolved(r))
       \/ /\ record.status = "none" /\ pc[r] = "lookup"
          /\ Goto(r, "claim")
       \/ /\ record.status = "none" /\ pc[r] = "recheck"
          /\ Reply(r, Plain("lost"))
    /\ UNCHANGED <<record, verdict, spent, lost, faults>>

LookupFails(r) ==
    /\ pc[r] \in {"lookup", "recheck"}
    /\ Fault
    /\ Reply(r, Plain("unavailable"))
    /\ UNCHANGED <<record, verdict, spent, lost>>

\* Mutated form: SET in place of SETNX.
ClaimableAlways == TRUE

\* SETNX stores.
Claimable == record.status = "none"

Claim(r) ==
    /\ pc[r] = "claim" /\ ~Overdue
    /\ \/ Claimable /\ record' = Claimed(r) /\ Goto(r, "running")
       \/ ~Claimable /\ Goto(r, "recheck") /\ UNCHANGED record
    /\ UNCHANGED <<verdict, spent, lost, faults>>

\* SETNX rejects, with or without having stored the claim: it is awaited
\* outside the pipe whose catchError cleans up.
ClaimFails(r) ==
    /\ pc[r] = "claim" /\ ~Overdue
    /\ Fault
    /\ record' \in {record} \cup {rec \in {Claimed(r)} : Claimable}
    /\ Reply(r, Plain("error"))
    /\ UNCHANGED <<verdict, spent, lost>>

-----------------------------------------------------------------------------
(* The handler and after *)

\* next.handle(): a response, a deterministic error, or another error.
HandlerReturns(r) ==
    /\ pc[r] = "running"
    /\ \E v \in Settled \cup {"error"} :
        /\ verdict' = [verdict EXCEPT ![r] = v]
        /\ Goto(r, IF v = "error" THEN "delete" ELSE "mark")
    /\ UNCHANGED <<record, spent, lost, faults>>

Mark(r) ==
    /\ pc[r] = "mark"
    /\ record' = Marked(r)
    /\ Goto(r, "respond")
    /\ UNCHANGED <<verdict, spent, lost, faults>>

\* The handler's own response or error, once SET has resolved.
Respond(r) ==
    /\ pc[r] = "respond"
    /\ Reply(r, [kind |-> verdict[r], of |-> r])
    /\ UNCHANGED <<record, verdict, spent, lost, faults>>

\* SET rejects, with or without having stored the record. markCompleted's
\* rejection is caught by catchError as any error of the handler; markFailed's
\* is not caught.
MarkFails(r) ==
    /\ pc[r] = "mark"
    /\ Fault
    /\ \/ UNCHANGED <<record, lost>>
       \/ record' = Marked(r) /\ lost' = TRUE
    /\ IF verdict[r] = "completed" THEN Goto(r, "delete") ELSE Reply(r, Plain("error"))
    /\ UNCHANGED <<verdict, spent>>

\* deleteRecord deletes whoever's record is stored under the key.
Delete(r) ==
    /\ pc[r] = "delete"
    /\ record' = NoRecord
    /\ Reply(r, Plain("error"))
    /\ UNCHANGED <<verdict, spent, lost, faults>>

DeleteFails(r) ==
    /\ pc[r] = "delete"
    /\ Fault
    /\ record' \in {record, NoRecord}
    /\ Reply(r, Plain("error"))
    /\ UNCHANGED <<verdict, spent, lost>>

\* The process that serves the request dies.
Crash(r) ==
    /\ pc[r] \notin {"lookup", "done"}
    /\ Fault
    /\ Goto(r, "done")
    /\ UNCHANGED <<record, verdict, spent, lost>>

-----------------------------------------------------------------------------
(* Redis and time *)

Expires ==
    /\ Overdue
    /\ record' = NoRecord
    /\ UNCHANGED <<pc, verdict, spent, answer, lost, faults>>

\* Redis restarts without its data, or evicts the key.
Evicts ==
    /\ record.status # "none" /\ Fault
    /\ record' = NoRecord
    /\ lost' = TRUE
    /\ UNCHANGED <<pc, verdict, spent, answer>>

\* A request has claimed and is not done.
Holds(r) == pc[r] \in {"running", "mark", "respond", "delete"}

Ages(rec) == rec.status # "none" /\ rec.left # Forever

\* No request works longer than Patience.
Tick ==
    /\ ~Overdue
    /\ \A r \in Requests : Holds(r) => spent[r] < Patience
    /\ record' = IF Ages(record) THEN [record EXCEPT !.left = @ - 1] ELSE record
    /\ spent' = [r \in Requests |-> IF Holds(r) THEN spent[r] + 1 ELSE spent[r]]
    /\ UNCHANGED <<pc, verdict, answer, lost, faults>>

\* What the event loop of a living process does next for a request.
Step(r) ==
    \/ Claim(r) \/ HandlerReturns(r) \/ Mark(r) \/ Respond(r) \/ Delete(r)
    \/ pc[r] = "recheck" /\ Lookup(r)

Fails(r) ==
    \/ LookupFails(r) \/ ClaimFails(r) \/ MarkFails(r) \/ DeleteFails(r)
    \/ Crash(r)

Next ==
    \/ \E r \in Requests : Lookup(r) \/ Step(r) \/ Fails(r)
    \/ Expires
    \/ Evicts
    \/ Tick

Spec == Init /\ [][Next]_vars

\* A living process goes on with its requests, and Redis with its clock.
FairSpec ==
    /\ Spec
    /\ \A r \in Requests : WF_vars(Step(r))
    /\ WF_vars(Expires) /\ WF_vars(Tick)

-----------------------------------------------------------------------------
(* Properties *)

\* A request went on when its claim had run out.
Overran == \E r \in Requests : spent[r] >= InProgressTtl

\* However many requests carry the key, and whichever commands fail, two are at
\* work for it at once only when one outlasted the 300 seconds of its claim or
\* Redis lost the key.
OneAtATime ==
    lost \/ Overran \/ \A r, s \in Requests : Holds(r) /\ Holds(s) => r = s

\* Even then, whoever is told a response or an error, replayed or not, hears
\* what the handler of a request with the same body returned.
ReplayHonest ==
    \A r \in Requests : answer[r].kind \in Settled =>
        /\ verdict[answer[r].of] = answer[r].kind
        /\ Body[answer[r].of] = Body[r]

\* A key once used becomes usable again, whatever happens to its requests.
KeyReturns == record.status # "none" ~> record.status = "none"

-----------------------------------------------------------------------------
(* What it implements *)

KeyState == CASE record.status = "none" -> "free"
              [] record.status = "in_progress" -> "busy"
              [] OTHER -> record.status

\* The life of a claimed key ends with the life of the verdict that may come.
KeyLeft ==
    IF record.status = "in_progress" THEN record.left + Ttl - InProgressTtl ELSE record.left

\* Errors say nothing about the key.
ToldBy(a) == IF a.kind \in {"busy", "mismatch"} \cup Settled THEN a.kind ELSE "nothing"

KeyTold == [r \in Requests |-> ToldBy(answer[r])]

Key == INSTANCE IdempotentKey WITH
    state <- KeyState, by <- record.by, left <- KeyLeft, told <- KeyTold

\* Until a request outlasts its claim, or Redis loses the key or the reply to
\* the command that stores a verdict, the record is an idempotency key: nobody
\* takes it while it is taken or settled, nothing but its age ends a verdict.
KeepsPromise == Key!Init /\ [][Key!Next \/ lost' \/ Overran']_(Key!vars)

=============================================================================
