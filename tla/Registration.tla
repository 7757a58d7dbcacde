---------------------------- MODULE Registration ----------------------------
(***************************************************************************)
(* Registrations of one address: RegisterUserCommandHandler, the users     *)
(* table with its partial unique index, and what becomes of the            *)
(* UserRegistered event: the outbox (which here delivers it, see           *)
(* OutboxDelivery), the observed queue, the e-mail worker.  The first user *)
(* who gets the address is the account of UserAccount; deleted, the        *)
(* account gives the address free.                                         *)
(***************************************************************************)
EXTENDS UserAccount

CONSTANTS
    Clients,        \* one registration each, and the user it would create
    Nobody,
    Undefined,      \* what JavaScript finds in a field that is not there
    JobAttempts,    \* defaultJobOptions.attempts
    MaxFaults       \* bound on failures

ASSUME ClientsAssumption == Nobody \notin Clients /\ Undefined \notin Clients
ASSUME JobAssumption == JobAttempts \in Nat \ {0} /\ MaxFaults \in Nat

VARIABLES
    pc,             \* where each registration is
    answer,         \* what its client was told
    users,          \* committed rows of the table, deleted ones too
    owner,          \* whose row the account is
    job,            \* the verification mail's job for each user
    faults

regvars == <<pc, answer, users, owner, job, faults>>

-----------------------------------------------------------------------------

JobStates == {"none", "outbox", "waiting", "completed", "failed"}

RegTypeOK ==
    /\ TypeOK
    /\ pc \in [Clients -> {"check", "create", "inserted", "done"}]
    /\ answer \in [Clients -> {"none", "ok", "exists", "error"}]
    /\ users \subseteq Clients /\ owner \in Clients \cup {Nobody}
    /\ job \in [Clients -> [state: JobStates, attempts: 0..JobAttempts]]
    /\ faults \in 0..MaxFaults

RegInit ==
    /\ Init
    /\ pc = [c \in Clients |-> "check"]
    /\ answer = [c \in Clients |-> "none"]
    /\ users = {} /\ owner = Nobody
    /\ job = [c \in Clients |-> [state |-> "none", attempts |-> 0]]
    /\ faults = 0

Fault == faults < MaxFaults /\ faults' = faults + 1

\* The rows of the partial index: deleted_at IS NULL.
Live == {u \in users : u = owner => ~deleted}

Answer(c, a) ==
    /\ pc' = [pc EXCEPT ![c] = "done"]
    /\ answer' = [answer EXCEPT ![c] = a]

\* The catch of UserKyselyRepository.create.
Refusal(uniqueViolation) == IF uniqueViolation THEN "exists" ELSE "error"

-----------------------------------------------------------------------------
(* The handler *)

\* ensureUserCanRegister reads outside the transaction that inserts.
Check(c) ==
    /\ pc[c] = "check"
    /\ IF Live # {} THEN Answer(c, "exists")
       ELSE pc' = [pc EXCEPT ![c] = "create"] /\ UNCHANGED answer
    /\ UNCHANGED <<vars, users, owner, job, faults>>

\* Mutated form: the table has no unique index on the address.
InsertUnindexed(c) ==
    /\ pc[c] = "create"
    /\ pc' = [pc EXCEPT ![c] = "inserted"]
    /\ UNCHANGED <<vars, answer, users, owner, job, faults>>

\* An insert waits for an uncommitted row with its address.
Insert(c) ==
    /\ pc[c] = "create" /\ \A d \in Clients : pc[d] # "inserted"
    /\ IF Live # {} THEN Answer(c, Refusal(TRUE))
       ELSE pc' = [pc EXCEPT ![c] = "inserted"] /\ UNCHANGED answer
    /\ UNCHANGED <<vars, users, owner, job, faults>>

\* A statement fails, and the transaction is rolled back.
Fails(c) ==
    /\ pc[c] \in {"create", "inserted"} /\ Fault
    /\ Answer(c, Refusal(FALSE))
    /\ UNCHANGED <<vars, users, owner, job>>

\* The user, the security row and the event are committed together.
Stores(c) ==
    /\ users' = users \cup {c}
    /\ owner' = IF owner = Nobody THEN c ELSE owner
    /\ job' = [job EXCEPT ![c].state = "outbox"]

Commit(c) ==
    /\ pc[c] = "inserted"
    /\ Stores(c) /\ Answer(c, "ok")
    /\ UNCHANGED <<vars, faults>>

\* The commit is applied and its answer lost.
CommitUnheard(c) ==
    /\ pc[c] = "inserted" /\ Fault
    /\ Stores(c) /\ Answer(c, "error")
    /\ UNCHANGED vars

-----------------------------------------------------------------------------
(* The mail *)

\* toPayload of verificationEmailRoute, and the observed queue's wrapping.
Payload(u) == [userId |-> u, email |-> "address"]
Wrapped(data) == [data |-> data, _obs |-> Undefined]

Field(object, name) == IF name \in DOMAIN object THEN object[name] ELSE Undefined

Publish(u) ==
    /\ job[u].state = "outbox"
    /\ job' = [job EXCEPT ![u].state = "waiting"]
    /\ UNCHANGED <<vars, pc, answer, users, owner, faults>>

\* An attempt counts, and after the last one the job stays failed.
Attempted(u, succeeds) ==
    job' = [job EXCEPT ![u] =
        [attempts |-> @.attempts + 1,
         state |-> IF succeeds THEN "completed"
                   ELSE IF @.attempts + 1 = JobAttempts THEN "failed" ELSE "waiting"]]

\* EmailProcessor hands the job to VerificationEmailHandler as it is; a token
\* for nobody violates action_tokens.user_id NOT NULL.
Attempt(u) ==
    /\ job[u].state = "waiting"
    /\ Attempted(u, Field(Wrapped(Payload(u)), "userId") # Undefined)
    /\ UNCHANGED <<vars, pc, answer, users, owner, faults>>

\* The database or the mail provider fails.
AttemptFails(u) ==
    /\ job[u].state = "waiting" /\ Fault
    /\ Attempted(u, FALSE)
    /\ UNCHANGED <<vars, pc, answer, users, owner>>

-----------------------------------------------------------------------------

Commands == owner # Nobody /\ Next /\ UNCHANGED regvars

RegNext ==
    \/ \E c \in Clients : Check(c) \/ Insert(c) \/ Fails(c) \/ Commit(c) \/ CommitUnheard(c)
    \/ \E u \in Clients : Publish(u) \/ Attempt(u) \/ AttemptFails(u)
    \/ Commands

RegSpec == RegInit /\ [][RegNext]_<<vars, regvars>>

-----------------------------------------------------------------------------

\* One user at most has the address at any time, though the check is made
\* before the transaction; a deleted account's successor included.
OneLiveUser == \A u, v \in Live : u = v

\* A verification mail is given up only when something failed on its way.
MailFailsOnlyByFault == \A u \in Clients : job[u].state = "failed" => faults > 0
=============================================================================
