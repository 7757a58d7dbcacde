------------------------- MODULE RegistrationProofs -------------------------
(***************************************************************************)
(* What is proved of Registration and of the account in it, for any number *)
(* of clients, failures and attempts: the types, that the parts of an      *)
(* account agree, that the lock-out is what the failures say and lasts,    *)
(* and that an address has one user.                                       *)
(***************************************************************************)
EXTENDS Registration, TLAPS

allvars == <<vars, regvars>>

\* What a step of Registration does to the account: a command, or nothing.
LEMMA AccountSteps ==
    ASSUME [RegNext]_allvars
    PROVE  [Next]_vars
<1> USE DEF allvars
<1>1. ASSUME NEW c \in Clients,
             Check(c) \/ Insert(c) \/ Fails(c) \/ Commit(c) \/ CommitUnheard(c)
      PROVE  UNCHANGED vars
  BY <1>1 DEF Check, Insert, Fails, Commit, CommitUnheard
<1>2. ASSUME NEW u \in Clients, Publish(u) \/ Attempt(u) \/ AttemptFails(u)
      PROVE  UNCHANGED vars
  BY <1>2 DEF Publish, Attempt, AttemptFails
<1> QED BY <1>1, <1>2 DEF RegNext, Commands

-----------------------------------------------------------------------------
(* Types *)

LEMMA AccountTypes == ASSUME TypeOK, [Next]_vars PROVE TypeOK'
<1> USE AttemptsAssumption, DurationAssumption, KeepsAssumption
        DEF TypeOK, Statuses, NoLock, Mfa, NoMfa, vars, security
<1>1. CASE VerifyEmail BY <1>1 DEF VerifyEmail
<1>2. CASE VerifyPhone BY <1>2 DEF VerifyPhone
<1>3. CASE ChangePhone BY <1>3 DEF ChangePhone
<1>4. CASE ChangePassword BY <1>4 DEF ChangePassword, Unlock
<1>5. ASSUME NEW target \in {"disabled", "active", "suspended"}, MoveTo(target)
      PROVE  TypeOK'
  BY <1>5 DEF MoveTo
<1>6. CASE SoftDelete BY <1>6 DEF SoftDelete
<1>7. CASE FailedLogin BY <1>7 DEF FailedLogin, LockoutEnd
<1>8. CASE SuccessfulLogin BY <1>8 DEF SuccessfulLogin, Unlock
<1>9. CASE Tick BY <1>9 DEF Tick
<1>10. ASSUME NEW hasSecret \in BOOLEAN, StartTotp(hasSecret) PROVE TypeOK'
  BY <1>10 DEF StartTotp
<1>11. CASE StartEmailMfa BY <1>11 DEF StartEmailMfa, Completed
<1>12. CASE CompleteMfa BY <1>12 DEF CompleteMfa, Completed
<1>13. CASE DisableMfa BY <1>13 DEF DisableMfa, DisabledMfa
<1>14. CASE UNCHANGED vars BY <1>14
<1> QED BY <1>1, <1>2, <1>3, <1>4, <1>5, <1>6, <1>7, <1>8, <1>9, <1>10,
           <1>11, <1>12, <1>13, <1>14 DEF Next

LEMMA AccountInitTypes == ASSUME Init PROVE TypeOK
<1>1. NoMfa \in Mfa BY DEF NoMfa, Mfa
<1>2. 0 \in 0..MaxCount /\ NoLock \in NoLock..Duration
  BY AttemptsAssumption, DurationAssumption DEF NoLock
<1> QED BY <1>1, <1>2 DEF Init, TypeOK, Statuses

-----------------------------------------------------------------------------
(* Jobs *)

Jobs == [Clients -> [state: JobStates, attempts: 0..JobAttempts]]

\* A job that may be attempted once more has an attempt left.
JobsOpen == \A u \in Clients :
    job[u].state \notin {"completed", "failed"} => job[u].attempts < JobAttempts

JobsInv == job \in Jobs /\ JobsOpen

LEMMA AttemptedJobs ==
    ASSUME JobsInv, NEW u \in Clients, NEW ok \in BOOLEAN,
           job[u].state = "waiting", Attempted(u, ok)
    PROVE  JobsInv'
<1> DEFINE after == [attempts |-> job[u].attempts + 1,
                     state |-> IF ok THEN "completed"
                               ELSE IF job[u].attempts + 1 = JobAttempts THEN "failed" ELSE "waiting"]
<1>1. job[u].attempts \in 0..JobAttempts /\ job[u].attempts < JobAttempts
  BY DEF JobsInv, Jobs, JobsOpen
<1>2. after \in [state: JobStates, attempts: 0..JobAttempts]
  BY <1>1, JobAssumption DEF JobStates
<1>3. after.state \notin {"completed", "failed"} => after.attempts < JobAttempts
  BY <1>1, JobAssumption
<1>4. job' = [job EXCEPT ![u] = after] BY DEF Attempted, JobsInv, Jobs
<1> QED BY <1>2, <1>3, <1>4 DEF JobsInv, Jobs, JobsOpen

LEMMA MovedJobs ==
    ASSUME JobsInv, NEW u \in Clients, NEW s \in JobStates,
           job[u].state \in {"none", "outbox", "waiting"}, job' = [job EXCEPT ![u].state = s]
    PROVE  JobsInv'
<1>1. job' \in Jobs BY DEF JobsInv, Jobs
<1>2. \A v \in Clients : job'[v].attempts = job[v].attempts BY DEF JobsInv, Jobs
<1>3. \A v \in Clients \ {u} : job'[v] = job[v] BY DEF JobsInv, Jobs
<1>4. job[u].attempts < JobAttempts BY DEF JobsInv, JobsOpen
<1> QED BY <1>1, <1>2, <1>3, <1>4 DEF JobsInv, JobsOpen

\* A registration that has not committed has no job yet.
Unmailed == \A c \in Clients : pc[c] # "done" => job[c].state = "none"

RegInv == RegTypeOK /\ JobsOpen /\ Unmailed

LEMMA RegistrationTypes == ASSUME RegInv, [RegNext]_allvars PROVE RegInv'
<1>t. TypeOK' BY AccountTypes, AccountSteps DEF RegTypeOK, RegInv
<1>j. JobsInv BY DEF RegInv, RegTypeOK, JobsInv, Jobs
<1>k. ASSUME JobsInv', pc' \in [Clients -> {"check", "create", "inserted", "done"}],
             answer' \in [Clients -> {"none", "ok", "exists", "error"}],
             users' \subseteq Clients, owner' \in Clients \cup {Nobody},
             faults' \in 0..MaxFaults, Unmailed'
      PROVE  RegInv'
  BY <1>t, <1>k DEF RegInv, RegTypeOK, JobsInv, Jobs
<1>0. pc \in [Clients -> {"check", "create", "inserted", "done"}] /\ Unmailed
  /\ answer \in [Clients -> {"none", "ok", "exists", "error"}]
  /\ users \subseteq Clients /\ owner \in Clients \cup {Nobody} /\ faults \in 0..MaxFaults
  /\ job \in Jobs
  BY DEF RegInv, RegTypeOK, Jobs
<1>u. UNCHANGED job => JobsInv' BY <1>j DEF JobsInv, JobsOpen
<1>f. Fault => faults' \in 0..MaxFaults BY <1>0, JobAssumption DEF Fault
<1>1. ASSUME NEW c \in Clients, Check(c) PROVE RegInv'
  BY <1>1, <1>0, <1>k, <1>u DEF Check, Answer, Unmailed
<1>2. ASSUME NEW c \in Clients, Insert(c) PROVE RegInv'
  BY <1>2, <1>0, <1>k, <1>u DEF Insert, Answer, Refusal, Unmailed
<1>3. ASSUME NEW c \in Clients, Fails(c) PROVE RegInv'
  BY <1>3, <1>0, <1>k, <1>u, <1>f DEF Fails, Answer, Refusal, Unmailed
<1>4. ASSUME NEW c \in Clients, pc[c] = "inserted", Stores(c),
             \E a \in {"ok", "error"} : Answer(c, a), faults' \in 0..MaxFaults
      PROVE  RegInv'
  <2>1. JobsInv' BY <1>4, <1>0, <1>j, MovedJobs DEF Stores, JobStates, Unmailed
  <2>2. Unmailed' BY <1>4, <1>0 DEF Stores, Answer, Unmailed, Jobs
  <2> QED BY <1>4, <1>0, <1>k, <2>1, <2>2 DEF Stores, Answer
<1>5. ASSUME NEW c \in Clients, Commit(c) \/ CommitUnheard(c) PROVE RegInv'
  BY <1>5, <1>4, <1>0, <1>f DEF Commit, CommitUnheard
<1>6. ASSUME NEW u \in Clients, Publish(u) PROVE RegInv'
  <2>1. JobsInv' BY <1>6, <1>j, MovedJobs DEF Publish, JobStates
  <2>2. Unmailed' BY <1>6, <1>0 DEF Publish, Unmailed, Jobs
  <2> QED BY <1>6, <1>0, <1>k, <2>1, <2>2 DEF Publish
<1>7. ASSUME NEW u \in Clients, Attempt(u) \/ AttemptFails(u) PROVE RegInv'
  <2>1. job[u].state = "waiting" /\ \E ok \in BOOLEAN : Attempted(u, ok)
    BY <1>7 DEF Attempt, AttemptFails
  <2>2. JobsInv' BY <2>1, <1>j, AttemptedJobs
  <2>3. Unmailed' BY <1>7, <2>1, <1>0 DEF Attempt, AttemptFails, Attempted, Unmailed, Jobs
  <2> QED BY <1>7, <1>0, <1>k, <1>f, <2>2, <2>3 DEF Attempt, AttemptFails
<1>8. CASE UNCHANGED regvars
  BY <1>8, <1>0, <1>k, <1>u DEF regvars, Unmailed
<1> QED BY <1>1, <1>2, <1>3, <1>5, <1>6, <1>7, <1>8 DEF RegNext, Commands, allvars

LEMMA RegistrationInitTypes == ASSUME RegInit PROVE RegInv
<1>1. job \in Jobs BY JobAssumption DEF RegInit, Jobs, JobStates
<1>2. TypeOK BY AccountInitTypes DEF RegInit
<1> QED BY <1>1, <1>2, JobAssumption DEF RegInit, RegInv, RegTypeOK, JobsOpen, Unmailed, Jobs

\* Every variable keeps its type.
THEOREM TypeCorrect == RegSpec => []RegTypeOK
<1>1. RegInit => RegInv BY RegistrationInitTypes
<1>2. RegInv /\ [RegNext]_allvars => RegInv' BY RegistrationTypes
<1>3. RegInv => RegTypeOK BY DEF RegInv
<1> QED BY <1>1, <1>2, <1>3, PTL DEF RegSpec, allvars

-----------------------------------------------------------------------------
(* The lock-out *)

LEMMA CountStep == ASSUME TypeOK, CountTellsLock, [Next]_vars PROVE CountTellsLock'
<1> USE AttemptsAssumption, DurationAssumption
        DEF CountTellsLock, TypeOK, NoLock, vars, security
<1>1. CASE FailedLogin BY <1>1 DEF FailedLogin, ReachesLimit, LockoutEnd
<1>2. CASE ChangePassword \/ SuccessfulLogin BY <1>2 DEF ChangePassword, SuccessfulLogin, Unlock
<1>3. CASE Tick BY <1>3 DEF Tick
<1>4. ASSUME UNCHANGED <<failed, lockout>> PROVE CountTellsLock' BY <1>4
<1> QED BY <1>1, <1>2, <1>3, <1>4 DEF Next, VerifyEmail, VerifyPhone, ChangePhone,
       MoveTo, SoftDelete, StartTotp, StartEmailMfa, CompleteMfa, DisableMfa

\* The account is locked, or was and is unlocked by time alone, exactly when it
\* has had the failures that lock it, whatever commands come in whatever order.
THEOREM CountsTell == RegSpec => []CountTellsLock
<1>1. RegInit => TypeOK /\ CountTellsLock
  <2> SUFFICES ASSUME Init PROVE TypeOK /\ CountTellsLock BY DEF RegInit
  <2>1. CountTellsLock BY AttemptsAssumption DEF Init, CountTellsLock
  <2> QED BY <2>1, AccountInitTypes
<1>2. TypeOK /\ CountTellsLock /\ [RegNext]_allvars => TypeOK' /\ CountTellsLock'
  BY CountStep, AccountTypes, AccountSteps
<1> QED BY <1>1, <1>2, PTL DEF RegSpec, allvars

LEMMA LockStep ==
    ASSUME TypeOK, [Next]_vars, lockout >= 0
    PROVE  lockout' <= lockout /\ (~CanPerformActions => lockout' >= lockout - 1)
<1> USE DEF TypeOK, NoLock, vars, security
<1>1. CASE FailedLogin \/ SuccessfulLogin
  BY <1>1 DEF FailedLogin, SuccessfulLogin, CanAuthenticate, LockedOut
<1>2. CASE ChangePassword BY <1>2 DEF ChangePassword, Unlock
<1>3. CASE Tick BY <1>3 DEF Tick
<1>4. ASSUME UNCHANGED lockout
      PROVE  lockout' <= lockout /\ (~CanPerformActions => lockout' >= lockout - 1)
  BY <1>4, DurationAssumption
<1> QED BY <1>1, <1>2, <1>3, <1>4 DEF Next, VerifyEmail, VerifyPhone, ChangePhone,
       MoveTo, SoftDelete, StartTotp, StartEmailMfa, CompleteMfa, DisableMfa

\* A running lock-out is not extended, and only a password change of an account
\* that may act ends it early.
THEOREM LocksSurvive == RegSpec => LockSurvives
<1>1. RegInit => TypeOK BY AccountInitTypes DEF RegInit
<1>2. TypeOK /\ [RegNext]_allvars => TypeOK' BY AccountTypes, AccountSteps
<1>3. TypeOK /\ [RegNext]_allvars
        => [lockout >= 0 => /\ lockout' <= lockout
                            /\ ~CanPerformActions => lockout' >= lockout - 1]_vars
  BY LockStep, AccountSteps
<1> QED BY <1>1, <1>2, <1>3, PTL DEF RegSpec, allvars, LockSurvives

-----------------------------------------------------------------------------
(* The parts of an account agree *)

\* A second factor that is off has no method.
OffIsBlank == mfa.status = "disabled" => mfa.type = "none"

LEMMA ConsistentStep ==
    ASSUME ~KeepsAfterThrow, TypeOK, OffIsBlank, AccountConsistent, [Next]_vars
    PROVE  OffIsBlank' /\ AccountConsistent'
<1> USE DEF TypeOK, Statuses, Mfa, OffIsBlank, AccountConsistent, Storable, SecretWhenTotp,
            VerifiedFirst, EventsTellStatus, vars, security
<1>1. CASE VerifyEmail BY <1>1 DEF VerifyEmail, CanPerformActions
<1>2. ASSUME NEW target \in {"disabled", "active", "suspended"}, MoveTo(target)
      PROVE  OffIsBlank' /\ AccountConsistent'
  BY <1>2 DEF MoveTo, AllowedTransitions
<1>3. ASSUME NEW hasSecret \in BOOLEAN, StartTotp(hasSecret)
      PROVE  OffIsBlank' /\ AccountConsistent'
  BY <1>3 DEF StartTotp
<1>4. CASE StartEmailMfa BY <1>4 DEF StartEmailMfa, Completed
<1>5. CASE CompleteMfa BY <1>5 DEF CompleteMfa, Completed
<1>6. CASE DisableMfa BY <1>6 DEF DisableMfa, DisabledMfa, NoMfa
<1>7. ASSUME UNCHANGED <<status, emailVerified, mfa, told>>
      PROVE  OffIsBlank' /\ AccountConsistent'
  BY <1>7
<1> QED BY <1>1, <1>2, <1>3, <1>4, <1>5, <1>6, <1>7 DEF Next, VerifyPhone, ChangePhone,
       ChangePassword, SoftDelete, FailedLogin, SuccessfulLogin, Tick

\* As long as nobody goes on with an aggregate that threw, the parts of the
\* second factor, the status, the verified address and the events agree.
THEOREM Consistent == ASSUME ~KeepsAfterThrow PROVE RegSpec => []AccountConsistent
<1> DEFINE Inv == TypeOK /\ OffIsBlank /\ AccountConsistent
<1>1. RegInit => Inv
  <2> SUFFICES ASSUME Init PROVE Inv BY DEF RegInit
  <2>1. OffIsBlank /\ AccountConsistent
    BY DEF Init, NoMfa, OffIsBlank, AccountConsistent, Storable, SecretWhenTotp,
       VerifiedFirst, EventsTellStatus
  <2> QED BY <2>1, AccountInitTypes
<1>2. Inv /\ [RegNext]_allvars => Inv' BY ConsistentStep, AccountTypes, AccountSteps
<1>3. Inv => AccountConsistent OBVIOUS
<1> QED BY <1>1, <1>2, <1>3, PTL DEF RegSpec, allvars

-----------------------------------------------------------------------------
(* One user has the address *)

\* One transaction at most has inserted a row and not ended, the address is
\* free then, and there is an account as soon as there is a user.
AddressInv ==
    /\ \A c, d \in Clients : pc[c] = "inserted" /\ pc[d] = "inserted" => c = d
    /\ (\E c \in Clients : pc[c] = "inserted") => Live = {}
    /\ owner = Nobody => users = {} /\ ~deleted
    /\ OneLiveUser

LEMMA DeletedStays == ASSUME [Next]_vars PROVE deleted => deleted'
BY DEF Next, VerifyEmail, VerifyPhone, ChangePhone, ChangePassword, MoveTo, SoftDelete,
       FailedLogin, SuccessfulLogin, Tick, StartTotp, StartEmailMfa, CompleteMfa, DisableMfa,
       vars, security

LEMMA AddressStep == ASSUME RegTypeOK, AddressInv, [RegNext]_allvars PROVE AddressInv'
<1> USE DEF RegTypeOK, AddressInv, OneLiveUser
<1>1. ASSUME NEW c \in Clients, Check(c) PROVE AddressInv'
  BY <1>1 DEF Check, Answer, Live, vars
<1>2. ASSUME NEW c \in Clients, Insert(c) PROVE AddressInv'
  BY <1>2 DEF Insert, Answer, Live, vars
<1>3. ASSUME NEW c \in Clients, Fails(c) PROVE AddressInv'
  BY <1>3 DEF Fails, Answer, Live, vars
<1>4. ASSUME NEW c \in Clients, pc[c] = "inserted", Stores(c),
             pc' = [pc EXCEPT ![c] = "done"], UNCHANGED vars
      PROVE  AddressInv'
  <2>1. Live = {} BY <1>4
  <2>2. owner' # Nobody BY <1>4, ClientsAssumption DEF Stores
  <2>3. Live' \subseteq {c}
    <3>1. CASE owner = Nobody BY <1>4, <3>1 DEF Live, Stores
    <3>2. CASE owner # Nobody BY <1>4, <2>1, <3>2 DEF Live, Stores, vars
    <3> QED BY <3>1, <3>2
  <2>4. \A d \in Clients : pc'[d] # "inserted" BY <1>4
  <2> QED BY <2>2, <2>3, <2>4
<1>5. ASSUME NEW c \in Clients, Commit(c) \/ CommitUnheard(c) PROVE AddressInv'
  BY <1>5, <1>4 DEF Commit, CommitUnheard, Answer
<1>6. ASSUME NEW u \in Clients, Publish(u) \/ Attempt(u) \/ AttemptFails(u) PROVE AddressInv'
  <2>1. UNCHANGED <<pc, users, owner, vars>> BY <1>6 DEF Publish, Attempt, AttemptFails
  <2> QED BY <2>1 DEF Live, vars
<1>7. CASE Commands
  <2>1. deleted => deleted' BY <1>7, DeletedStays DEF Commands
  <2>2. Live' \subseteq Live BY <1>7, <2>1 DEF Commands, regvars, Live
  <2> QED BY <1>7, <2>2 DEF Commands, regvars
<1>8. CASE UNCHANGED allvars BY <1>8 DEF allvars, vars, regvars, Live
<1> QED BY <1>1, <1>2, <1>3, <1>5, <1>6, <1>7, <1>8 DEF RegNext

\* However many registrations of one address overlap, and whenever the account
\* is deleted, one user at most has the address.
THEOREM OneUser == RegSpec => []OneLiveUser
<1> DEFINE Inv == RegInv /\ AddressInv
<1>1. RegInit => Inv
  BY RegistrationInitTypes DEF RegInit, Init, AddressInv, OneLiveUser, Live
<1>2. Inv /\ [RegNext]_allvars => Inv' BY RegistrationTypes, AddressStep DEF RegInv
<1>3. Inv => OneLiveUser BY DEF AddressInv
<1> QED BY <1>1, <1>2, <1>3, PTL DEF RegSpec, allvars
=============================================================================
