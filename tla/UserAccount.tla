---------------------------- MODULE UserAccount ----------------------------
(***************************************************************************)
(* The User aggregate and its UserSecurity entity for one registered user: *)
(* one action per command.  A command that throws changes nothing, unless  *)
(* it throws half way (startMfaSetup without a secret) and its caller goes *)
(* on with the aggregate it has (KeepsAfterThrow).                         *)
(*                                                                         *)
(* lockout is the time left until lockoutUntil: NoLock for null, -1 for a  *)
(* time that has passed.                                                   *)
(***************************************************************************)
EXTENDS Integers

CONSTANTS
    MaxAttempts,        \* MAX_FAILED_ATTEMPTS
    Duration,           \* LOCKOUT_DURATION, in ticks
    MaxCount,           \* bound on failedLoginAttempts
    KeepsAfterThrow     \* is an aggregate used on after it threw?

ASSUME AttemptsAssumption ==
    MaxAttempts \in Nat \ {0} /\ MaxCount \in Nat /\ MaxAttempts <= MaxCount
ASSUME DurationAssumption == Duration \in Nat
ASSUME KeepsAssumption == KeepsAfterThrow \in BOOLEAN

VARIABLES
    status, emailVerified, deleted,
    phone,              \* none, given (not verified) or verified
    failed,             \* failedLoginAttempts
    lockout,
    mfa,                \* mfaStatus, mfaType, is there a secret, mfaEnabledAt # null
    told                \* history: the status the domain events tell of

security == <<failed, lockout, mfa>>
vars == <<status, emailVerified, deleted, phone, security, told>>

-----------------------------------------------------------------------------

Statuses == {"pending", "active", "suspended", "disabled"}

NoLock == -2

Mfa == [status: {"disabled", "pending", "enabled"}, type: {"none", "email", "totp"},
        secret: BOOLEAN, enabledAt: BOOLEAN]

NoMfa == [status |-> "disabled", type |-> "none", secret |-> FALSE, enabledAt |-> FALSE]

TypeOK ==
    /\ status \in Statuses /\ emailVerified \in BOOLEAN /\ deleted \in BOOLEAN
    /\ phone \in {"none", "given", "verified"}
    /\ failed \in 0..MaxCount /\ lockout \in NoLock..Duration
    /\ mfa \in Mfa
    /\ told \in Statuses

\* User.create and the event it adds.
Init ==
    /\ status = "pending" /\ emailVerified = FALSE /\ deleted = FALSE
    /\ phone = "none"
    /\ failed = 0 /\ lockout = NoLock /\ mfa = NoMfa
    /\ told = "pending"

\* ALLOWED_TRANSITIONS
AllowedTransitions(from) ==
    IF from = "active" THEN {"suspended", "disabled"}
    ELSE IF from = "suspended" THEN {"active", "disabled"}
    ELSE {}

CanPerformActions == status = "active" /\ ~deleted

\* Mutated form: a time that is reached no longer locks.
LockedOutStrictly == lockout > 0

LockedOut == lockout >= 0

CanAuthenticate == ~deleted /\ status \notin {"pending", "disabled"} /\ ~LockedOut

Unlock == failed' = 0 /\ lockout' = NoLock

-----------------------------------------------------------------------------
(* E-mail, phone, password, profile *)

\* verifyEmail returns early for a verified one, whatever the status.
VerifyEmail ==
    /\ ~emailVerified /\ (status = "pending" \/ CanPerformActions)
    /\ emailVerified' = TRUE
    /\ IF status = "pending"
       THEN status' = "active" /\ told' = "active"
       ELSE UNCHANGED <<status, told>>
    /\ UNCHANGED <<deleted, phone, security>>

VerifyPhone ==
    /\ CanPerformActions /\ phone = "given"
    /\ phone' = "verified"
    /\ UNCHANGED <<status, emailVerified, deleted, security, told>>

\* updateProfile with a phone; the names are not modelled.
ChangePhone ==
    /\ CanPerformActions
    /\ phone' = "given"
    /\ UNCHANGED <<status, emailVerified, deleted, security, told>>

ChangePassword ==
    /\ CanPerformActions
    /\ Unlock
    /\ UNCHANGED <<status, emailVerified, deleted, phone, mfa, told>>

-----------------------------------------------------------------------------
(* disable, enable and suspend *)

\* Nothing looks at deletedAt.
MoveTo(target) ==
    /\ status # target /\ target \in AllowedTransitions(status)
    /\ status' = target
    /\ told' = target
    /\ UNCHANGED <<emailVerified, deleted, phone, security>>

SoftDelete ==
    /\ CanPerformActions
    /\ deleted' = TRUE
    /\ UNCHANGED <<status, emailVerified, phone, security, told>>

-----------------------------------------------------------------------------
(* Logins *)

\* Mutated form: the lock-out begins one attempt late.
ReachesLimitLate(count) == count > MaxAttempts

ReachesLimit(count) == count >= MaxAttempts

\* now + LOCKOUT_DURATION
LockoutEnd == Duration

\* The count goes on from where it was when an earlier lock-out ran out.
FailedLogin ==
    /\ CanAuthenticate /\ failed < MaxCount
    /\ failed' = failed + 1
    /\ lockout' = IF ReachesLimit(failed + 1) THEN LockoutEnd ELSE lockout
    /\ UNCHANGED <<status, emailVerified, deleted, phone, mfa, told>>

SuccessfulLogin ==
    /\ CanAuthenticate
    /\ Unlock
    /\ UNCHANGED <<status, emailVerified, deleted, phone, mfa, told>>

Tick ==
    /\ lockout >= 0
    /\ lockout' = lockout - 1
    /\ UNCHANGED <<status, emailVerified, deleted, phone, failed, mfa, told>>

-----------------------------------------------------------------------------
(* Multi-factor authentication *)

\* A set-up for an authenticator application, with its secret or without it:
\* then it throws, and is pending by then.
StartTotp(hasSecret) ==
    /\ CanPerformActions /\ mfa.status = "disabled"
    /\ hasSecret \/ KeepsAfterThrow
    /\ mfa' = [mfa EXCEPT !.status = "pending", !.type = "totp", !.secret = hasSecret]
    /\ UNCHANGED <<status, emailVerified, deleted, phone, failed, lockout, told>>

Completed == [mfa EXCEPT !.status = "enabled", !.enabledAt = TRUE]

\* A set-up for e-mail is complete at once; a secret is not stored.
StartEmailMfa ==
    /\ CanPerformActions /\ mfa.status = "disabled"
    /\ mfa' = [Completed EXCEPT !.type = "email"]
    /\ UNCHANGED <<status, emailVerified, deleted, phone, failed, lockout, told>>

CompleteMfa ==
    /\ CanPerformActions /\ mfa.status = "pending"
    /\ mfa' = Completed
    /\ UNCHANGED <<status, emailVerified, deleted, phone, failed, lockout, told>>

\* Mutated form: the secret stays.
DisabledMfaKeepsSecret == [NoMfa EXCEPT !.secret = mfa.secret]

DisabledMfa == NoMfa

DisableMfa ==
    /\ CanPerformActions /\ mfa.status = "enabled"
    /\ mfa' = DisabledMfa
    /\ UNCHANGED <<status, emailVerified, deleted, phone, failed, lockout, told>>

-----------------------------------------------------------------------------

Next ==
    \/ VerifyEmail \/ VerifyPhone \/ ChangePhone \/ ChangePassword
    \/ \E target \in {"disabled", "active", "suspended"} : MoveTo(target)
    \/ SoftDelete
    \/ FailedLogin \/ SuccessfulLogin \/ Tick
    \/ \E hasSecret \in BOOLEAN : StartTotp(hasSecret)
    \/ StartEmailMfa \/ CompleteMfa \/ DisableMfa

Spec == Init /\ [][Next]_vars

-----------------------------------------------------------------------------
(* Safety *)

\* Ten failures since the last success or password change lock the account,
\* and nothing less does: the count and lockoutUntil, set and reset by
\* different commands, never tell different stories; once the lock-out has run
\* out the next failure locks it again.
CountTellsLock == failed >= MaxAttempts <=> lockout # NoLock

\* chk_mfa_fields_consistent holds of whatever the commands make of the
\* entity, so that it can be stored.
Storable == mfa.status = "enabled" <=> mfa.enabledAt

\* There is a secret exactly when the method in use, or being set up, is an
\* authenticator: none is left over by a method that was given up.
SecretWhenTotp == mfa.secret <=> mfa.type = "totp"

\* Nobody is let in, suspended or disabled who has not verified the address.
VerifiedFirst == status = "pending" <=> ~emailVerified

\* Who follows the domain events knows the status.
EventsTellStatus == told = status

\* Fields that different commands set never tell different stories: the parts
\* of the second factor, status and verified address, status and events.
AccountConsistent == Storable /\ SecretWhenTotp /\ VerifiedFirst /\ EventsTellStatus

-----------------------------------------------------------------------------
(* Action properties *)

\* A lock-out is never extended, and of an account that may not act nothing
\* but time ends it: a suspended user's right password does not, to the last
\* instant of lockoutUntil.
LockSurvives ==
    [][lockout >= 0 => /\ lockout' <= lockout
                       /\ ~CanPerformActions => lockout' >= lockout - 1]_vars

=============================================================================
