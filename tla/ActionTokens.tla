---------------------------- MODULE ActionTokens ----------------------------
(***************************************************************************)
(* Action tokens (libs/core/src/security/action-token): the one-time       *)
(* tokens behind verification, reset and login links.  Issue, revoke and   *)
(* consume each read operational.action_tokens and then write it, in the   *)
(* READ COMMITTED transaction of their caller; a cleanup runs every night. *)
(*                                                                         *)
(* A read is one step.  The writes of an operation take effect with the    *)
(* commit and hold their rows locked until then, so they are the other.    *)
(* Time is kept as the time left until expires_at, so it needs no bound.   *)
(***************************************************************************)
EXTENDS Integers, FiniteSets

CONSTANTS
    Tokens,          \* token ids; each is generated at most once
    NoToken,
    Clients,         \* transactions in flight at one time
    Users, Purposes,
    UserOf,          \* the user and the purpose of a token
    PurposeOf,
    SingleActive,    \* purposes whose policy has singleActiveInstance
    TTL,             \* policy.ttl, in ticks
    Retention        \* config.retentionPeriod, in ticks

ASSUME OwnersAssumption ==
    /\ UserOf \in [Tokens -> Users]
    /\ PurposeOf \in [Tokens -> Purposes]
    /\ SingleActive \subseteq Purposes
    /\ NoToken \notin Tokens
ASSUME PeriodsAssumption == TTL \in Nat \ {0} /\ Retention \in Nat

VARIABLES
    row,    \* the table: [Tokens -> Row]
    txn,    \* what each client has read: [Clients -> Txn]
    uses,   \* history: consume calls that returned to a committed caller
    overlapping     \* history: the pairs of tokens for one user and purpose whose
                    \* issues have been in flight at the same time

vars == <<row, txn, uses, overlapping>>

-----------------------------------------------------------------------------

Oldest == -(Retention + 1)      \* no code tells older rows apart

Row == [status: {"never", "stored", "deleted"}, left: Oldest..TTL,
        consumed: BOOLEAN, revoked: BOOLEAN, version: Nat]

NoRow == [status |-> "never", left |-> 0,
          consumed |-> FALSE, revoked |-> FALSE, version |-> 0]

\* ActionToken.create
CreatedRow == [NoRow EXCEPT !.status = "stored", !.left = TTL]

\* isUsable, and the conditions of the findUsable queries.
IsUsable(r) == r.status = "stored" /\ ~r.consumed /\ ~r.revoked /\ r.left > 0

\* ActionToken.consume on the copy in memory.
ConsumedCopy(r) == [r EXCEPT !.consumed = TRUE, !.version = @ + 1]

\* Mutated form: update without WHERE version.
UpdatesUnversioned(r, copy) == r.status = "stored"

\* update finds the row as it was when copy was read.
Updates(r, copy) == r.status = "stored" /\ r.version = copy.version - 1

\* Mutated form: revoking leaves the version as it is.
RevokedRowSameVersion(r) ==
    IF r.status = "stored" /\ ~r.revoked /\ ~r.consumed
    THEN [r EXCEPT !.revoked = TRUE] ELSE r

\* revokeUsableByIds, for one of the ids: an expired token is revoked too.
RevokedRow(r) ==
    IF r.status = "stored" /\ ~r.revoked /\ ~r.consumed
    THEN [r EXCEPT !.revoked = TRUE, !.version = @ + 1] ELSE r

\* Mutated form: the tokens of a user, without WHERE purpose.
UsableOfUser(users, purposes) ==
    {t \in Tokens : IsUsable(row[t]) /\ UserOf[t] \in users}

UsableOf(users, purposes) ==
    {t \in Tokens : IsUsable(row[t]) /\ UserOf[t] \in users /\ PurposeOf[t] \in purposes}

\* "issue": has read the tokens to supersede (seen), will store target;
\* "revoke": has read the tokens to revoke (seen);
\* "consume": holds target as consumed in memory (copy).
Txn == [kind: {"none", "issue", "revoke", "consume"},
        target: Tokens \cup {NoToken}, seen: SUBSET Tokens, copy: Row]

NoTxn == [kind |-> "none", target |-> NoToken, seen |-> {}, copy |-> NoRow]

TypeOK ==
    /\ row \in [Tokens -> Row]
    /\ txn \in [Clients -> Txn]
    /\ uses \in [Tokens -> Nat]
    /\ overlapping \subseteq SUBSET Tokens

Init ==
    /\ row = [t \in Tokens |-> NoRow]
    /\ txn = [c \in Clients |-> NoTxn]
    /\ uses = [t \in Tokens |-> 0]
    /\ overlapping = {}

-----------------------------------------------------------------------------
(* Reads *)

Begin(c, t) == txn[c] = NoTxn /\ txn' = [txn EXCEPT ![c] = t] /\ UNCHANGED <<row, uses>>

Issues(c, t) == txn[c].kind = "issue" /\ txn[c].target = t

Asked(t) == \E d \in Clients : Issues(d, t)

Slot(t) == <<UserOf[t], PurposeOf[t]>>

\* The tokens for t's user and purpose whose issue is in flight.
UnderWay(t) == {x \in Tokens : Slot(x) = Slot(t) /\ Asked(x)}

\* IssueActionTokenService.execute: the usable tokens of the same user and
\* purpose, or none when the policy allows several.  Nothing keeps two issues
\* for one user and purpose apart.
IssueReads(c, t) ==
    /\ row[t].status = "never"
    /\ ~Asked(t)
    /\ Begin(c, [NoTxn EXCEPT
           !.kind = "issue", !.target = t,
           !.seen = IF PurposeOf[t] \in SingleActive
                    THEN UsableOf({UserOf[t]}, {PurposeOf[t]}) ELSE {}])
    /\ overlapping' = overlapping \cup {{t, x} : x \in UnderWay(t)}

RevokeReads(c, found) ==
    /\ found # {}
    /\ Begin(c, [NoTxn EXCEPT !.kind = "revoke", !.seen = found])
    /\ UNCHANGED overlapping

AllForUserReads(c, u) == RevokeReads(c, UsableOf({u}, Purposes))

ByPurposeReads(c, u, p) == RevokeReads(c, UsableOf({u}, {p}))

ByIdReads(c, t) == row[t].status = "stored" /\ RevokeReads(c, {t})

\* ConsumeActionTokenService.execute up to the update.  A token that is not
\* found, not usable or presented for another purpose throws before any write.
ConsumeReads(c, t) ==
    /\ IsUsable(row[t])
    /\ Begin(c, [NoTxn EXCEPT !.kind = "consume", !.target = t, !.copy = ConsumedCopy(row[t])])
    /\ UNCHANGED overlapping

-----------------------------------------------------------------------------
(* Writes *)

Revoked(ids) == [t \in Tokens |-> IF t \in ids THEN RevokedRow(row[t]) ELSE row[t]]

End(c) == txn' = [txn EXCEPT ![c] = NoTxn]

\* Mutated form: the tokens found are revoked in memory only.
IssueCommitsKeeping(c) ==
    /\ txn[c].kind = "issue"
    /\ row' = [row EXCEPT ![txn[c].target] = CreatedRow]
    /\ End(c)
    /\ UNCHANGED <<uses, overlapping>>

IssueCommits(c) ==
    /\ txn[c].kind = "issue"
    /\ row' = [Revoked(txn[c].seen) EXCEPT ![txn[c].target] = CreatedRow]
    /\ End(c)
    /\ UNCHANGED <<uses, overlapping>>

RevokeCommits(c) ==
    /\ txn[c].kind = "revoke"
    /\ row' = Revoked(txn[c].seen)
    /\ End(c)
    /\ UNCHANGED <<uses, overlapping>>

\* The copy overwrites every column; the caller may lose the answer.
ConsumeCommits(c) ==
    LET t == txn[c].target IN
    /\ txn[c].kind = "consume"
    /\ Updates(row[t], txn[c].copy)
    /\ row' = [row EXCEPT ![t] = [txn[c].copy EXCEPT !.left = row[t].left]]
    /\ uses' \in {uses, [uses EXCEPT ![t] = @ + 1]}
    /\ End(c)
    /\ UNCHANGED overlapping

\* OptimisticConcurrencyControlException, a later failure in the caller's
\* transaction, a deadlock of two revocations or a lost connection: rollback.
Abort(c) ==
    /\ txn[c] # NoTxn
    /\ End(c)
    /\ overlapping' = IF txn[c].kind = "issue"
                      THEN {pair \in overlapping : txn[c].target \notin pair}
                      ELSE overlapping
    /\ UNCHANGED <<row, uses>>

-----------------------------------------------------------------------------
(* Cleanup and time *)

\* CleanupExpiredActionTokensService.execute: the batches of its loop, all in
\* one transaction, delete every row past its retention.
Cleanup ==
    /\ row' = [t \in Tokens |->
                  IF row[t].status = "stored" /\ row[t].left < -Retention
                  THEN [row[t] EXCEPT !.status = "deleted"] ELSE row[t]]
    /\ UNCHANGED <<txn, uses, overlapping>>

Tick ==
    /\ row' = [t \in Tokens |->
                  IF row[t].status = "stored" /\ row[t].left > Oldest
                  THEN [row[t] EXCEPT !.left = @ - 1] ELSE row[t]]
    /\ UNCHANGED <<txn, uses, overlapping>>

Next ==
    \/ \E c \in Clients :
        \/ \E t \in Tokens : IssueReads(c, t) \/ ByIdReads(c, t) \/ ConsumeReads(c, t)
        \/ \E u \in Users : AllForUserReads(c, u)
        \/ \E u \in Users, p \in Purposes : ByPurposeReads(c, u, p)
        \/ IssueCommits(c)
        \/ RevokeCommits(c)
        \/ ConsumeCommits(c)
        \/ Abort(c)
    \/ Cleanup
    \/ Tick

Spec == Init /\ [][Next]_vars

-----------------------------------------------------------------------------
(* Properties *)

\* However many requests present a token at once, and whatever revokes it
\* meanwhile, at most one of them gets it, and then the row says so.
OneUse ==
    \A t \in Tokens :
        /\ uses[t] <= 1
        /\ uses[t] = 1 => row[t].consumed

\* A token once consumed or revoked stays so: no whole-row update made from an
\* older copy undoes a verdict, and no token gets both.
VerdictFinal ==
    [][\A t \in Tokens : row[t].consumed \/ row[t].revoked =>
        /\ row'[t].consumed = row[t].consumed
        /\ row'[t].revoked = row[t].revoked]_vars

\* The version, which alone guards update, tells open tokens from settled ones,
\* and no statement relies on chk_action_tokens_consumption to be refused.
VersionTells ==
    \A t \in Tokens :
        /\ row[t].version = 0 <=> ~row[t].consumed /\ ~row[t].revoked
        /\ ~(row[t].consumed /\ row[t].revoked)

\* For a purpose whose policy has singleActiveInstance a user has two usable
\* tokens only when their issues were in flight at the same time, so that
\* neither could read the other's token; whatever revocations, consumptions,
\* aborted transactions and further issues run beside them.
SingleActiveInstance ==
    \A t1, t2 \in Tokens :
        /\ IsUsable(row[t1]) /\ IsUsable(row[t2])
        /\ Slot(t1) = Slot(t2)
        /\ PurposeOf[t1] \in SingleActive
        => t1 = t2 \/ {t1, t2} \in overlapping

\* What a row says to those who know nothing of versions.
RegisterState(r) ==
    CASE r.status = "never"   -> "unissued"
      [] r.status = "deleted" -> "gone"
      [] r.status = "stored"  ->
            IF r.consumed THEN "used"
            ELSE IF r.revoked THEN "revoked"
            ELSE IF r.left > 0 THEN "open" ELSE "expired"

StateOf(t) ==
    IF row[t].status = "never" /\ Asked(t) THEN "asked" ELSE RegisterState(row[t])

Register == INSTANCE TokenRegister WITH state <- [t \in Tokens |-> StateOf(t)]

\* Each operation, though it reads in one step and writes in another while
\* others run, does to the tokens what a single step would: nobody's token but
\* those concerned changes, verdicts last, no open token is forgotten, and an
\* issue supersedes all that is open for its user and purpose but what was being
\* issued beside it (TokenRegister).
KeepsPromise == Register!Spec

-----------------------------------------------------------------------------
(* The inductive invariants behind them *)

\* What a client has read is still true as far as the version can tell.
CopyInv ==
    \A c \in Clients : txn[c].kind = "consume" =>
        /\ txn[c].target \in Tokens
        /\ txn[c].copy.status = "stored"
        /\ txn[c].copy.consumed /\ ~txn[c].copy.revoked
        /\ txn[c].copy.version = 1

\* The id an issue in flight will store is new, and nobody else's.
FreshInv ==
    /\ \A t \in Tokens : row[t].status = "never" => row[t].version = 0
    /\ \A c \in Clients : txn[c].kind = "issue" =>
        /\ txn[c].target \in Tokens
        /\ row[txn[c].target].status = "never"
        /\ \A d \in Clients : Issues(d, txn[c].target) => d = c

TokenInv ==
    /\ TypeOK
    /\ VersionTells
    /\ OneUse
    /\ CopyInv
    /\ FreshInv

\* An issue in flight has seen every token that is usable beside the one it will
\* store, or overlaps its issue; and it overlaps every other for the two.
IssueInv ==
    \A c \in Clients : txn[c].kind = "issue" =>
        LET t == txn[c].target IN
        /\ PurposeOf[t] \in SingleActive =>
               \A x \in UsableOf({UserOf[t]}, {PurposeOf[t]}) :
                   x \in txn[c].seen \/ {t, x} \in overlapping
        /\ \A x \in UnderWay(t) : x = t \/ {t, x} \in overlapping

SingleInv == TokenInv /\ IssueInv /\ SingleActiveInstance

\* What an issue or a revocation in flight has read is all of the user and, for
\* an issue, of the purpose concerned.
OwnSeen(x) ==
    /\ x.kind = "issue" =>
           \A t \in x.seen :
               /\ UserOf[t] = UserOf[x.target]
               /\ PurposeOf[t] = PurposeOf[x.target]
               /\ PurposeOf[t] \in SingleActive
    /\ x.kind = "revoke" => \E u \in Users : \A t \in x.seen : UserOf[t] = u

SeenInv == \A c \in Clients : OwnSeen(txn[c])

=============================================================================
