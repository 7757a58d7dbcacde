------------------------- MODULE ActionTokensProofs -------------------------
(***************************************************************************)
(* Theorems about ActionTokens, for any numbers of tokens, clients, users  *)
(* and purposes and any periods.                                           *)
(***************************************************************************)
EXTENDS ActionTokens, TLAPS

-----------------------------------------------------------------------------
(* Rows *)

LEMMA RowsTyped ==
    /\ NoRow \in Row
    /\ CreatedRow \in Row
    /\ \A r \in Row : RevokedRow(r) \in Row /\ ConsumedCopy(r) \in Row
<1>1. 0 \in Oldest..TTL /\ TTL \in Oldest..TTL
  BY PeriodsAssumption DEF Oldest
<1>2. NoRow \in Row
  BY <1>1 DEF NoRow, Row
<1>3. CreatedRow \in Row
  BY <1>1, <1>2 DEF CreatedRow, Row
<1>4. ASSUME NEW r \in Row PROVE RevokedRow(r) \in Row /\ ConsumedCopy(r) \in Row
  <2>1. r.version + 1 \in Nat
    BY DEF Row
  <2>2. [r EXCEPT !.revoked = TRUE, !.version = @ + 1] \in Row
    BY <2>1 DEF Row
  <2>3. [r EXCEPT !.consumed = TRUE, !.version = @ + 1] \in Row
    BY <2>1 DEF Row
  <2> QED BY <2>2, <2>3 DEF RevokedRow, ConsumedCopy
<1> QED BY <1>2, <1>3, <1>4

\* What revoking does: it never settles a settled row again, and it leaves
\* nothing usable.
LEMMA RevokingRow ==
    ASSUME NEW r \in Row
    PROVE  /\ RevokedRow(r).status = r.status
           /\ RevokedRow(r).consumed = r.consumed
           /\ ~IsUsable(RevokedRow(r))
           /\ r.consumed \/ r.revoked \/ r.status # "stored" => RevokedRow(r) = r
           /\ RevokedRow(r) # r =>
                  RevokedRow(r).revoked /\ RevokedRow(r).version = r.version + 1
BY DEF RevokedRow, IsUsable, Row

LEMMA NoTxnTyped == NoTxn \in Txn
BY RowsTyped DEF NoTxn, Txn

-----------------------------------------------------------------------------
(* Typing *)

LEMMA ReadsTyped ==
    ASSUME TypeOK, NEW c \in Clients, NEW x \in Txn, Begin(c, x), UNCHANGED overlapping
    PROVE  TypeOK'
BY DEF TypeOK, Begin

LEMMA EndTyped ==
    ASSUME TypeOK, NEW c \in Clients, End(c)
    PROVE  txn' \in [Clients -> Txn]
BY NoTxnTyped DEF TypeOK, End

LEMMA UsableTyped ==
    ASSUME NEW U, NEW P PROVE UsableOf(U, P) \in SUBSET Tokens
BY DEF UsableOf

LEMMA RevokedTyped ==
    ASSUME TypeOK, NEW S PROVE Revoked(S) \in [Tokens -> Row]
BY RowsTyped DEF TypeOK, Revoked

\* Whatever a client reads is a transaction record.
LEMMA FoundTyped ==
    ASSUME NEW S \in SUBSET Tokens
    PROVE  [NoTxn EXCEPT !.kind = "revoke", !.seen = S] \in Txn
BY RowsTyped DEF NoTxn, Txn

LEMMA TypeStep == TypeOK /\ [Next]_vars => TypeOK'
<1> SUFFICES ASSUME TypeOK, [Next]_vars PROVE TypeOK'
  OBVIOUS
<1>1. ASSUME NEW c \in Clients, NEW t \in Tokens, IssueReads(c, t) PROVE TypeOK'
  <2> DEFINE S == IF PurposeOf[t] \in SingleActive
                  THEN UsableOf({UserOf[t]}, {PurposeOf[t]}) ELSE {}
  <2>1. S \in SUBSET Tokens
    BY UsableTyped
  <2>2. [NoTxn EXCEPT !.kind = "issue", !.target = t, !.seen = S] \in Txn
    <3> HIDE DEF S
    <3> QED BY <2>1, RowsTyped DEF NoTxn, Txn
  <2>3. txn' \in [Clients -> Txn] /\ row' = row /\ uses' = uses
    BY <1>1, <2>2 DEF IssueReads, Begin, TypeOK
  <2>4. overlapping' \subseteq SUBSET Tokens
    BY <1>1 DEF IssueReads, UnderWay, TypeOK
  <2> QED BY <2>3, <2>4 DEF TypeOK
<1>2. ASSUME NEW c \in Clients, NEW S \in SUBSET Tokens, RevokeReads(c, S) PROVE TypeOK'
  BY <1>2, FoundTyped, ReadsTyped DEF RevokeReads
<1>3. ASSUME NEW c \in Clients, NEW t \in Tokens, ConsumeReads(c, t) PROVE TypeOK'
  <2>1. ConsumedCopy(row[t]) \in Row
    BY RowsTyped DEF TypeOK
  <2>2. [NoTxn EXCEPT !.kind = "consume", !.target = t, !.copy = ConsumedCopy(row[t])] \in Txn
    BY <2>1, RowsTyped DEF NoTxn, Txn
  <2> QED BY <1>3, <2>2, ReadsTyped DEF ConsumeReads
<1>4. ASSUME NEW c \in Clients, IssueCommits(c) PROVE TypeOK'
  <2>1. row' \in [Tokens -> Row]
    BY <1>4, RevokedTyped, RowsTyped DEF IssueCommits
  <2> QED BY <1>4, <2>1, EndTyped DEF IssueCommits, TypeOK
<1>5. ASSUME NEW c \in Clients, RevokeCommits(c) PROVE TypeOK'
  BY <1>5, RevokedTyped, EndTyped DEF RevokeCommits, TypeOK
<1>6. ASSUME NEW c \in Clients, ConsumeCommits(c) PROVE TypeOK'
  <2> DEFINE t == txn[c].target
  <2>1. t \in Tokens => [txn[c].copy EXCEPT !.left = row[t].left] \in Row
    BY DEF TypeOK, Txn, Row
  <2>2. row' \in [Tokens -> Row]
    BY <1>6, <2>1 DEF ConsumeCommits, TypeOK
  <2>3. uses' \in [Tokens -> Nat]
    BY <1>6 DEF ConsumeCommits, TypeOK
  <2> QED BY <1>6, <2>2, <2>3, EndTyped DEF ConsumeCommits, TypeOK
<1>7. ASSUME NEW c \in Clients, Abort(c) PROVE TypeOK'
  BY <1>7, EndTyped DEF Abort, TypeOK
<1>8. CASE Cleanup
  BY <1>8 DEF Cleanup, TypeOK, Row
<1>9. CASE Tick
  <2>1. \A r \in Row : r.left > Oldest => [r EXCEPT !.left = @ - 1] \in Row
    BY PeriodsAssumption DEF Row, Oldest
  <2> QED BY <1>9, <2>1 DEF Tick, TypeOK
<1>10. CASE UNCHANGED vars
  BY <1>10 DEF vars, TypeOK
<1>11. \A c \in Clients, t \in Tokens : ByIdReads(c, t) => RevokeReads(c, {t})
  BY DEF ByIdReads
<1>12. ASSUME NEW c \in Clients, NEW u \in Users, AllForUserReads(c, u) PROVE TypeOK'
  BY <1>2, <1>12, UsableTyped DEF AllForUserReads
<1>13. ASSUME NEW c \in Clients, NEW u \in Users, NEW p \in Purposes, ByPurposeReads(c, u, p)
       PROVE  TypeOK'
  BY <1>2, <1>13, UsableTyped DEF ByPurposeReads
<1>14. ASSUME NEW c \in Clients, NEW t \in Tokens, ByIdReads(c, t) PROVE TypeOK'
  BY <1>2, <1>14 DEF ByIdReads
<1> QED BY <1>1, <1>3, <1>4, <1>5, <1>6, <1>7, <1>8, <1>9, <1>10, <1>12, <1>13, <1>14 DEF Next

LEMMA TypeInit == Init => TypeOK
BY RowsTyped, NoTxnTyped DEF Init, TypeOK

\* Every variable keeps its type.
THEOREM TypeCorrect == Spec => []TypeOK
BY TypeInit, TypeStep, PTL DEF Spec

-----------------------------------------------------------------------------
(* One use, final verdicts *)

\* A row of the table after a revocation of the ids in S.
LEMMA RevokedFacts ==
    ASSUME TokenInv, NEW S, NEW t \in Tokens, NEW r, r = Revoked(S)[t]
    PROVE  /\ r.status = row[t].status
           /\ r.consumed = row[t].consumed
           /\ row[t].consumed \/ row[t].revoked => r.revoked = row[t].revoked
           /\ r.version = 0 <=> ~r.consumed /\ ~r.revoked
           /\ ~(r.consumed /\ r.revoked)
           /\ row[t].status = "never" => r.version = 0
           /\ IsUsable(r) => IsUsable(row[t]) /\ t \notin S
<1>1. row[t] \in Row /\ row[t].version \in Nat
  BY DEF TokenInv, TypeOK, Row
<1>2. /\ row[t].version = 0 <=> ~row[t].consumed /\ ~row[t].revoked
      /\ ~(row[t].consumed /\ row[t].revoked)
      /\ row[t].status = "never" => row[t].version = 0
  BY DEF TokenInv, VersionTells, FreshInv
<1>3. CASE t \notin S
  BY <1>2, <1>3 DEF Revoked
<1>4. CASE t \in S
  <2>1. r = RevokedRow(row[t])
    BY <1>4 DEF Revoked
  <2> QED BY <2>1, <1>1, <1>2, RevokingRow
<1> QED BY <1>3, <1>4

\* What an issue that commits writes.
LEMMA IssuedRows ==
    ASSUME TokenInv, NEW c \in Clients, IssueCommits(c)
    PROVE  /\ txn[c].target \in Tokens
           /\ row[txn[c].target].status = "never"
           /\ uses[txn[c].target] = 0
           /\ row'[txn[c].target] = CreatedRow
           /\ \A x \in Tokens \ {txn[c].target} : row'[x] = Revoked(txn[c].seen)[x]
<1> DEFINE t == txn[c].target
<1>1. t \in Tokens /\ row[t].status = "never" /\ row[t].version = 0
  BY DEF TokenInv, FreshInv, IssueCommits
<1>2. uses[t] = 0
  <2>1. ~row[t].consumed
    BY <1>1 DEF TokenInv, VersionTells
  <2>2. uses[t] \in Nat /\ uses[t] <= 1 /\ uses[t] # 1
    BY <1>1, <2>1 DEF TokenInv, TypeOK, OneUse
  <2> QED BY <2>2
<1>3. /\ row'[t] = CreatedRow
      /\ \A x \in Tokens \ {t} : row'[x] = Revoked(txn[c].seen)[x]
  BY <1>1 DEF IssueCommits, Revoked
<1> QED BY <1>1, <1>2, <1>3

\* What a consumption that commits finds and writes.
LEMMA ConsumedRows ==
    ASSUME TokenInv, NEW c \in Clients, ConsumeCommits(c)
    PROVE  /\ txn[c].target \in Tokens
           /\ row[txn[c].target].status = "stored"
           /\ ~row[txn[c].target].consumed /\ ~row[txn[c].target].revoked
           /\ uses[txn[c].target] = 0
           /\ row'[txn[c].target].status = "stored"
           /\ row'[txn[c].target].consumed /\ ~row'[txn[c].target].revoked
           /\ row'[txn[c].target].version = 1
           /\ \A x \in Tokens \ {txn[c].target} : row'[x] = row[x] /\ uses'[x] = uses[x]
           /\ uses'[txn[c].target] \in {0, 1}
<1> DEFINE t == txn[c].target
<1>1. /\ t \in Tokens
      /\ txn[c].copy.status = "stored"
      /\ txn[c].copy.consumed /\ ~txn[c].copy.revoked
      /\ txn[c].copy.version = 1
      /\ txn[c].copy \in Row
  BY DEF TokenInv, CopyInv, ConsumeCommits, TypeOK, Txn
<1>2. row[t].status = "stored" /\ row[t].version = 0
  BY <1>1 DEF ConsumeCommits, Updates
<1>3. ~row[t].consumed /\ ~row[t].revoked
  BY <1>1, <1>2 DEF TokenInv, VersionTells
<1>4. uses[t] = 0
  <2>1. uses[t] \in Nat /\ uses[t] <= 1 /\ uses[t] # 1
    BY <1>1, <1>3 DEF TokenInv, TypeOK, OneUse
  <2> QED BY <2>1
<1>5. row'[t] = [txn[c].copy EXCEPT !.left = row[t].left]
  BY <1>1 DEF ConsumeCommits, TokenInv, TypeOK
<1>6. /\ row'[t].status = "stored"
      /\ row'[t].consumed /\ ~row'[t].revoked
      /\ row'[t].version = 1
  BY <1>1, <1>5 DEF Row
<1>7. \A x \in Tokens \ {t} : row'[x] = row[x] /\ uses'[x] = uses[x]
  BY <1>1 DEF ConsumeCommits, TokenInv, TypeOK
<1>8. uses'[t] \in {0, 1}
  BY <1>1, <1>4 DEF ConsumeCommits, TokenInv, TypeOK
<1> QED BY <1>1, <1>2, <1>3, <1>4, <1>6, <1>7, <1>8

\* The steps of time change no verdict.
LEMMA AgedRows ==
    ASSUME TypeOK, Cleanup \/ Tick, NEW x \in Tokens
    PROVE  /\ row'[x].consumed = row[x].consumed
           /\ row'[x].revoked = row[x].revoked
           /\ row'[x].version = row[x].version
           /\ row'[x].status = "never" <=> row[x].status = "never"
           /\ IsUsable(row'[x]) => IsUsable(row[x])
<1>1. row[x] \in Row
  BY DEF TypeOK
<1>2. CASE Cleanup
  BY <1>1, <1>2 DEF Cleanup, Row, IsUsable
<1>3. CASE Tick
  <2>1. row[x].left \in Int
    BY <1>1, PeriodsAssumption DEF Row, Oldest
  <2> QED BY <1>1, <1>3, <2>1 DEF Tick, Row, IsUsable
<1> QED BY <1>2, <1>3

\* A client that reads changes neither rows nor uses.
LEMMA Beginning ==
    ASSUME TypeOK, NEW c \in Clients, NEW x, Begin(c, x)
    PROVE  /\ row' = row /\ uses' = uses
           /\ txn'[c] = x
           /\ \A d \in Clients \ {c} : txn'[d] = txn[d]
BY DEF Begin, TypeOK

LEMMA Ending ==
    ASSUME TypeOK, NEW c \in Clients, End(c)
    PROVE  /\ txn'[c].kind = "none"
           /\ \A d \in Clients \ {c} : txn'[d] = txn[d]
BY DEF End, TypeOK, NoTxn

\* Of the ways to read a set of tokens only the set matters.
LEMMA RevokingReads ==
    ASSUME NEW c \in Clients,
           \/ \E t \in Tokens : ByIdReads(c, t)
           \/ \E u \in Users : AllForUserReads(c, u)
           \/ \E u \in Users, p \in Purposes : ByPurposeReads(c, u, p)
    PROVE  \E S \in SUBSET Tokens : RevokeReads(c, S)
<1>1. ASSUME NEW t \in Tokens, ByIdReads(c, t) PROVE \E S \in SUBSET Tokens : RevokeReads(c, S)
  BY <1>1 DEF ByIdReads
<1>2. ASSUME NEW u \in Users, AllForUserReads(c, u)
      PROVE  \E S \in SUBSET Tokens : RevokeReads(c, S)
  BY <1>2, UsableTyped DEF AllForUserReads
<1>3. ASSUME NEW u \in Users, NEW p \in Purposes, ByPurposeReads(c, u, p)
      PROVE  \E S \in SUBSET Tokens : RevokeReads(c, S)
  BY <1>3, UsableTyped DEF ByPurposeReads
<1> QED BY <1>1, <1>2, <1>3

LEMMA TokenStep == TokenInv /\ [Next]_vars => TokenInv'
<1> SUFFICES ASSUME TokenInv, [Next]_vars PROVE TokenInv'
  OBVIOUS
<1> USE DEF TokenInv
<1>0. TypeOK'
  BY TypeStep
<1>1. ASSUME NEW c \in Clients, NEW t \in Tokens, IssueReads(c, t) PROVE TokenInv'
  <2>1. /\ row' = row /\ uses' = uses
        /\ txn'[c].kind = "issue" /\ txn'[c].target = t
        /\ \A d \in Clients \ {c} : txn'[d] = txn[d]
    <3> DEFINE S == IF PurposeOf[t] \in SingleActive
                    THEN UsableOf({UserOf[t]}, {PurposeOf[t]}) ELSE {}
               x == [NoTxn EXCEPT !.kind = "issue", !.target = t, !.seen = S]
    <3>1. Begin(c, x)
      BY <1>1 DEF IssueReads
    <3>2. x.kind = "issue" /\ x.target = t
      BY DEF NoTxn
    <3> HIDE DEF x
    <3> QED BY <3>1, <3>2, Beginning
  <2>2. VersionTells' /\ OneUse' /\ CopyInv'
    BY <2>1 DEF VersionTells, OneUse, CopyInv
  <2>3. row[t].status = "never" /\ \A d \in Clients : ~Issues(d, t)
    BY <1>1 DEF IssueReads, Asked
  <2>4. FreshInv'
    BY <2>1, <2>3 DEF FreshInv, Issues
  <2> QED BY <1>0, <2>2, <2>4
<1>2. ASSUME NEW c \in Clients, NEW S \in SUBSET Tokens, RevokeReads(c, S) PROVE TokenInv'
  <2>1. /\ row' = row /\ uses' = uses
        /\ txn'[c].kind = "revoke"
        /\ \A d \in Clients \ {c} : txn'[d] = txn[d]
    <3> DEFINE x == [NoTxn EXCEPT !.kind = "revoke", !.seen = S]
    <3>1. Begin(c, x)
      BY <1>2 DEF RevokeReads
    <3>2. x.kind = "revoke"
      BY DEF NoTxn
    <3> HIDE DEF x
    <3> QED BY <3>1, <3>2, Beginning
  <2> QED BY <1>0, <2>1 DEF VersionTells, OneUse, CopyInv, FreshInv, Issues
<1>3. ASSUME NEW c \in Clients, NEW t \in Tokens, ConsumeReads(c, t) PROVE TokenInv'
  <2>1. /\ row' = row /\ uses' = uses
        /\ txn'[c].kind = "consume" /\ txn'[c].target = t
        /\ txn'[c].copy = ConsumedCopy(row[t])
        /\ \A d \in Clients \ {c} : txn'[d] = txn[d]
    <3> DEFINE x == [NoTxn EXCEPT !.kind = "consume", !.target = t,
                                  !.copy = ConsumedCopy(row[t])]
    <3>1. Begin(c, x)
      BY <1>3 DEF ConsumeReads
    <3>2. x.kind = "consume" /\ x.target = t /\ x.copy = ConsumedCopy(row[t])
      BY DEF NoTxn
    <3> HIDE DEF x
    <3> QED BY <3>1, <3>2, Beginning
  <2>2. row[t].status = "stored" /\ row[t].version = 0 /\ ~row[t].revoked /\ row[t] \in Row
    BY <1>3 DEF ConsumeReads, IsUsable, VersionTells, TypeOK
  <2>3. /\ ConsumedCopy(row[t]).status = "stored"
        /\ ConsumedCopy(row[t]).consumed /\ ~ConsumedCopy(row[t]).revoked
        /\ ConsumedCopy(row[t]).version = 1
    BY <2>2 DEF ConsumedCopy, Row
  <2>4. CopyInv'
    BY <2>1, <2>3 DEF CopyInv
  <2> QED BY <1>0, <2>1, <2>4 DEF VersionTells, OneUse, FreshInv, Issues
<1>4. ASSUME NEW c \in Clients, IssueCommits(c) PROVE TokenInv'
  <2> DEFINE t == txn[c].target
  <2>1. /\ txn'[c].kind = "none"
        /\ \A d \in Clients \ {c} : txn'[d] = txn[d]
        /\ uses' = uses
    BY <1>4, Ending DEF IssueCommits
  <2>2. /\ CreatedRow.status = "stored" /\ ~CreatedRow.consumed /\ ~CreatedRow.revoked
        /\ CreatedRow.version = 0
    BY DEF CreatedRow, NoRow
  <2>3. VersionTells' /\ OneUse'
    BY <1>4, <2>1, <2>2, IssuedRows, RevokedFacts DEF VersionTells, OneUse
  <2>4. CopyInv'
    BY <2>1 DEF CopyInv
  <2>5. ASSUME NEW d \in Clients \ {c}, txn[d].kind = "issue"
        PROVE  txn[d].target \in Tokens \ {t}
    BY <1>4, <2>5 DEF FreshInv, Issues, IssueCommits
  <2>6. FreshInv'
    BY <1>4, <2>1, <2>2, <2>5, IssuedRows, RevokedFacts DEF FreshInv, Issues
  <2> QED BY <1>0, <2>3, <2>4, <2>6
<1>5. ASSUME NEW c \in Clients, RevokeCommits(c) PROVE TokenInv'
  <2>1. /\ txn'[c].kind = "none"
        /\ \A d \in Clients \ {c} : txn'[d] = txn[d]
        /\ uses' = uses /\ row' = Revoked(txn[c].seen)
    BY <1>5, Ending DEF RevokeCommits
  <2>2. VersionTells' /\ OneUse' /\ CopyInv'
    BY <2>1, RevokedFacts DEF VersionTells, OneUse, CopyInv
  <2>3. FreshInv'
    BY <2>1, RevokedFacts DEF FreshInv, Issues
  <2> QED BY <1>0, <2>2, <2>3
<1>6. ASSUME NEW c \in Clients, ConsumeCommits(c) PROVE TokenInv'
  <2>1. /\ txn'[c].kind = "none"
        /\ \A d \in Clients \ {c} : txn'[d] = txn[d]
    BY <1>6, Ending DEF ConsumeCommits
  <2>2. VersionTells' /\ OneUse' /\ CopyInv'
    BY <1>6, <2>1, ConsumedRows DEF VersionTells, OneUse, CopyInv
  <2>3. FreshInv'
    BY <1>6, <2>1, ConsumedRows DEF FreshInv, Issues
  <2> QED BY <1>0, <2>2, <2>3
<1>7. ASSUME NEW c \in Clients, Abort(c) PROVE TokenInv'
  <2>1. /\ txn'[c].kind = "none"
        /\ \A d \in Clients \ {c} : txn'[d] = txn[d]
        /\ uses' = uses /\ row' = row
    BY <1>7, Ending DEF Abort
  <2> QED BY <1>0, <2>1 DEF VersionTells, OneUse, CopyInv, FreshInv, Issues
<1>8. CASE Cleanup \/ Tick
  <2>1. uses' = uses /\ txn' = txn
    BY <1>8 DEF Cleanup, Tick
  <2>2. VersionTells' /\ OneUse' /\ CopyInv'
    BY <1>8, <2>1, AgedRows DEF VersionTells, OneUse, CopyInv
  <2>3. FreshInv'
    BY <1>8, <2>1, AgedRows DEF FreshInv, Issues
  <2> QED BY <1>0, <2>2, <2>3
<1>9. CASE UNCHANGED vars
  BY <1>0, <1>9 DEF vars, VersionTells, OneUse, CopyInv, FreshInv, Issues
<1> QED BY <1>1, <1>2, <1>3, <1>4, <1>5, <1>6, <1>7, <1>8, <1>9, RevokingReads DEF Next

LEMMA TokenInit == Init => TokenInv
BY TypeInit DEF Init, TokenInv, VersionTells, OneUse, CopyInv, FreshInv, NoRow, NoTxn

LEMMA TokenInvariant == Spec => []TokenInv
BY TokenInit, TokenStep, PTL DEF Spec

\* At most one request gets a token.
THEOREM UsedOnce == Spec => []OneUse
<1>1. TokenInv => OneUse
  BY DEF TokenInv
<1> QED BY <1>1, TokenInvariant, PTL

\* The version tells open tokens from settled ones.
THEOREM VersionTellsOpen == Spec => []VersionTells
<1>1. TokenInv => VersionTells
  BY DEF TokenInv
<1> QED BY <1>1, TokenInvariant, PTL

LEMMA VerdictStep ==
    ASSUME TokenInv, [Next]_vars, NEW x \in Tokens, row[x].consumed \/ row[x].revoked
    PROVE  row'[x].consumed = row[x].consumed /\ row'[x].revoked = row[x].revoked
<1>0. TypeOK /\ row[x].version # 0
  BY DEF TokenInv, VersionTells
<1>1. ASSUME NEW c \in Clients, IssueCommits(c)
      PROVE  row'[x].consumed = row[x].consumed /\ row'[x].revoked = row[x].revoked
  <2>1. x # txn[c].target
    BY <1>0, <1>1 DEF TokenInv, FreshInv, IssueCommits
  <2> QED BY <1>1, <2>1, IssuedRows, RevokedFacts
<1>2. ASSUME NEW c \in Clients, RevokeCommits(c)
      PROVE  row'[x].consumed = row[x].consumed /\ row'[x].revoked = row[x].revoked
  BY <1>2, RevokedFacts DEF RevokeCommits
<1>3. ASSUME NEW c \in Clients, ConsumeCommits(c)
      PROVE  row'[x].consumed = row[x].consumed /\ row'[x].revoked = row[x].revoked
  BY <1>3, ConsumedRows
<1>4. CASE Cleanup \/ Tick
  BY <1>0, <1>4, AgedRows
<1>5. ASSUME row' = row
      PROVE  row'[x].consumed = row[x].consumed /\ row'[x].revoked = row[x].revoked
  BY <1>5
<1>6. ASSUME NEW c \in Clients, NEW t \in Tokens, IssueReads(c, t) \/ ConsumeReads(c, t)
      PROVE  row' = row
  BY <1>6 DEF IssueReads, ConsumeReads, Begin
<1>7. ASSUME NEW c \in Clients, NEW S \in SUBSET Tokens, RevokeReads(c, S) PROVE row' = row
  BY <1>7 DEF RevokeReads, Begin
<1>8. ASSUME NEW c \in Clients, Abort(c) PROVE row' = row
  BY <1>8 DEF Abort
<1>9. CASE UNCHANGED vars
  BY <1>5, <1>9 DEF vars
<1> QED BY <1>1, <1>2, <1>3, <1>4, <1>5, <1>6, <1>7, <1>8, <1>9, RevokingReads DEF Next

\* A consumed token stays consumed, a revoked one revoked, and never both.
THEOREM Verdicts == Spec => VerdictFinal
<1>1. TokenInv /\ [Next]_vars =>
          [\A t \in Tokens : row[t].consumed \/ row[t].revoked =>
              /\ row'[t].consumed = row[t].consumed
              /\ row'[t].revoked = row[t].revoked]_vars
  BY VerdictStep
<1> QED BY <1>1, TokenInvariant, PTL DEF Spec, VerdictFinal

-----------------------------------------------------------------------------
(* A single active instance *)

\* Nothing but an issue makes a token usable.
LEMMA Waning ==
    ASSUME TokenInv, [Next]_vars, NEW x \in Tokens, IsUsable(row'[x]), ~IsUsable(row[x])
    PROVE  \E c \in Clients : IssueCommits(c) /\ txn[c].target = x
<1>0. TypeOK
  BY DEF TokenInv
<1>1. ASSUME NEW c \in Clients, IssueCommits(c) PROVE txn[c].target = x
  BY <1>1, IssuedRows, RevokedFacts
<1>2. ASSUME NEW c \in Clients, RevokeCommits(c) PROVE FALSE
  BY <1>2, RevokedFacts DEF RevokeCommits
<1>3. ASSUME NEW c \in Clients, ConsumeCommits(c) PROVE FALSE
  BY <1>3, ConsumedRows DEF IsUsable
<1>4. CASE Cleanup \/ Tick
  BY <1>0, <1>4, AgedRows
<1>6. ASSUME NEW c \in Clients, NEW t \in Tokens, IssueReads(c, t) \/ ConsumeReads(c, t)
      PROVE  row' = row
  BY <1>6 DEF IssueReads, ConsumeReads, Begin
<1>7. ASSUME NEW c \in Clients, NEW S \in SUBSET Tokens, RevokeReads(c, S) PROVE row' = row
  BY <1>7 DEF RevokeReads, Begin
<1>8. ASSUME NEW c \in Clients, Abort(c) PROVE row' = row
  BY <1>8 DEF Abort
<1>9. CASE UNCHANGED vars
  BY <1>9 DEF vars
<1> QED BY <1>1, <1>2, <1>3, <1>4, <1>6, <1>7, <1>8, <1>9, RevokingReads DEF Next

\* An issue in flight was so before, or is the one that has just read.
LEMMA InFlight ==
    ASSUME TypeOK, [Next]_vars, NEW d \in Clients, txn'[d].kind = "issue"
    PROVE  \/ txn'[d] = txn[d]
           \/ \E t \in Tokens : IssueReads(d, t)
<1>1. ASSUME NEW c \in Clients, NEW t \in Tokens, IssueReads(c, t)
      PROVE  txn'[d] = txn[d] \/ IssueReads(d, t)
  BY <1>1, Beginning DEF IssueReads
<1>2. ASSUME NEW c \in Clients, NEW S \in SUBSET Tokens, RevokeReads(c, S)
      PROVE  txn'[d] = txn[d]
  <2> DEFINE x == [NoTxn EXCEPT !.kind = "revoke", !.seen = S]
  <2>1. Begin(c, x)
    BY <1>2 DEF RevokeReads
  <2>2. x.kind = "revoke"
    BY DEF NoTxn
  <2> HIDE DEF x
  <2> QED BY <2>1, <2>2, Beginning
<1>3. ASSUME NEW c \in Clients, NEW t \in Tokens, ConsumeReads(c, t)
      PROVE  txn'[d] = txn[d]
  <2> DEFINE x == [NoTxn EXCEPT !.kind = "consume", !.target = t,
                                !.copy = ConsumedCopy(row[t])]
  <2>1. Begin(c, x)
    BY <1>3 DEF ConsumeReads
  <2>2. x.kind = "consume"
    BY DEF NoTxn
  <2> HIDE DEF x
  <2> QED BY <2>1, <2>2, Beginning
<1>4. ASSUME NEW c \in Clients, End(c) PROVE txn'[d] = txn[d]
  BY <1>4, Ending
<1>5. \A c \in Clients :
          IssueCommits(c) \/ RevokeCommits(c) \/ ConsumeCommits(c) \/ Abort(c) => End(c)
  BY DEF IssueCommits, RevokeCommits, ConsumeCommits, Abort
<1>6. CASE Cleanup \/ Tick \/ UNCHANGED vars
  BY <1>6 DEF Cleanup, Tick, vars
<1> QED BY <1>1, <1>2, <1>3, <1>4, <1>5, <1>6, RevokingReads DEF Next

\* What an issue has when it has read.
LEMMA IssueBegins ==
    ASSUME TypeOK, NEW d \in Clients, NEW t \in Tokens, IssueReads(d, t)
    PROVE  /\ txn'[d].kind = "issue" /\ txn'[d].target = t
           /\ PurposeOf[t] \in SingleActive =>
                  txn'[d].seen = UsableOf({UserOf[t]}, {PurposeOf[t]})
           /\ row' = row
           /\ \A c \in Clients \ {d} : txn'[c] = txn[c]
<1> DEFINE S == IF PurposeOf[t] \in SingleActive
                THEN UsableOf({UserOf[t]}, {PurposeOf[t]}) ELSE {}
           x == [NoTxn EXCEPT !.kind = "issue", !.target = t, !.seen = S]
<1>1. Begin(d, x)
  BY DEF IssueReads
<1>2. x.kind = "issue" /\ x.target = t /\ x.seen = S
  BY DEF NoTxn
<1>3. PurposeOf[t] \in SingleActive => S = UsableOf({UserOf[t]}, {PurposeOf[t]})
  OBVIOUS
<1> HIDE DEF x, S
<1> QED BY <1>1, <1>2, <1>3, Beginning

\* IssueInv without its LET and its sets.
LEMMA IssueInvMeans ==
    IssueInv <=>
        \A c \in Clients : txn[c].kind = "issue" =>
            /\ PurposeOf[txn[c].target] \in SingleActive =>
                   \A x \in Tokens : IsUsable(row[x]) /\ Slot(x) = Slot(txn[c].target) =>
                       x \in txn[c].seen \/ {txn[c].target, x} \in overlapping
            /\ \A x \in Tokens, d \in Clients :
                   Issues(d, x) /\ Slot(x) = Slot(txn[c].target) =>
                       x = txn[c].target \/ {txn[c].target, x} \in overlapping
BY DEF IssueInv, Slot, UsableOf, UnderWay, Asked

\* A pair is forgotten only when one of its issues is rolled back, and then
\* that token is neither stored nor being issued.
LEMMA PairsStay ==
    ASSUME TokenInv, [Next]_vars, NEW x \in Tokens, NEW y \in Tokens,
           {x, y} \in overlapping,
           IsUsable(row[x]) \/ \E d \in Clients : Issues(d, x) /\ txn'[d] = txn[d],
           IsUsable(row[y]) \/ \E d \in Clients : Issues(d, y) /\ txn'[d] = txn[d]
    PROVE  {x, y} \in overlapping'
<1>1. ASSUME NEW c \in Clients, Abort(c) PROVE {x, y} \in overlapping'
  <2>1. CASE txn[c].kind # "issue"
    BY <1>1, <2>1 DEF Abort
  <2>2. ASSUME txn[c].kind = "issue", NEW z \in Tokens,
               IsUsable(row[z]) \/ \E d \in Clients : Issues(d, z) /\ txn'[d] = txn[d]
        PROVE  z # txn[c].target
    <3>1. row[txn[c].target].status = "never"
      BY <2>2 DEF TokenInv, FreshInv
    <3>2. txn'[c].kind = "none"
      BY <1>1, Ending DEF Abort, TokenInv
    <3>3. ASSUME NEW d \in Clients, Issues(d, txn[c].target) PROVE d = c
      BY <2>2, <3>3 DEF TokenInv, FreshInv
    <3> QED BY <2>2, <3>1, <3>2, <3>3 DEF IsUsable, Issues
  <2>3. txn[c].kind = "issue" => txn[c].target \notin {x, y}
    BY <2>2
  <2> QED BY <1>1, <2>1, <2>3 DEF Abort
<1>2. ASSUME NEW c \in Clients, NEW t \in Tokens, IssueReads(c, t)
      PROVE  {x, y} \in overlapping'
  BY <1>2 DEF IssueReads
<1>3. ASSUME NEW c \in Clients, NEW t \in Tokens, ConsumeReads(c, t)
      PROVE  overlapping' = overlapping
  BY <1>3 DEF ConsumeReads
<1>4. ASSUME NEW c \in Clients, NEW S \in SUBSET Tokens, RevokeReads(c, S)
      PROVE  overlapping' = overlapping
  BY <1>4 DEF RevokeReads
<1>5. ASSUME NEW c \in Clients, IssueCommits(c) \/ RevokeCommits(c) \/ ConsumeCommits(c)
      PROVE  overlapping' = overlapping
  BY <1>5 DEF IssueCommits, RevokeCommits, ConsumeCommits
<1>6. CASE Cleanup \/ Tick \/ UNCHANGED vars
  BY <1>6 DEF Cleanup, Tick, vars
<1> QED BY <1>1, <1>2, <1>3, <1>4, <1>5, <1>6, RevokingReads DEF Next

\* The token that an issue in flight will store.
LEMMA InFlightTarget ==
    ASSUME TokenInv, NEW c \in Clients, txn[c].kind = "issue"
    PROVE  txn[c].target \in Tokens /\ Issues(c, txn[c].target)
BY DEF TokenInv, FreshInv, Issues

\* An issue that has just read overlaps those in flight.
LEMMA ReadingOverlaps ==
    ASSUME TypeOK, NEW c \in Clients, NEW t \in Tokens, IssueReads(c, t),
           NEW d \in Clients, NEW x \in Tokens, Issues(d, x), Slot(x) = Slot(t)
    PROVE  {t, x} \in overlapping'
BY DEF IssueReads, UnderWay, Asked

LEMMA SlotsStep ==
    ASSUME TokenInv, IssueInv, [Next]_vars,
           NEW c \in Clients, NEW d \in Clients, NEW x \in Tokens, NEW y \in Tokens,
           Issues(c, y)', Issues(d, x)', Slot(x) = Slot(y)
    PROVE  x = y \/ {y, x} \in overlapping'
<1>0. TypeOK /\ txn'[c].kind = "issue" /\ txn'[d].kind = "issue"
      /\ txn'[c].target = y /\ txn'[d].target = x
  BY DEF TokenInv, Issues
<1>1. CASE txn'[c] = txn[c] /\ txn'[d] = txn[d]
  <2>1. Issues(c, y) /\ Issues(d, x)
    BY <1>1 DEF Issues
  <2>2. x = y \/ {y, x} \in overlapping
    BY <2>1, IssueInvMeans DEF Issues
  <2> QED BY <1>1, <2>1, <2>2, PairsStay
<1>2. ASSUME NEW a \in Clients, NEW b \in Clients, NEW v \in Tokens, NEW w \in Tokens,
             Issues(a, v)', Issues(b, w)', Slot(v) = Slot(w),
             NEW t \in Tokens, IssueReads(a, t)
      PROVE  v = w \/ {v, w} \in overlapping'
  <2>1. v = t
    BY <1>0, <1>2, IssueBegins DEF Issues
  <2>2. CASE a = b
    BY <1>2, <2>2 DEF Issues
  <2>3. CASE a # b
    <3>1. Issues(b, w)
      BY <1>0, <1>2, <2>3, IssueBegins DEF Issues
    <3> QED BY <1>0, <1>2, <2>1, <3>1, ReadingOverlaps
  <2> QED BY <2>2, <2>3
<1>3. {x, y} = {y, x}
  OBVIOUS
<1> QED BY <1>0, <1>1, <1>2, <1>3, InFlight

LEMMA SeenStep ==
    ASSUME TokenInv, IssueInv, [Next]_vars,
           NEW c \in Clients, NEW y \in Tokens, Issues(c, y)', PurposeOf[y] \in SingleActive,
           NEW x \in Tokens, IsUsable(row'[x]), Slot(x) = Slot(y)
    PROVE  x \in txn'[c].seen \/ {y, x} \in overlapping'
<1>0. TypeOK /\ txn'[c].kind = "issue" /\ txn'[c].target = y
  BY DEF TokenInv, Issues
<1>1. ASSUME NEW t \in Tokens, IssueReads(c, t) PROVE x \in txn'[c].seen
  BY <1>0, <1>1, IssueBegins DEF UsableOf, Slot
<1>2. ASSUME txn'[c] = txn[c] PROVE x \in txn'[c].seen \/ {y, x} \in overlapping'
  <2>0. Issues(c, y)
    BY <1>0, <1>2 DEF Issues
  <2>1. CASE IsUsable(row[x])
    <3>1. x \in txn[c].seen \/ {y, x} \in overlapping
      BY <2>0, <2>1, IssueInvMeans DEF Issues
    <3> QED BY <1>2, <2>0, <2>1, <3>1, PairsStay
  <2>2. ASSUME NEW d \in Clients, IssueCommits(d), txn[d].target = x
        PROVE  {y, x} \in overlapping'
    <3>1. Issues(d, x)
      BY <2>2 DEF IssueCommits, Issues
    <3>2. d # c
      BY <1>0, <2>2, Ending DEF IssueCommits
    <3>3. x # y
      BY <2>0, <3>1, <3>2 DEF TokenInv, FreshInv, Issues
    <3>4. {y, x} \in overlapping
      BY <2>0, <3>1, <3>3, IssueInvMeans DEF Issues
    <3> QED BY <2>2, <3>4 DEF IssueCommits
  <2> QED BY <2>1, <2>2, Waning
<1> QED BY <1>0, <1>1, <1>2, InFlight

LEMMA SingleStep ==
    ASSUME SingleInv, [Next]_vars, NEW x \in Tokens, NEW y \in Tokens,
           IsUsable(row'[x]), IsUsable(row'[y]),
           Slot(x) = Slot(y), PurposeOf[x] \in SingleActive
    PROVE  x = y \/ {x, y} \in overlapping'
<1>0. TokenInv /\ PurposeOf[y] \in SingleActive
  BY DEF SingleInv, Slot
<1>1. CASE IsUsable(row[x]) /\ IsUsable(row[y])
  <2>1. x = y \/ {x, y} \in overlapping
    BY <1>1 DEF SingleInv, SingleActiveInstance
  <2> QED BY <1>0, <1>1, <2>1, PairsStay
<1>2. ASSUME NEW a \in Tokens, NEW b \in Tokens, a # b, IsUsable(row'[b]),
             Slot(a) = Slot(b), PurposeOf[a] \in SingleActive,
             NEW c \in Clients, IssueCommits(c), txn[c].target = a
      PROVE  {a, b} \in overlapping'
  <2>1. row'[b] = Revoked(txn[c].seen)[b]
    BY <1>0, <1>2, IssuedRows
  <2>2. IsUsable(row[b]) /\ b \notin txn[c].seen
    BY <1>0, <1>2, <2>1, RevokedFacts
  <2>3. {a, b} \in overlapping
    BY <1>2, <2>2, IssueInvMeans DEF SingleInv, IssueCommits
  <2> QED BY <1>2, <2>3 DEF IssueCommits
<1>3. {x, y} = {y, x}
  OBVIOUS
<1> QED BY <1>0, <1>1, <1>2, <1>3, Waning DEF Slot

LEMMA SingleInvStep == SingleInv /\ [Next]_vars => SingleInv'
<1> SUFFICES ASSUME SingleInv, [Next]_vars PROVE SingleInv'
  OBVIOUS
<1>1. TokenInv'
  BY TokenStep DEF SingleInv
<1>2. IssueInv'
  <2> SUFFICES ASSUME NEW c \in Clients, NEW y \in Tokens, Issues(c, y)'
               PROVE  /\ PurposeOf[y] \in SingleActive =>
                             \A x \in Tokens : IsUsable(row'[x]) /\ Slot(x) = Slot(y) =>
                                 x \in txn'[c].seen \/ {y, x} \in overlapping'
                      /\ \A x \in Tokens, d \in Clients : Issues(d, x)' /\ Slot(x) = Slot(y) =>
                             x = y \/ {y, x} \in overlapping'
    <3>1. ASSUME NEW c \in Clients, txn'[c].kind = "issue"
          PROVE  \E y \in Tokens : y = txn'[c].target /\ Issues(c, y)'
      BY <1>1, <3>1 DEF TokenInv, FreshInv, Issues
    <3>2. ASSUME NEW c \in Clients, txn'[c].kind = "issue"
          PROVE  LET t == txn'[c].target IN
                 /\ PurposeOf[t] \in SingleActive =>
                        \A x \in Tokens : IsUsable(row'[x]) /\ Slot(x) = Slot(t) =>
                            x \in txn'[c].seen \/ {t, x} \in overlapping'
                 /\ \A x \in Tokens : Slot(x) = Slot(t) /\ Asked(x)' =>
                        x = t \/ {t, x} \in overlapping'
      <4>1. PICK y \in Tokens : y = txn'[c].target /\ Issues(c, y)'
        BY <3>1, <3>2
      <4>2. ASSUME NEW x \in Tokens, Asked(x)' PROVE \E d \in Clients : Issues(d, x)'
        BY <4>2 DEF Asked
      <4> QED BY <4>1, <4>2
    <3> QED BY <3>2 DEF IssueInv, Slot, UsableOf, UnderWay
  <2> QED BY SeenStep, SlotsStep DEF SingleInv
<1>3. SingleActiveInstance'
  BY SingleStep DEF SingleActiveInstance, Slot
<1> QED BY <1>1, <1>2, <1>3 DEF SingleInv

LEMMA SingleInit == Init => SingleInv
<1>1. Init => IssueInv /\ SingleActiveInstance
  BY DEF Init, IssueInv, SingleActiveInstance, IsUsable, NoRow, NoTxn
<1> QED BY <1>1, TokenInit DEF SingleInv

\* A user has two usable tokens of a purpose that allows a single active
\* instance only when their issues were in flight at the same time.
THEOREM SingleInstance == Spec => []SingleActiveInstance
<1>1. SingleInv /\ [Next]_vars => SingleInv'
  BY SingleInvStep
<1>2. SingleInv => SingleActiveInstance
  BY DEF SingleInv
<1> QED BY <1>1, <1>2, SingleInit, PTL DEF Spec

-----------------------------------------------------------------------------
(* The refinement of TokenRegister *)

LEMMA SeenStays == TypeOK /\ SeenInv /\ [Next]_vars => SeenInv'
<1> SUFFICES ASSUME TypeOK, SeenInv, [Next]_vars, NEW d \in Clients
             PROVE  OwnSeen(txn'[d])
  BY DEF SeenInv, OwnSeen
<1>1. ASSUME NEW c \in Clients, NEW x, Begin(c, x), OwnSeen(x) PROVE OwnSeen(txn'[d])
  BY <1>1, Beginning DEF SeenInv
<1>2. ASSUME NEW c \in Clients, End(c) PROVE OwnSeen(txn'[d])
  BY <1>2, Ending DEF SeenInv, OwnSeen
<1>3. ASSUME NEW c \in Clients, NEW t \in Tokens, IssueReads(c, t) PROVE OwnSeen(txn'[d])
  <2> DEFINE S == IF PurposeOf[t] \in SingleActive
                  THEN UsableOf({UserOf[t]}, {PurposeOf[t]}) ELSE {}
             x == [NoTxn EXCEPT !.kind = "issue", !.target = t, !.seen = S]
  <2>1. \A s \in S : UserOf[s] = UserOf[t] /\ PurposeOf[s] = PurposeOf[t]
                       /\ PurposeOf[s] \in SingleActive
    BY DEF UsableOf
  <2>2. x.kind = "issue" /\ x.target = t /\ x.seen = S
    BY DEF NoTxn
  <2>3. Begin(c, x)
    BY <1>3 DEF IssueReads
  <2> HIDE DEF x, S
  <2>4. OwnSeen(x)
    BY <2>1, <2>2 DEF OwnSeen
  <2> QED BY <1>1, <2>3, <2>4
<1>4. ASSUME NEW c \in Clients, NEW S, RevokeReads(c, S),
             NEW u \in Users, \A s \in S : UserOf[s] = u
      PROVE  OwnSeen(txn'[d])
  <2> DEFINE x == [NoTxn EXCEPT !.kind = "revoke", !.seen = S]
  <2>1. x.kind = "revoke" /\ x.seen = S
    BY DEF NoTxn
  <2>2. Begin(c, x)
    BY <1>4 DEF RevokeReads
  <2> HIDE DEF x
  <2>3. OwnSeen(x)
    BY <1>4, <2>1 DEF OwnSeen
  <2> QED BY <1>1, <2>2, <2>3
<1>5. ASSUME NEW c \in Clients, NEW t \in Tokens, ByIdReads(c, t) PROVE OwnSeen(txn'[d])
  <2>1. UserOf[t] \in Users /\ \A s \in {t} : UserOf[s] = UserOf[t]
    BY OwnersAssumption
  <2> QED BY <1>4, <1>5, <2>1 DEF ByIdReads
<1>6. ASSUME NEW c \in Clients, NEW u \in Users, AllForUserReads(c, u)
      PROVE  OwnSeen(txn'[d])
  <2>1. \A s \in UsableOf({u}, Purposes) : UserOf[s] = u
    BY DEF UsableOf
  <2> QED BY <1>4, <1>6, <2>1 DEF AllForUserReads
<1>7. ASSUME NEW c \in Clients, NEW u \in Users, NEW p \in Purposes, ByPurposeReads(c, u, p)
      PROVE  OwnSeen(txn'[d])
  <2>1. \A s \in UsableOf({u}, {p}) : UserOf[s] = u
    BY DEF UsableOf
  <2> QED BY <1>4, <1>7, <2>1 DEF ByPurposeReads
<1>8. ASSUME NEW c \in Clients, NEW t \in Tokens, ConsumeReads(c, t) PROVE OwnSeen(txn'[d])
  <2> DEFINE x == [NoTxn EXCEPT !.kind = "consume", !.target = t,
                                !.copy = ConsumedCopy(row[t])]
  <2>1. Begin(c, x)
    BY <1>8 DEF ConsumeReads
  <2>2. x.kind = "consume"
    BY DEF NoTxn
  <2> HIDE DEF x
  <2>3. OwnSeen(x)
    BY <2>2 DEF OwnSeen
  <2> QED BY <1>1, <2>1, <2>3
<1>9. \A c \in Clients :
          IssueCommits(c) \/ RevokeCommits(c) \/ ConsumeCommits(c) \/ Abort(c) => End(c)
  BY DEF IssueCommits, RevokeCommits, ConsumeCommits, Abort
<1>10. CASE Cleanup \/ Tick \/ UNCHANGED vars
  BY <1>10 DEF Cleanup, Tick, vars, SeenInv
<1> QED BY <1>2, <1>3, <1>5, <1>6, <1>7, <1>8, <1>9, <1>10 DEF Next

\* The register's word for a row, case by case.
LEMMA StateOfRow ==
    ASSUME NEW r \in Row
    PROVE  /\ RegisterState(r) = "unissued" <=> r.status = "never"
           /\ RegisterState(r) = "gone" <=> r.status = "deleted"
           /\ RegisterState(r) = "used" <=> r.status = "stored" /\ r.consumed
           /\ RegisterState(r) = "revoked" <=>
                  r.status = "stored" /\ ~r.consumed /\ r.revoked
           /\ RegisterState(r) = "open" <=> IsUsable(r)
           /\ RegisterState(r) = "expired" <=>
                  r.status = "stored" /\ ~r.consumed /\ ~r.revoked /\ ~(r.left > 0)
BY DEF RegisterState, IsUsable, Row

\* Revoking a row closes what is neither used nor revoked, and only that.
LEMMA RevokedState ==
    ASSUME NEW r \in Row
    PROVE  RegisterState(RevokedRow(r)) =
               IF RegisterState(r) \in {"open", "expired"} THEN "revoked"
               ELSE RegisterState(r)
<1>1. CASE r.status = "stored" /\ ~r.revoked /\ ~r.consumed
  <2>1. RevokedRow(r) \in Row /\ RevokedRow(r).revoked
        /\ RevokedRow(r).status = "stored" /\ ~RevokedRow(r).consumed
    BY <1>1, RowsTyped, RevokingRow DEF RevokedRow, Row
  <2>2. RegisterState(r) \in {"open", "expired"}
    BY <1>1, StateOfRow DEF IsUsable
  <2> QED BY <2>1, <2>2, StateOfRow
<1>2. CASE ~(r.status = "stored" /\ ~r.revoked /\ ~r.consumed)
  <2>1. RevokedRow(r) = r
    BY <1>2 DEF RevokedRow
  <2>2. RegisterState(r) \notin {"open", "expired"}
    BY <1>2, StateOfRow DEF IsUsable
  <2> QED BY <2>1, <2>2
<1> QED BY <1>1, <1>2

State(t) == RegisterState(row[t])

\* The register's word for a token: its row's, unless it is being issued.
LEMMA StateOfToken ==
    ASSUME TypeOK, NEW t \in Tokens
    PROVE  /\ StateOf(t) = IF row[t].status = "never" /\ Asked(t) THEN "asked" ELSE State(t)
           /\ StateOf(t) = "open" <=> State(t) = "open"
           /\ StateOf(t) = "expired" <=> State(t) = "expired"
           /\ StateOf(t) = "used" <=> State(t) = "used"
           /\ StateOf(t) = "revoked" <=> State(t) = "revoked"
           /\ StateOf(t) = "asked" <=> row[t].status = "never" /\ Asked(t)
           /\ StateOf(t) = "unissued" <=> row[t].status = "never" /\ ~Asked(t)
<1>1. row[t] \in Row
  BY DEF TypeOK
<1>2. row[t].status = "never" => State(t) = "unissued"
  BY DEF State, RegisterState
<1>3. row[t].status # "never" =>
          State(t) \in {"gone", "used", "revoked", "open", "expired"}
  BY <1>1 DEF State, RegisterState, Row
<1>4. StateOf(t) = IF row[t].status = "never" /\ Asked(t) THEN "asked" ELSE State(t)
  BY DEF StateOf, State
<1> QED BY <1>2, <1>3, <1>4

\* A client that neither was issuing nor is changes nothing about who is.
LEMMA AskedStays ==
    ASSUME NEW c \in Clients, \A d \in Clients \ {c} : txn'[d] = txn[d],
           txn[c].kind # "issue", txn'[c].kind # "issue"
    PROVE  \A x \in Tokens : Asked(x)' <=> Asked(x)
BY DEF Asked, Issues

\* Of an issue that ends no other token's issue knows.
LEMMA AskedEnds ==
    ASSUME TokenInv, NEW c \in Clients, NEW t \in Tokens, Issues(c, t), End(c)
    PROVE  /\ row[t].status = "never"
           /\ Asked(t)
           /\ ~Asked(t)'
           /\ \A x \in Tokens \ {t} : Asked(x)' <=> Asked(x)
<1>1. /\ txn'[c].kind = "none"
      /\ \A d \in Clients \ {c} : txn'[d] = txn[d]
  BY Ending DEF TokenInv
<1>2. /\ row[t].status = "never"
      /\ \A d \in Clients : Issues(d, t) => d = c
  BY DEF TokenInv, FreshInv, Issues
<1> QED BY <1>1, <1>2 DEF Asked, Issues

LEMMA ReadingIsAsking ==
    ASSUME TokenInv, NEW c \in Clients, NEW t \in Tokens, IssueReads(c, t)
    PROVE  Register!Ask(t)
<1>1. TypeOK
  BY DEF TokenInv
<1>2. /\ row' = row /\ uses' = uses /\ row[t].status = "never" /\ ~Asked(t)
      /\ txn'[c].kind = "issue" /\ txn'[c].target = t
      /\ \A d \in Clients \ {c} : txn'[d] = txn[d]
  BY <1>1, IssueBegins DEF IssueReads, Begin
<1>3. txn[c].kind = "none"
  BY DEF IssueReads, Begin, NoTxn
<1>4. Asked(t)' /\ \A x \in Tokens \ {t} : Asked(x)' <=> Asked(x)
  BY <1>2, <1>3 DEF Asked, Issues
<1>5. StateOf(t) = "unissued"
  BY <1>1, <1>2, StateOfToken
<1>6. [x \in Tokens |-> StateOf(x)'] =
          [[x \in Tokens |-> StateOf(x)] EXCEPT ![t] = "asked"]
  <2>1. \A x \in Tokens : StateOf(x)' = IF x = t THEN "asked" ELSE StateOf(x)
    BY <1>2, <1>4 DEF StateOf
  <2> QED BY <2>1
<1>7. UnderWay(t) = Register!In({"asked"}) \cap Register!Beside(t)
  <2>1. \A x \in Tokens : Asked(x) => row[x].status = "never"
    BY DEF TokenInv, FreshInv, Asked, Issues
  <2>2. \A x \in Tokens : StateOf(x) = "asked" <=> Asked(x)
    BY <1>1, <2>1, StateOfToken
  <2> QED BY <2>2 DEF UnderWay, Register!In, Register!Beside, Slot
<1>8. overlapping' = overlapping \cup {{t, x} : x \in UnderWay(t)}
  BY DEF IssueReads
<1> QED BY <1>2, <1>5, <1>6, <1>7, <1>8 DEF Register!Ask

LEMMA AbortingIsDropping ==
    ASSUME TokenInv, NEW c \in Clients, Abort(c), NEW t \in Tokens, Issues(c, t)
    PROVE  Register!Drop(t)
<1>1. TypeOK /\ End(c) /\ row' = row /\ uses' = uses
  BY DEF TokenInv, Abort
<1>2. /\ row[t].status = "never" /\ Asked(t) /\ ~Asked(t)'
      /\ \A x \in Tokens \ {t} : Asked(x)' <=> Asked(x)
  BY <1>1, AskedEnds
<1>3. StateOf(t) = "asked"
  BY <1>1, <1>2, StateOfToken
<1>4. RegisterState(row[t]) = "unissued"
  BY <1>2 DEF RegisterState
<1>5. \A x \in Tokens : StateOf(x)' = IF x = t THEN "unissued" ELSE StateOf(x)
  BY <1>1, <1>2, <1>4 DEF StateOf
<1>6. [x \in Tokens |-> StateOf(x)'] =
          [[x \in Tokens |-> StateOf(x)] EXCEPT ![t] = "unissued"]
  BY <1>2, <1>5
<1>7. overlapping' = {pair \in overlapping : t \notin pair}
  BY DEF Abort, Issues
<1> QED BY <1>1, <1>2, <1>3, <1>6, <1>7 DEF Register!Drop

LEMMA IssueIsIssue ==
    ASSUME SingleInv, SeenInv, NEW c \in Clients, IssueCommits(c),
           NEW t \in Tokens, t = txn[c].target
    PROVE  Register!Issue(t)
<1> DEFINE closed == {x \in Tokens : x \in txn[c].seen /\ State(x) \in {"open", "expired"}}
<1>0. /\ TokenInv /\ TypeOK /\ row \in [Tokens -> Row]
      /\ txn[c].kind = "issue" /\ End(c)
      /\ uses' = uses /\ overlapping' = overlapping
  BY DEF SingleInv, TokenInv, TypeOK, IssueCommits
<1>1. /\ t \in Tokens /\ row[t].status = "never"
      /\ row'[t] = CreatedRow
      /\ \A x \in Tokens \ {t} : row'[x] = Revoked(txn[c].seen)[x]
  BY <1>0, IssuedRows
<1>2. Asked(t) /\ \A x \in Tokens \ {t} : Asked(x)' <=> Asked(x)
  BY <1>0, AskedEnds DEF Issues
<1>3. OwnSeen(txn[c])
  BY DEF SeenInv
<1>4. StateOf(t) = "asked"
  BY <1>0, <1>1, <1>2, StateOfToken
<1>5. closed \subseteq Register!In({"open", "expired"}) \cap Register!Beside(t)
  BY <1>0, <1>3, StateOfToken DEF OwnSeen, Register!In, Register!Beside
<1>6. ASSUME PurposeOf[t] \in SingleActive, NEW x \in Register!In({"open"}) \cap Register!Beside(t)
      PROVE  x \in closed \/ {t, x} \in overlapping
  <2>1. x \in Tokens /\ State(x) = "open" /\ IsUsable(row[x]) /\ Slot(x) = Slot(t)
    BY <1>0, <1>6, StateOfRow, StateOfToken DEF Register!In, Register!Beside, State, Slot
  <2>2. x \in txn[c].seen \/ {t, x} \in overlapping
    BY <1>0, <1>6, <2>1, IssueInvMeans DEF SingleInv
  <2> QED BY <2>1, <2>2
<1>7. ASSUME PurposeOf[t] \notin SingleActive PROVE closed = {}
  BY <1>0, <1>3, <1>7 DEF OwnSeen
<1>8. StateOf(t)' = "open"
  <2>1. CreatedRow \in Row /\ IsUsable(CreatedRow) /\ CreatedRow.status = "stored"
    BY RowsTyped, PeriodsAssumption DEF CreatedRow, NoRow, IsUsable
  <2>2. RegisterState(CreatedRow) = "open"
    BY <2>1, StateOfRow
  <2> QED BY <1>1, <2>1, <2>2 DEF StateOf
<1>9. ASSUME NEW x \in Tokens \ {t}
      PROVE  StateOf(x)' = IF x \in closed THEN "revoked" ELSE StateOf(x)
  <2>1. RegisterState(row'[x]) = IF x \in closed THEN "revoked" ELSE State(x)
    BY <1>0, <1>1, RevokedState DEF Revoked, State
  <2>2. row'[x].status = row[x].status
    BY <1>0, <1>1, RevokedFacts
  <2>3. x \in closed => row[x].status # "never"
    BY <1>0, StateOfRow DEF State
  <2> QED BY <1>2, <2>1, <2>2, <2>3 DEF StateOf, State
<1>10. [x \in Tokens |-> StateOf(x)'] =
           [x \in Tokens |-> IF x = t THEN "open"
                             ELSE IF x \in closed THEN "revoked"
                             ELSE [y \in Tokens |-> StateOf(y)][x]]
  BY <1>8, <1>9
<1> HIDE DEF closed
<1> QED BY <1>0, <1>1, <1>4, <1>5, <1>6, <1>7, <1>10 DEF Register!Issue

\* A step that brings the tokens of S into one state, and grants or issues none.
LEMMA Becoming ==
    ASSUME TypeOK, TypeOK', NEW S \in SUBSET Tokens, NEW s, s # "unissued",
           uses' = uses, overlapping' = overlapping,
           \A x \in Tokens : Asked(x)' <=> Asked(x),
           \A x \in S : State(x) # "unissued",
           \A x \in Tokens : RegisterState(row'[x]) = IF x \in S THEN s ELSE State(x)
    PROVE  IF S = {} THEN UNCHANGED Register!vars ELSE Register!Become(S, s)
<1>1. \A x \in Tokens : /\ row[x].status = "never" <=> State(x) = "unissued"
                        /\ row'[x].status = "never" <=> RegisterState(row'[x]) = "unissued"
  BY StateOfRow DEF TypeOK, State
<1>2. \A x \in Tokens : StateOf(x)' = IF x \in S THEN s ELSE StateOf(x)
  BY <1>1 DEF StateOf, State
<1>3. [x \in Tokens |-> StateOf(x)'] =
          [x \in Tokens |-> IF x \in S THEN s ELSE [y \in Tokens |-> StateOf(y)][x]]
  BY <1>2
<1>4. CASE S = {}
  BY <1>3, <1>4 DEF Register!vars
<1>5. CASE S # {}
  BY <1>3, <1>5 DEF Register!Become
<1> QED BY <1>4, <1>5

LEMMA RevokeIsRevoke ==
    ASSUME TokenInv, SeenInv, NEW c \in Clients, RevokeCommits(c)
    PROVE  [Register!Next]_(Register!vars)
<1> DEFINE S == {x \in Tokens : x \in txn[c].seen /\ State(x) \in {"open", "expired"}}
<1>1. row \in [Tokens -> Row] /\ uses' = uses /\ row' = Revoked(txn[c].seen)
  BY DEF TokenInv, TypeOK, RevokeCommits
<1>2. \A x \in Tokens : RegisterState(row'[x]) = IF x \in S THEN "revoked" ELSE State(x)
  BY <1>1, RevokedState DEF Revoked, State
<1>3. /\ S \in SUBSET Register!In({"open", "expired"}) /\ S \in SUBSET Tokens
      /\ \A x \in S : State(x) # "unissued"
  BY StateOfToken DEF TokenInv, Register!In
<1>4. \E u \in Users : \A x \in S : UserOf[x] = u
  BY DEF SeenInv, OwnSeen, RevokeCommits
<1> HIDE DEF S
<1>7. TypeOK /\ TypeOK' /\ overlapping' = overlapping
  BY TypeStep DEF TokenInv, Next, RevokeCommits
<1>8. \A x \in Tokens : Asked(x)' <=> Asked(x)
  BY <1>7, Ending, AskedStays DEF RevokeCommits
<1>5. IF S = {} THEN UNCHANGED Register!vars ELSE Register!Become(S, "revoked")
  BY <1>1, <1>2, <1>3, <1>7, <1>8, Becoming
<1>6. CASE S # {}
  <2>1. Register!Revoke(S)
    BY <1>4, <1>5, <1>6 DEF Register!Revoke
  <2> QED BY <1>3, <2>1 DEF Register!Next
<1> QED BY <1>5, <1>6

LEMMA ConsumeIsUse ==
    ASSUME TokenInv, NEW c \in Clients, ConsumeCommits(c),
           NEW t \in Tokens, t = txn[c].target
    PROVE  Register!Use(t)
<1>1. row \in [Tokens -> Row] /\ row' \in [Tokens -> Row]
  BY TypeStep DEF TokenInv, TypeOK, Next
<1>2. /\ t \in Tokens
      /\ row[t].status = "stored" /\ ~row[t].consumed /\ ~row[t].revoked
      /\ row'[t].status = "stored" /\ row'[t].consumed
      /\ \A x \in Tokens \ {t} : row'[x] = row[x]
  BY ConsumedRows
<1>3. StateOf(t) \in {"open", "expired"}
  <2>1. State(t) \in {"open", "expired"}
    BY <1>1, <1>2, StateOfRow DEF State, IsUsable
  <2> QED BY <1>2, <2>1, StateOfToken DEF TokenInv
<1>4. StateOf(t)' = "used"
  BY <1>1, <1>2, StateOfRow DEF StateOf
<1>7. \A x \in Tokens : Asked(x)' <=> Asked(x)
  BY Ending, AskedStays DEF ConsumeCommits, TokenInv
<1>5. [x \in Tokens |-> StateOf(x)'] = [[x \in Tokens |-> StateOf(x)] EXCEPT ![t] = "used"]
  <2>1. \A x \in Tokens : StateOf(x)' = IF x = t THEN "used" ELSE StateOf(x)
    BY <1>2, <1>4, <1>7 DEF StateOf
  <2> QED BY <2>1
<1>6. uses' \in {uses, [uses EXCEPT ![t] = @ + 1]} /\ overlapping' = overlapping
  BY DEF ConsumeCommits
<1> QED BY <1>2, <1>3, <1>5, <1>6 DEF Register!Use

\* What passes its retention had run out or was settled before.
LEMMA CleanupForgets ==
    ASSUME TokenInv, Cleanup
    PROVE  [Register!Next]_(Register!vars)
<1> DEFINE S == {x \in Tokens : row[x].status = "stored" /\ row[x].left < -Retention}
<1>1. row \in [Tokens -> Row] /\ row' \in [Tokens -> Row] /\ uses' = uses
  BY TypeStep DEF TokenInv, TypeOK, Next, Cleanup
<1>2. \A x \in Tokens : RegisterState(row'[x]) = IF x \in S THEN "gone" ELSE State(x)
  <2> SUFFICES ASSUME NEW x \in Tokens
               PROVE  RegisterState(row'[x]) = IF x \in S THEN "gone" ELSE State(x)
    OBVIOUS
  <2>1. CASE x \in S
    <3>1. row'[x].status = "deleted"
      BY <1>1, <2>1 DEF Cleanup, Row
    <3> QED BY <1>1, <2>1, <3>1, StateOfRow
  <2>2. CASE x \notin S
    BY <2>2 DEF Cleanup, State
  <2> QED BY <2>1, <2>2
<1>3. /\ S \in SUBSET Register!In({"expired", "used", "revoked"}) /\ S \in SUBSET Tokens
      /\ \A x \in S : State(x) # "unissued"
  <2> SUFFICES ASSUME NEW x \in S PROVE State(x) \in {"expired", "used", "revoked"}
    BY StateOfToken DEF TokenInv, Register!In
  <2>1. row[x] \in Row /\ row[x].left \in Int /\ ~(row[x].left > 0)
    BY <1>1, PeriodsAssumption DEF Row, Oldest
  <2> QED BY <2>1, StateOfRow DEF State
<1> HIDE DEF S
<1>5. TypeOK /\ TypeOK' /\ overlapping' = overlapping /\ txn' = txn
  BY TypeStep DEF TokenInv, Next, Cleanup
<1>6. \A x \in Tokens : Asked(x)' <=> Asked(x)
  BY <1>5 DEF Asked, Issues
<1>4. IF S = {} THEN UNCHANGED Register!vars ELSE Register!Become(S, "gone")
  BY <1>1, <1>2, <1>3, <1>5, <1>6, Becoming
<1> QED BY <1>3, <1>4 DEF Register!Next

LEMMA TickExpires ==
    ASSUME TokenInv, Tick
    PROVE  [Register!Next]_(Register!vars)
<1> DEFINE S == {x \in Tokens : State(x) = "open" /\ RegisterState(row'[x]) = "expired"}
<1>1. row \in [Tokens -> Row] /\ row' \in [Tokens -> Row] /\ uses' = uses
  BY TypeStep DEF TokenInv, TypeOK, Next, Tick
<1>2. \A x \in Tokens : RegisterState(row'[x]) = IF x \in S THEN "expired" ELSE State(x)
  <2> SUFFICES ASSUME NEW x \in Tokens, x \notin S PROVE RegisterState(row'[x]) = State(x)
    OBVIOUS
  <2>1. /\ row[x] \in Row /\ row[x].left \in Int
        /\ \/ row'[x] = row[x]
           \/ row[x].status = "stored" /\ row'[x] = [row[x] EXCEPT !.left = @ - 1]
    BY <1>1, PeriodsAssumption DEF Tick, Row, Oldest
  <2>2. CASE row'[x] = row[x]
    BY <2>2 DEF State
  <2>3. CASE row[x].status = "stored" /\ row'[x] = [row[x] EXCEPT !.left = @ - 1]
    <3>1. /\ row'[x].status = "stored"
          /\ row'[x].consumed = row[x].consumed
          /\ row'[x].revoked = row[x].revoked
          /\ row'[x].left = row[x].left - 1
      BY <2>1, <2>3 DEF Row
    <3>2. CASE row[x].consumed \/ row[x].revoked
      BY <3>1, <3>2, <2>3 DEF RegisterState, State
    <3>3. CASE ~row[x].consumed /\ ~row[x].revoked
      <4>1. State(x) = IF row[x].left > 0 THEN "open" ELSE "expired"
        BY <2>3, <3>3 DEF RegisterState, State
      <4>2. RegisterState(row'[x]) = IF row[x].left - 1 > 0 THEN "open" ELSE "expired"
        BY <3>1, <3>3 DEF RegisterState
      <4> QED BY <2>1, <4>1, <4>2
    <3> QED BY <3>2, <3>3
  <2> QED BY <2>1, <2>2, <2>3
<1>3. /\ S \in SUBSET Register!In({"open"}) /\ S \in SUBSET Tokens
      /\ \A x \in S : State(x) # "unissued"
  BY StateOfToken DEF TokenInv, Register!In
<1> HIDE DEF S
<1>5. TypeOK /\ TypeOK' /\ overlapping' = overlapping /\ txn' = txn
  BY TypeStep DEF TokenInv, Next, Tick
<1>6. \A x \in Tokens : Asked(x)' <=> Asked(x)
  BY <1>5 DEF Asked, Issues
<1>4. IF S = {} THEN UNCHANGED Register!vars ELSE Register!Become(S, "expired")
  BY <1>1, <1>2, <1>3, <1>5, <1>6, Becoming
<1> QED BY <1>3, <1>4 DEF Register!Next

LEMMA RegisterStep ==
    ASSUME SingleInv, SeenInv, [Next]_vars PROVE [Register!Next]_(Register!vars)
<1>1. TokenInv
  BY DEF SingleInv
<1>2. ASSUME NEW c \in Clients, IssueCommits(c) PROVE Register!Next
  BY <1>1, <1>2, IssueIsIssue, IssuedRows DEF Register!Next
<1>3. ASSUME NEW c \in Clients, RevokeCommits(c) PROVE [Register!Next]_(Register!vars)
  BY <1>1, <1>3, RevokeIsRevoke
<1>4. ASSUME NEW c \in Clients, ConsumeCommits(c) PROVE Register!Next
  BY <1>1, <1>4, ConsumeIsUse, ConsumedRows DEF Register!Next
<1>5. CASE Cleanup \/ Tick
  BY <1>1, <1>5, CleanupForgets, TickExpires
<1>6. ASSUME row' = row, uses' = uses, overlapping' = overlapping,
             \A x \in Tokens : Asked(x)' <=> Asked(x)
      PROVE  UNCHANGED Register!vars
  <2>1. \A x \in Tokens : StateOf(x)' = StateOf(x)
    BY <1>6 DEF StateOf
  <2> QED BY <1>6, <2>1 DEF Register!vars
<1>7. ASSUME NEW c \in Clients, NEW t \in Tokens, IssueReads(c, t) PROVE Register!Next
  BY <1>1, <1>7, ReadingIsAsking DEF Register!Next
<1>8. ASSUME NEW c \in Clients, Abort(c) PROVE [Register!Next]_(Register!vars)
  <2>1. CASE txn[c].kind = "issue"
    BY <1>1, <1>8, <2>1, AbortingIsDropping, InFlightTarget DEF Register!Next
  <2>2. CASE txn[c].kind # "issue"
    <3>1. \A x \in Tokens : Asked(x)' <=> Asked(x)
      BY <1>1, <1>8, <2>2, Ending, AskedStays DEF Abort, TokenInv
    <3> QED BY <1>6, <1>8, <2>2, <3>1 DEF Abort
  <2> QED BY <2>1, <2>2
<1>9. ASSUME NEW c \in Clients, NEW x, Begin(c, x), x.kind # "issue", overlapping' = overlapping
      PROVE  UNCHANGED Register!vars
  <2>1. /\ row' = row /\ uses' = uses /\ txn'[c].kind # "issue"
        /\ \A d \in Clients \ {c} : txn'[d] = txn[d]
    BY <1>1, <1>9, Beginning DEF TokenInv
  <2>2. txn[c].kind = "none"
    BY <1>9 DEF Begin, NoTxn
  <2>3. \A y \in Tokens : Asked(y)' <=> Asked(y)
    BY <2>1, <2>2, AskedStays
  <2> QED BY <1>6, <1>9, <2>1, <2>3
<1>10. ASSUME NEW c \in Clients, NEW t \in Tokens, ConsumeReads(c, t)
       PROVE  UNCHANGED Register!vars
  <2> DEFINE x == [NoTxn EXCEPT !.kind = "consume", !.target = t,
                                !.copy = ConsumedCopy(row[t])]
  <2>1. Begin(c, x) /\ overlapping' = overlapping
    BY <1>10 DEF ConsumeReads
  <2>2. x.kind # "issue"
    BY DEF NoTxn
  <2> HIDE DEF x
  <2> QED BY <1>9, <2>1, <2>2
<1>11. ASSUME NEW c \in Clients, NEW S \in SUBSET Tokens, RevokeReads(c, S)
       PROVE  UNCHANGED Register!vars
  <2> DEFINE x == [NoTxn EXCEPT !.kind = "revoke", !.seen = S]
  <2>1. Begin(c, x) /\ overlapping' = overlapping
    BY <1>11 DEF RevokeReads
  <2>2. x.kind # "issue"
    BY DEF NoTxn
  <2> HIDE DEF x
  <2> QED BY <1>9, <2>1, <2>2
<1>12. CASE UNCHANGED vars
  BY <1>6, <1>12 DEF vars, Asked, Issues
<1> QED
  BY <1>2, <1>3, <1>4, <1>5, <1>7, <1>8, <1>10, <1>11, <1>12, RevokingReads DEF Next

\* Every operation is one step of the register, an issue one after it was asked
\* for, though others run between its read and its commit.
THEOREM Refinement == Spec => KeepsPromise
<1>1. Init => Register!Init
  BY DEF Init, Register!Init, StateOf, Asked, Issues, RegisterState, NoRow, NoTxn
<1>2. Init => SeenInv
  BY DEF Init, SeenInv, OwnSeen, NoTxn
<1>3. SingleInv /\ [Next]_vars => SingleInv'
  BY SingleInvStep
<1>4. SingleInv => TypeOK
  BY DEF SingleInv, TokenInv
<1>5. SingleInv /\ SeenInv /\ [Next]_vars => [Register!Next]_(Register!vars)
  BY RegisterStep
<1> QED
  BY <1>1, <1>2, <1>3, <1>4, <1>5, SingleInit, SeenStays, PTL
     DEF Spec, KeepsPromise, Register!Spec

=============================================================================
