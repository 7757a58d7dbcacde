---------------------- MODULE DurableIdempotencyProofs ----------------------
(***************************************************************************)
(* Theorems about DurableIdempotency, for any requests and bodies, any     *)
(* periods and any number of failures.                                     *)
(***************************************************************************)
EXTENDS DurableIdempotency, TLAPS

-----------------------------------------------------------------------------
(* Records *)

LEMMA Clocks ==
    /\ Oldest \in Int /\ Oldest <= -1 /\ Ttl \in Oldest..Forever /\ Forever \in Oldest..Forever
    /\ 0 \in Oldest..Forever
BY TimesAssumption DEF Oldest, Forever

LEMMA RecordsTyped ==
    /\ NoRecord \in Record
    /\ \A r \in Requests : ClaimedRow(r) \in Record
BY Clocks DEF NoRecord, ClaimedRow, Record

\* What time and Redis do to a record.
LEMMA OlderRecord ==
    ASSUME NEW rec \in Record
    PROVE  /\ Older(rec) \in Record
           /\ Older(rec).status = rec.status /\ Older(rec).by = rec.by
           /\ Older(rec).result = rec.result
           /\ Older(rec).left <= rec.left
           /\ rec.status = "none" => Older(rec) = rec
           /\ rec.status # "none" /\ rec.left >= 0 => Older(rec).left = rec.left - 1
BY Clocks DEF Older, Record

LEMMA CachedRecord ==
    ASSUME NEW rec \in Record
    PROVE  /\ CachedCopy(rec) \in Record
           /\ CachedCopy(rec).status = rec.status /\ CachedCopy(rec).by = rec.by
           /\ CachedCopy(rec).result = rec.result
           /\ rec.left > 0 => CachedCopy(rec) = rec
<1>1. [rec EXCEPT !.left = Forever] \in Record /\ [rec EXCEPT !.left = rec.left] = rec
  BY Clocks DEF Record
<1> QED BY <1>1 DEF CachedCopy, Record

LEMMA OlderCached ==
    ASSUME NEW rec \in Record
    PROVE  /\ OlderCopy(rec) \in Record
           /\ OlderCopy(rec) # NoRecord =>
                  /\ OlderCopy(rec).status = rec.status /\ OlderCopy(rec).by = rec.by
                  /\ OlderCopy(rec).result = rec.result
           /\ OlderCopy(rec).status # "none" /\ rec.left # Forever =>
                  OlderCopy(rec) = Older(rec) /\ OlderCopy(rec).left > 0
<1>1. Forever > 1 /\ Forever \in Nat
  BY TimesAssumption DEF Forever
<1>2. CASE rec.left = Forever
  BY <1>2 DEF OlderCopy
<1>3. CASE rec.left # Forever /\ rec.left > 1
  <2>1. rec.status # "none" => Older(rec).left = rec.left - 1
    BY <1>3, OlderRecord DEF Record
  <2>2. rec.left \in Int
    BY Clocks DEF Record
  <2> QED BY <1>3, <2>1, <2>2, OlderRecord DEF OlderCopy
<1>4. CASE rec.left # Forever /\ ~(rec.left > 1)
  BY <1>4, RecordsTyped DEF OlderCopy, NoRecord
<1> QED BY <1>2, <1>3, <1>4

LEMMA MarkedRecord ==
    ASSUME TypeOK, NEW r \in Requests, verdict[r] \in Settled
    PROVE  MarkedRow(row, r) \in Record
BY DEF TypeOK, MarkedRow, Record, Settled

-----------------------------------------------------------------------------
(* Typing *)

\* A request that marks has a verdict to store.
MarkTyped == \A r \in Requests : pc[r] \in {"mark", "cache"} => verdict[r] \in Settled

LEMMA ReplyTyped ==
    ASSUME TypeOK, NEW r \in Requests, NEW a \in Answer, NEW life \in Int, life <= Forever,
           Reply(r, a, life)
    PROVE  /\ pc' \in [Requests -> Labels] /\ answer' \in [Requests -> Answer]
           /\ promise' \in [Requests -> 0..Forever]
           /\ pc' = [pc EXCEPT ![r] = "done"]
<1>1. Forever \in Nat
  BY TimesAssumption DEF Forever
<1>2. \A n \in 0..Forever : life > n => life \in 0..Forever
  BY <1>1
<1>3. promise' \in [Requests -> 0..Forever]
  BY <1>2 DEF TypeOK, Reply
<1> QED BY <1>3 DEF TypeOK, Reply, Labels

LEMMA GotoTyped ==
    ASSUME TypeOK, NEW r \in Requests, NEW l \in Labels, Goto(r, l)
    PROVE  /\ pc' \in [Requests -> Labels] /\ answer' \in [Requests -> Answer]
           /\ promise' \in [Requests -> 0..Forever]
           /\ pc' = [pc EXCEPT ![r] = l]
BY DEF TypeOK, Goto

LEMMA PlainTyped ==
    \A k \in {"none", "busy", "mismatch", "error"} : Plain(k) \in Answer
BY DEF Plain, Answer

LEMMA ResolvedTyped ==
    ASSUME NEW r \in Requests, NEW rec \in Record, rec.status # "none"
    PROVE  Resolved(r, rec) \in Answer
<1>1. rec.status = "in_progress" \/ rec.status \in Settled
  BY DEF Record
<1>2. rec.status \in Settled => [kind |-> rec.status, of |-> rec.result] \in Answer
  BY DEF Record, Answer
<1> QED BY <1>1, <1>2, PlainTyped DEF Resolved, Settled

LEMMA RejectedTyped ==
    ASSUME TypeOK, NEW r \in Requests, Rejected(r)
    PROVE  /\ pc' \in [Requests -> Labels] /\ answer' \in [Requests -> Answer]
           /\ promise' \in [Requests -> 0..Forever]
           /\ pc' \in {[pc EXCEPT ![r] = "delete"], [pc EXCEPT ![r] = "done"]}
<1>1. 0 \in Int /\ 0 <= Forever
  BY TimesAssumption DEF Forever
<1>2. CASE verdict[r] = "completed"
  BY <1>2, GotoTyped DEF Rejected, Labels
<1>3. CASE verdict[r] # "completed"
  BY <1>1, <1>3, PlainTyped, ReplyTyped DEF Rejected
<1> QED BY <1>2, <1>3

LEMMA FaultTyped == ASSUME TypeOK, Fault PROVE faults' \in 0..MaxFaults
BY FaultsAssumption DEF TypeOK, Fault

\* Only a record in the table is withdrawn, so it has an owner.
OwnersTyped == row.status # "none" => row.by \in Requests

LEMMA WithdrawalTyped ==
    ASSUME TypeOK, OwnersTyped, NotesWithdrawal PROVE withdrawn' \subseteq Requests
BY DEF TypeOK, OwnersTyped, NotesWithdrawal, Settled

TypeInv == TypeOK /\ MarkTyped /\ OwnersTyped

\* Marking keeps the record's owner.
LEMMA MarkedOwner ==
    ASSUME TypeOK, OwnersTyped, NEW r \in Requests, Markable(row)
    PROVE  MarkedRow(row, r).by \in Requests
BY DEF TypeOK, OwnersTyped, Markable, MarkedRow, Record

LEMMA TypeStep == TypeInv /\ [Next]_vars => TypeInv'
<1> SUFFICES ASSUME TypeInv, [Next]_vars PROVE TypeInv'
  OBVIOUS
<1> USE DEF TypeInv
<1>0. /\ 0 \in Int /\ 0 <= Forever /\ Forever \in Nat
      /\ \A rec \in Record : rec.left \in Int /\ rec.left <= Forever
      /\ \A r \in Requests : Ttl - spent[r] \in Int /\ Ttl - spent[r] <= Forever
  BY TimesAssumption, Clocks DEF TypeOK, Forever, Record
<1>1. ASSUME NEW r \in Requests, Lookup(r) PROVE TypeInv'
  <2>1. CASE cache.status # "none"
    <3>1. Resolved(r, cache) \in Answer
      BY <2>1, ResolvedTyped DEF TypeOK
    <3>2. Reply(r, Resolved(r, cache), cache.left) /\ cache.left \in Int /\ cache.left <= Forever
      BY <1>0, <1>1, <2>1 DEF Lookup, TypeOK
    <3> QED BY <1>1, <3>1, <3>2, ReplyTyped DEF Lookup, TypeOK, MarkTyped, OwnersTyped
  <2>2. CASE cache.status = "none"
    <3>1. Goto(r, "query") \/ Goto(r, "requery")
      BY <1>1, <2>2 DEF Lookup
    <3> QED BY <1>1, <3>1, GotoTyped DEF Lookup, TypeOK, MarkTyped, OwnersTyped, Labels
  <2> QED BY <2>1, <2>2
<1>2. ASSUME NEW r \in Requests, LookupFails(r) PROVE TypeInv'
  BY <1>0, <1>2, PlainTyped, ReplyTyped, FaultTyped DEF LookupFails, TypeOK, MarkTyped, OwnersTyped
<1>3. ASSUME NEW r \in Requests, Query(r) PROVE TypeInv'
  <2>1. CASE Active(row)
    <3>1. Resolved(r, row) \in Answer
      BY <2>1, ResolvedTyped DEF TypeOK, Active
    <3>2. Reply(r, Resolved(r, row), row.left) /\ row.left \in Int /\ row.left <= Forever
      BY <1>0, <1>3, <2>1 DEF Query, TypeOK
    <3> QED BY <1>3, <3>1, <3>2, ReplyTyped DEF Query, TypeOK, MarkTyped, OwnersTyped
  <2>2. CASE ~Active(row)
    <3>1. Goto(r, "claim") \/ Reply(r, Plain("error"), 0)
      BY <1>3, <2>2 DEF Query
    <3>2. CASE Goto(r, "claim")
      BY <1>3, <3>2, GotoTyped DEF Query, TypeOK, MarkTyped, OwnersTyped, Labels
    <3>3. CASE Reply(r, Plain("error"), 0)
      BY <1>0, <1>3, <3>3, PlainTyped, ReplyTyped DEF Query, TypeOK, MarkTyped, OwnersTyped
    <3> QED BY <3>1, <3>2, <3>3
  <2> QED BY <2>1, <2>2
<1>4. ASSUME NEW r \in Requests, QueryFails(r) PROVE TypeInv'
  BY <1>0, <1>4, PlainTyped, ReplyTyped, FaultTyped DEF QueryFails, TypeOK, MarkTyped, OwnersTyped
<1>5. ASSUME NEW r \in Requests, Claim(r) PROVE TypeInv'
  <2>1. row' \in Record
    BY <1>5, RecordsTyped DEF Claim, TypeOK
  <2>2. Goto(r, "running") \/ Goto(r, "recheck")
    BY <1>5 DEF Claim
  <2>3. OwnersTyped'
    BY <1>5 DEF Claim, ClaimedRow, OwnersTyped
  <2> QED BY <1>5, <2>1, <2>2, <2>3, GotoTyped DEF Claim, TypeOK, MarkTyped, Labels
<1>6. ASSUME NEW r \in Requests, ClaimFails(r) PROVE TypeInv'
  <2>1. row' \in Record
    BY <1>6, RecordsTyped DEF ClaimFails, TypeOK
  <2>2. OwnersTyped'
    BY <1>6 DEF ClaimFails, ClaimedRow, OwnersTyped
  <2> QED BY <1>0, <1>6, <2>1, <2>2, PlainTyped, ReplyTyped, FaultTyped DEF ClaimFails, TypeOK, MarkTyped
<1>7. ASSUME NEW r \in Requests, HandlerReturns(r) PROVE TypeInv'
  <2> PICK v \in Settled \cup {"error"} :
        /\ verdict' = [verdict EXCEPT ![r] = v]
        /\ Goto(r, IF v = "error" THEN "delete" ELSE "mark")
    BY <1>7 DEF HandlerReturns
  <2>1. CASE v = "error"
    BY <1>7, <2>1, GotoTyped DEF HandlerReturns, TypeOK, MarkTyped, OwnersTyped, Labels
  <2>2. CASE v # "error"
    BY <1>7, <2>2, GotoTyped DEF HandlerReturns, TypeOK, MarkTyped, OwnersTyped, Labels
  <2> QED BY <2>1, <2>2
<1>8. ASSUME NEW r \in Requests, Mark(r) PROVE TypeInv'
  <2>0. verdict[r] \in Settled
    BY <1>8 DEF Mark, MarkTyped
  <2>1. row' \in Record /\ held' \in [Requests -> Record]
    BY <1>8, <2>0, MarkedRecord DEF Mark, TypeOK
  <2>2. CASE Markable(row)
    BY <1>8, <2>0, <2>1, <2>2, MarkedOwner, GotoTyped DEF Mark, TypeOK, MarkTyped, OwnersTyped, Labels
  <2>3. CASE ~Markable(row)
    <3>1. [kind |-> verdict[r], of |-> r] \in Answer
      BY <2>0 DEF Answer
    <3> QED BY <1>0, <1>8, <2>1, <2>3, <3>1, ReplyTyped DEF Mark, TypeOK, MarkTyped, OwnersTyped
  <2> QED BY <2>2, <2>3
<1>9. ASSUME NEW r \in Requests, MarkFails(r) PROVE TypeInv'
  BY <1>9, RejectedTyped, FaultTyped DEF MarkFails, TypeOK, MarkTyped, OwnersTyped
<1>10. ASSUME NEW r \in Requests, MarkUnknown(r) PROVE TypeInv'
  <2>1. row' \in Record
    BY <1>10, MarkedRecord DEF MarkUnknown, MarkTyped
  <2> QED BY <1>10, <2>1, MarkedOwner, RejectedTyped, FaultTyped DEF MarkUnknown, TypeOK, MarkTyped, OwnersTyped
<1>11. ASSUME NEW r \in Requests, CacheSet(r) PROVE TypeInv'
  <2>1. cache' \in Record
    BY <1>11, CachedRecord DEF CacheSet, TypeOK
  <2>2. [kind |-> verdict[r], of |-> r] \in Answer
    BY <1>11 DEF CacheSet, MarkTyped, Answer
  <2>3. held' \in [Requests -> Record]
    BY <1>11, RecordsTyped DEF CacheSet, Drops, TypeOK
  <2> QED BY <1>0, <1>11, <2>1, <2>2, <2>3, ReplyTyped DEF CacheSet, TypeOK, MarkTyped, OwnersTyped
<1>12. ASSUME NEW r \in Requests, CacheSetFails(r) PROVE TypeInv'
  <2>1. cache' \in Record
    BY <1>12, CachedRecord DEF CacheSetFails, TypeOK
  <2>2. held' \in [Requests -> Record]
    BY <1>12, RecordsTyped DEF CacheSetFails, Drops, TypeOK
  <2> QED BY <1>12, <2>1, <2>2, RejectedTyped, FaultTyped DEF CacheSetFails, TypeOK, MarkTyped, OwnersTyped
<1>13. ASSUME NEW r \in Requests, Delete(r) PROVE TypeInv'
  <2>1. OwnersTyped' /\ row' \in Record
    BY <1>13, RecordsTyped DEF Delete, NoRecord, OwnersTyped
  <2> QED BY <1>13, <2>1, GotoTyped, WithdrawalTyped DEF Delete, TypeOK, MarkTyped, Labels
<1>14. ASSUME NEW r \in Requests, DeleteFails(r) PROVE TypeInv'
  <2>1. row' \in Record
    BY <1>14, RecordsTyped DEF DeleteFails, TypeOK
  <2>2. OwnersTyped'
    BY <1>14 DEF DeleteFails, NoRecord, OwnersTyped
  <2> QED BY <1>0, <1>14, <2>1, <2>2, WithdrawalTyped, PlainTyped, ReplyTyped, FaultTyped
          DEF DeleteFails, TypeOK, MarkTyped
<1>15. ASSUME NEW r \in Requests, Uncache(r) PROVE TypeInv'
  BY <1>0, <1>15, RecordsTyped, PlainTyped, ReplyTyped DEF Uncache, TypeOK, MarkTyped, OwnersTyped
<1>16. ASSUME NEW r \in Requests, UncacheFails(r) PROVE TypeInv'
  BY <1>0, <1>16, PlainTyped, ReplyTyped, FaultTyped DEF UncacheFails, TypeOK, MarkTyped, OwnersTyped
<1>17. ASSUME NEW r \in Requests, Crash(r) PROVE TypeInv'
  BY <1>17, GotoTyped, FaultTyped, RecordsTyped DEF Crash, Drops, TypeOK, MarkTyped, OwnersTyped, Labels
<1>18. CASE Sweep
  <2>1. [row EXCEPT !.status = "failed"] \in Record
    BY DEF TypeOK, Record, Settled
  <2>2. OwnersTyped'
    BY <1>18 DEF Sweep, Stale, OwnersTyped, TypeOK, Record
  <2> QED BY <1>18, <2>1, <2>2 DEF Sweep, TypeOK, MarkTyped
<1>19. CASE DeleteExpired
  BY <1>19, RecordsTyped DEF DeleteExpired, NoRecord, TypeOK, MarkTyped, OwnersTyped
<1>20. CASE CacheEvicts
  BY <1>20, RecordsTyped, FaultTyped DEF CacheEvicts, TypeOK, MarkTyped, OwnersTyped
<1>21. CASE Tick
  <2>1. row' \in Record /\ cache' \in Record
    BY <1>21, OlderRecord, OlderCached DEF Tick, TypeOK
  <2>2. held' \in [Requests -> Record]
    BY <1>21, OlderRecord DEF Tick, TypeOK
  <2>3. spent' \in [Requests -> 0..Patience]
    BY <1>21, TimesAssumption DEF Tick, TypeOK
  <2>4. promise' \in [Requests -> 0..Forever]
    BY <1>0, <1>21 DEF Tick, TypeOK
  <2>5. OwnersTyped'
    BY <1>21, OlderRecord DEF Tick, TypeOK, OwnersTyped
  <2> QED BY <1>21, <2>1, <2>2, <2>3, <2>4, <2>5 DEF Tick, TypeOK, MarkTyped
<1>22. CASE UNCHANGED vars
  BY <1>22 DEF vars, TypeOK, MarkTyped, OwnersTyped
<1> QED BY <1>1, <1>2, <1>3, <1>4, <1>5, <1>6, <1>7, <1>8, <1>9, <1>10, <1>11, <1>12, <1>13,
           <1>14, <1>15, <1>16, <1>17, <1>18, <1>19, <1>20, <1>21, <1>22
        DEF Next, Step, Fails

LEMMA TypeInit == Init => TypeInv
BY RecordsTyped, PlainTyped, TimesAssumption, FaultsAssumption
   DEF Init, TypeInv, TypeOK, MarkTyped, OwnersTyped, NoRecord, Labels, Forever

\* Every variable keeps its type, whichever calls fail and however long
\* requests take: in particular the time a copy is cached for.
THEOREM TypeCorrect == Spec => []TypeOK
<1>1. Spec => []TypeInv
  BY TypeInit, TypeStep, PTL DEF Spec
<1>2. TypeInv => TypeOK
  BY DEF TypeInv
<1> QED BY <1>1, <1>2, PTL

-----------------------------------------------------------------------------
(* Who works on the record *)

\* A request that claimed works on the row it inserted, so nobody else does.
LEMMA OneHolder ==
    ASSUME HolderInv PROVE \A r, s \in Requests : Holds(r) /\ Holds(s) => r = s
BY DEF HolderInv

\* Who outlasted the sweep or the key stays late.
LEMMA StaysInTime == TypeInv /\ [Next]_vars /\ InTime' => InTime
<1> SUFFICES ASSUME TypeInv, [Next]_vars, InTime', NEW r \in Requests
             PROVE  spent[r] <= SweepAfter /\ spent[r] < Ttl
  BY DEF InTime
<1>1. spent[r] \in Int /\ SweepAfter \in Int /\ Ttl \in Int
  BY TimesAssumption DEF TypeInv, TypeOK
<1>2. spent' = spent \/ Tick
  BY DEF Next, Step, Fails, Lookup, LookupFails, Query, QueryFails, Claim, ClaimFails,
         HandlerReturns, Mark, MarkFails, MarkUnknown, CacheSet, CacheSetFails, Delete,
         DeleteFails, Uncache, UncacheFails, Crash, Sweep, DeleteExpired, CacheEvicts, vars
<1>3. spent'[r] = spent[r] \/ spent'[r] = spent[r] + 1
  BY <1>2 DEF Tick
<1> QED BY <1>1, <1>3 DEF InTime

\* In time, a request that marks finds its row in progress.
LEMMA MarkMatches ==
    ASSUME InTime, TypeInv, HolderInv, NEW r \in Requests, Mark(r)
    PROVE  /\ verdict[r] \in Settled /\ Holds(r)
           /\ row.by = r /\ row.status = "in_progress"
           /\ row'.by = r /\ row'.status = verdict[r]
           /\ row'.result = r /\ row'.left = row.left
           /\ held' = [held EXCEPT ![r] = row'] /\ Goto(r, "cache")
           /\ UNCHANGED <<cache, verdict, spent, withdrawn, faults>>
<1>1. verdict[r] \in Settled /\ Holds(r) /\ row.by = r /\ row.status = "in_progress"
  BY DEF Mark, TypeInv, MarkTyped, HolderInv, Holds
<1>2. row.left = Ttl - spent[r] /\ spent[r] \in 0..Patience
  BY <1>1 DEF HolderInv, TypeInv, TypeOK
<1>3. Markable(row)
  BY <1>1, <1>2, TimesAssumption DEF Markable, InTime
<1>4. /\ row' = MarkedRow(row, r) /\ held' = [held EXCEPT ![r] = row'] /\ Goto(r, "cache")
      /\ UNCHANGED <<cache, verdict, spent, withdrawn, faults>>
  BY <1>3 DEF Mark
<1> QED BY <1>1, <1>4 DEF MarkedRow, TypeInv, TypeOK, Record

LEMMA HolderStep ==
    InTime /\ TypeInv /\ HolderInv /\ [Next]_vars => HolderInv'
<1> SUFFICES ASSUME InTime, TypeInv, HolderInv, [Next]_vars PROVE HolderInv'
  OBVIOUS
<1> USE DEF TypeInv, TypeOK, HolderInv, Holds, BeforeClaim, Reply, Goto
<1>0. /\ row.left \in Int /\ Ttl \in Nat /\ Patience \in Nat /\ SweepAfter \in Nat
      /\ \A r \in Requests : spent[r] \in 0..Patience
  BY TimesAssumption, Clocks DEF Record
<1>1. ASSUME NEW r \in Requests, Lookup(r) PROVE HolderInv'
  BY <1>1 DEF Lookup
<1>2. ASSUME NEW r \in Requests, LookupFails(r) PROVE HolderInv'
  BY <1>2 DEF LookupFails
<1>3. ASSUME NEW r \in Requests, Query(r) PROVE HolderInv'
  BY <1>3 DEF Query
<1>4. ASSUME NEW r \in Requests, QueryFails(r) PROVE HolderInv'
  BY <1>4 DEF QueryFails
<1>5. ASSUME NEW r \in Requests, Claim(r) PROVE HolderInv'
  BY <1>5, TimesAssumption DEF Claim, Claimable, ClaimedRow, NoRecord, Record
<1>6. ASSUME NEW r \in Requests, ClaimFails(r) PROVE HolderInv'
  BY <1>6, TimesAssumption DEF ClaimFails, Claimable, ClaimedRow, NoRecord, Record
<1>7. ASSUME NEW r \in Requests, HandlerReturns(r) PROVE HolderInv'
  BY <1>7 DEF HandlerReturns
<1>8. ASSUME NEW r \in Requests, Mark(r) PROVE HolderInv'
  <2>1. \A s \in Requests : Holds(s) => s = r
    BY <1>8, MarkMatches, OneHolder
  <2> QED BY <1>8, <1>0, <2>1, MarkMatches DEF Settled
<1>9. ASSUME NEW r \in Requests, MarkFails(r) PROVE HolderInv'
  BY <1>9 DEF MarkFails, Rejected
<1>10. ASSUME NEW r \in Requests, MarkUnknown(r) PROVE HolderInv'
  BY <1>10
     DEF MarkUnknown, Rejected, Markable, MarkedRow, MarkTyped, Settled, NoRecord,
         Record
<1>11. ASSUME NEW r \in Requests, CacheSet(r) PROVE HolderInv'
  BY <1>11 DEF CacheSet, Drops
<1>12. ASSUME NEW r \in Requests, CacheSetFails(r) PROVE HolderInv'
  BY <1>12 DEF CacheSetFails, Rejected, Drops
<1>13. ASSUME NEW r \in Requests, Delete(r) PROVE HolderInv'
  BY <1>13, TimesAssumption DEF Delete, NoRecord
<1>14. ASSUME NEW r \in Requests, DeleteFails(r) PROVE HolderInv'
  BY <1>14, TimesAssumption DEF DeleteFails, NoRecord
<1>15. ASSUME NEW r \in Requests, Uncache(r) PROVE HolderInv'
  BY <1>15 DEF Uncache
<1>16. ASSUME NEW r \in Requests, UncacheFails(r) PROVE HolderInv'
  BY <1>16 DEF UncacheFails
<1>17. ASSUME NEW r \in Requests, Crash(r) PROVE HolderInv'
  BY <1>17 DEF Crash, Drops
<1>18. CASE Sweep
  BY <1>18, <1>0 DEF Sweep, Stale, InTime, Record
<1>19. CASE DeleteExpired
  BY <1>19, <1>0 DEF DeleteExpired, Expired, InTime, NoRecord
<1>20. CASE CacheEvicts
  BY <1>20 DEF CacheEvicts
<1>21. CASE Tick
  <2>1. /\ row' = Older(row) /\ pc' = pc
        /\ held' = [s \in Requests |-> Older(held[s])]
        /\ \A s \in Requests : Holds(s) => spent[s] < Patience /\ spent'[s] = spent[s] + 1
        /\ \A s \in Requests : ~Holds(s) => spent'[s] = spent[s]
    BY <1>21 DEF Tick
  <2>2. ASSUME NEW s \in Requests, Holds(s) PROVE row'.left = Ttl - spent'[s]
    <3>1. row \in Record /\ row.status # "none" /\ row.left = Ttl - spent[s]
      BY <2>2
    <3>2. spent[s] \in 0..Patience /\ Ttl \in Nat /\ row.left >= 0
      BY <1>0, <3>1 DEF InTime
    <3>3. Older(row).left = row.left - 1
      BY <3>1, <3>2, OlderRecord
    <3>4. row' = Older(row) /\ spent'[s] = spent[s] + 1
      BY <2>1, <2>2
    <3> QED BY <3>1, <3>2, <3>3, <3>4
  <2>3. row'.left <= Ttl
    <3>1. Older(row) \in Record /\ Older(row).left <= row.left
      BY OlderRecord
    <3> QED BY <1>0, <2>1, <3>1, Clocks DEF Record
  <2>4. /\ row'.status = row.status /\ row'.by = row.by /\ row'.result = row.result
        /\ row.status = "none" => row' = row
    BY <2>1, OlderRecord
  <2> QED BY <2>1, <2>2, <2>3, <2>4
<1>22. CASE UNCHANGED vars
  BY <1>22 DEF vars
<1> QED
  BY <1>1, <1>2, <1>3, <1>4, <1>5, <1>6, <1>7, <1>8, <1>9, <1>10, <1>11, <1>12, <1>13,
     <1>14, <1>15, <1>16, <1>17, <1>18, <1>19, <1>20, <1>21, <1>22
     DEF Next, Step, Fails

LEMMA VerdictStep ==
    InTime /\ TypeInv /\ HolderInv /\ VerdictInv /\ AnswerInv /\ [Next]_vars => VerdictInv'
<1> SUFFICES ASSUME InTime, TypeInv, HolderInv, VerdictInv, [Next]_vars PROVE VerdictInv'
  OBVIOUS
<1> USE NobodyAssumption
        DEF TypeInv, TypeOK, VerdictInv, Vouched, Settled, BeforeClaim, Reply, Goto, NoRecord
<1>1. ASSUME NEW r \in Requests, Lookup(r) PROVE VerdictInv'
  BY <1>1 DEF Lookup
<1>2. ASSUME NEW r \in Requests, LookupFails(r) PROVE VerdictInv'
  BY <1>2 DEF LookupFails
<1>3. ASSUME NEW r \in Requests, Query(r) PROVE VerdictInv'
  BY <1>3 DEF Query
<1>4. ASSUME NEW r \in Requests, QueryFails(r) PROVE VerdictInv'
  BY <1>4 DEF QueryFails
<1>5. ASSUME NEW r \in Requests, Claim(r) PROVE VerdictInv'
  BY <1>5 DEF Claim, Claimable, ClaimedRow
<1>6. ASSUME NEW r \in Requests, ClaimFails(r) PROVE VerdictInv'
  BY <1>6 DEF ClaimFails, Claimable, ClaimedRow
<1>7. ASSUME NEW r \in Requests, HandlerReturns(r) PROVE VerdictInv'
  BY <1>7 DEF HandlerReturns
<1>8. ASSUME NEW r \in Requests, Mark(r) PROVE VerdictInv'
  <2>1. /\ cache.status # "none" => cache.by # r
    BY <1>8, MarkMatches
  <2> QED BY <1>8, <2>1, MarkMatches
<1>9. ASSUME NEW r \in Requests, MarkFails(r) PROVE VerdictInv'
  BY <1>9 DEF MarkFails, Rejected
<1>10. ASSUME NEW r \in Requests, MarkUnknown(r) PROVE VerdictInv'
  BY <1>10 DEF MarkUnknown, Rejected, Markable, MarkedRow, HolderInv, Holds, Record
<1>11. ASSUME NEW r \in Requests, CacheSet(r) PROVE VerdictInv'
  BY <1>11, CachedRecord DEF CacheSet, HolderInv, Holds
<1>12. ASSUME NEW r \in Requests, CacheSetFails(r) PROVE VerdictInv'
  BY <1>12, CachedRecord DEF CacheSetFails, Rejected, HolderInv, Holds
<1>13. ASSUME NEW r \in Requests, Delete(r) PROVE VerdictInv'
  BY <1>13 DEF Delete
<1>14. ASSUME NEW r \in Requests, DeleteFails(r) PROVE VerdictInv'
  BY <1>14 DEF DeleteFails
<1>15. ASSUME NEW r \in Requests, Uncache(r) PROVE VerdictInv'
  BY <1>15 DEF Uncache
<1>16. ASSUME NEW r \in Requests, UncacheFails(r) PROVE VerdictInv'
  BY <1>16 DEF UncacheFails
<1>17. ASSUME NEW r \in Requests, Crash(r) PROVE VerdictInv'
  BY <1>17 DEF Crash
<1>18. CASE Sweep
  BY <1>18 DEF Sweep, Stale
<1>19. CASE DeleteExpired
  BY <1>19 DEF DeleteExpired, Expired
<1>20. CASE CacheEvicts
  BY <1>20 DEF CacheEvicts
<1>21. CASE Tick
  BY <1>21, OlderRecord, OlderCached DEF Tick
<1>22. CASE UNCHANGED vars
  BY <1>22 DEF vars
<1> QED
  BY <1>1, <1>2, <1>3, <1>4, <1>5, <1>6, <1>7, <1>8, <1>9, <1>10, <1>11, <1>12, <1>13,
     <1>14, <1>15, <1>16, <1>17, <1>18, <1>19, <1>20, <1>21, <1>22
     DEF Next, Step, Fails

LEMMA AnswerStep ==
    InTime /\ TypeInv /\ HolderInv /\ VerdictInv /\ AnswerInv /\ [Next]_vars => AnswerInv'
<1> SUFFICES ASSUME InTime, TypeInv, HolderInv, VerdictInv, AnswerInv, [Next]_vars
             PROVE  AnswerInv'
  OBVIOUS
<1> USE NobodyAssumption
        DEF TypeInv, TypeOK, AnswerInv, Honest, Settled, Reply, Goto
<1>1. ASSUME NEW r \in Requests, Lookup(r) PROVE AnswerInv'
  BY <1>1 DEF Lookup, VerdictInv, Vouched, Resolved, Plain
<1>2. ASSUME NEW r \in Requests, LookupFails(r) PROVE AnswerInv'
  BY <1>2 DEF LookupFails, Plain
<1>3. ASSUME NEW r \in Requests, Query(r) PROVE AnswerInv'
  <2>1. CASE Active(row)
    <3>1. row.status \in Settled => row.result = NoRequest \/ Vouched(row)
      BY DEF VerdictInv
    <3>2. /\ answer' = [answer EXCEPT ![r] = Resolved(r, row)]
          /\ UNCHANGED <<row, verdict>>
      BY <1>3, <2>1 DEF Query
    <3>3. row.status = "completed" => Vouched(row)
      BY DEF VerdictInv
    <3>4. row.status \in {"in_progress", "completed", "failed"}
      BY <2>1 DEF Active, Record
    <3>5. Resolved(r, row).kind \in Settled =>
              /\ Resolved(r, row).kind = row.status /\ Resolved(r, row).of = row.result
              /\ Body[row.by] = Body[r]
      BY <3>4 DEF Resolved, Plain
    <3> QED BY <3>1, <3>2, <3>3, <3>5 DEF Vouched
  <2>2. CASE ~Active(row)
    BY <1>3, <2>2 DEF Query, Plain
  <2> QED BY <2>1, <2>2
<1>4. ASSUME NEW r \in Requests, QueryFails(r) PROVE AnswerInv'
  BY <1>4 DEF QueryFails, Plain
<1>5. ASSUME NEW r \in Requests, Claim(r) PROVE AnswerInv'
  BY <1>5 DEF Claim, Claimable, ClaimedRow, VerdictInv, BeforeClaim
<1>6. ASSUME NEW r \in Requests, ClaimFails(r) PROVE AnswerInv'
  BY <1>6 DEF ClaimFails, Claimable, ClaimedRow, VerdictInv, BeforeClaim, Plain
<1>7. ASSUME NEW r \in Requests, HandlerReturns(r) PROVE AnswerInv'
  BY <1>7 DEF HandlerReturns, VerdictInv
<1>8. ASSUME NEW r \in Requests, Mark(r) PROVE AnswerInv'
  BY <1>8, MarkMatches DEF Mark
<1>9. ASSUME NEW r \in Requests, MarkFails(r) PROVE AnswerInv'
  BY <1>9 DEF MarkFails, Rejected, Plain
<1>10. ASSUME NEW r \in Requests, MarkUnknown(r) PROVE AnswerInv'
  BY <1>10 DEF MarkUnknown, Rejected, Markable, MarkedRow, HolderInv, Holds, Plain, Record
<1>11. ASSUME NEW r \in Requests, CacheSet(r) PROVE AnswerInv'
  BY <1>11 DEF CacheSet, HolderInv, Holds, VerdictInv, Vouched
<1>12. ASSUME NEW r \in Requests, CacheSetFails(r) PROVE AnswerInv'
  BY <1>12 DEF CacheSetFails, Rejected, Plain
<1>13. ASSUME NEW r \in Requests, Delete(r) PROVE AnswerInv'
  BY <1>13 DEF Delete, NoRecord
<1>14. ASSUME NEW r \in Requests, DeleteFails(r) PROVE AnswerInv'
  BY <1>14 DEF DeleteFails, NoRecord, Plain
<1>15. ASSUME NEW r \in Requests, Uncache(r) PROVE AnswerInv'
  BY <1>15 DEF Uncache, Plain
<1>16. ASSUME NEW r \in Requests, UncacheFails(r) PROVE AnswerInv'
  BY <1>16 DEF UncacheFails, Plain
<1>17. ASSUME NEW r \in Requests, Crash(r) PROVE AnswerInv'
  BY <1>17 DEF Crash
<1>18. CASE Sweep
  BY <1>18 DEF Sweep, Stale
<1>19. CASE DeleteExpired
  BY <1>19 DEF DeleteExpired, NoRecord
<1>20. CASE CacheEvicts
  BY <1>20 DEF CacheEvicts
<1>21. CASE Tick
  BY <1>21, OlderRecord DEF Tick
<1>22. CASE UNCHANGED vars
  BY <1>22 DEF vars
<1> QED
  BY <1>1, <1>2, <1>3, <1>4, <1>5, <1>6, <1>7, <1>8, <1>9, <1>10, <1>11, <1>12, <1>13,
     <1>14, <1>15, <1>16, <1>17, <1>18, <1>19, <1>20, <1>21, <1>22
     DEF Next, Step, Fails

-----------------------------------------------------------------------------
(* A success that was heard of *)

\* Nobody is answered twice.
Unanswered == \A r \in Requests : pc[r] # "done" => answer[r].kind = "none"

LEMMA UnansweredStep ==
    TypeInv /\ Unanswered /\ [Next]_vars => Unanswered'
<1> SUFFICES ASSUME TypeInv, Unanswered, [Next]_vars PROVE Unanswered'
  OBVIOUS
<1> USE DEF TypeInv, TypeOK, Unanswered, Reply, Goto
<1>1. ASSUME NEW r \in Requests, Lookup(r) PROVE Unanswered'
  BY <1>1 DEF Lookup
<1>2. ASSUME NEW r \in Requests, LookupFails(r) PROVE Unanswered'
  BY <1>2 DEF LookupFails
<1>3. ASSUME NEW r \in Requests, Query(r) PROVE Unanswered'
  BY <1>3 DEF Query
<1>4. ASSUME NEW r \in Requests, QueryFails(r) PROVE Unanswered'
  BY <1>4 DEF QueryFails
<1>5. ASSUME NEW r \in Requests, Claim(r) PROVE Unanswered'
  BY <1>5 DEF Claim
<1>6. ASSUME NEW r \in Requests, ClaimFails(r) PROVE Unanswered'
  BY <1>6 DEF ClaimFails
<1>7. ASSUME NEW r \in Requests, HandlerReturns(r) PROVE Unanswered'
  BY <1>7 DEF HandlerReturns
<1>8. ASSUME NEW r \in Requests, Mark(r) PROVE Unanswered'
  BY <1>8 DEF Mark
<1>9. ASSUME NEW r \in Requests, MarkFails(r) PROVE Unanswered'
  BY <1>9 DEF MarkFails, Rejected
<1>10. ASSUME NEW r \in Requests, MarkUnknown(r) PROVE Unanswered'
  BY <1>10 DEF MarkUnknown, Rejected
<1>11. ASSUME NEW r \in Requests, CacheSet(r) PROVE Unanswered'
  BY <1>11 DEF CacheSet
<1>12. ASSUME NEW r \in Requests, CacheSetFails(r) PROVE Unanswered'
  BY <1>12 DEF CacheSetFails, Rejected
<1>13. ASSUME NEW r \in Requests, Delete(r) PROVE Unanswered'
  BY <1>13 DEF Delete
<1>14. ASSUME NEW r \in Requests, DeleteFails(r) PROVE Unanswered'
  BY <1>14 DEF DeleteFails
<1>15. ASSUME NEW r \in Requests, Uncache(r) PROVE Unanswered'
  BY <1>15 DEF Uncache
<1>16. ASSUME NEW r \in Requests, UncacheFails(r) PROVE Unanswered'
  BY <1>16 DEF UncacheFails
<1>17. ASSUME NEW r \in Requests, Crash(r) PROVE Unanswered'
  BY <1>17 DEF Crash
<1>18. CASE Sweep
  BY <1>18 DEF Sweep
<1>19. CASE DeleteExpired
  BY <1>19 DEF DeleteExpired
<1>20. CASE CacheEvicts
  BY <1>20 DEF CacheEvicts
<1>21. CASE Tick
  BY <1>21 DEF Tick
<1>22. CASE UNCHANGED vars
  BY <1>22 DEF vars
<1> QED
  BY <1>1, <1>2, <1>3, <1>4, <1>5, <1>6, <1>7, <1>8, <1>9, <1>10, <1>11, <1>12, <1>13,
     <1>14, <1>15, <1>16, <1>17, <1>18, <1>19, <1>20, <1>21, <1>22
     DEF Next, Step, Fails

LEMMA PromiseStep ==
    InTime /\ TypeInv /\ Unanswered /\ HonestInv /\ PromiseInv /\ [Next]_vars => PromiseInv'
<1> SUFFICES ASSUME InTime, TypeInv, Unanswered, HonestInv, PromiseInv, [Next]_vars
             PROVE  PromiseInv'
  OBVIOUS
<1>0. /\ row.left \in Int /\ cache.left \in Int /\ Ttl \in Nat
      /\ Forever = Ttl + 1 /\ row.left <= Ttl
      /\ \A s \in Requests : promise[s] \in Nat
      /\ cache.status # "none" => Vouched(cache)
      /\ row.status = "completed" => Vouched(row)
      /\ \A r, s \in Requests : Holds(r) /\ Holds(s) => r = s
  BY TimesAssumption, Clocks, OneHolder
     DEF TypeInv, TypeOK, Record, Forever, HonestInv, HolderInv, VerdictInv
<1>a. \A r \in Requests : Holds(r) =>
          /\ row.left = Ttl - spent[r] /\ row.left > 0 /\ Ttl - row.left <= SweepAfter
          /\ row.by = r /\ row.status # "none"
  <2>1. \A r \in Requests : spent[r] \in Nat /\ SweepAfter \in Nat
    BY TimesAssumption DEF TypeInv, TypeOK
  <2> QED BY <1>0, <2>1 DEF HonestInv, HolderInv, InTime
<1>b. \A r \in Requests : pc[r] \in {"running", "mark"} => row.status = "in_progress"
  BY DEF HonestInv, HolderInv, Holds
<1>c. \A r \in Requests : pc[r] = "cache" =>
          /\ held[r] = row /\ row.status \in Settled /\ row.result = r
          /\ row.status = verdict[r] /\ CachedCopy(held[r]) = row
  BY <1>a, CachedRecord, NobodyAssumption
     DEF HonestInv, HolderInv, VerdictInv, Vouched, Holds, TypeInv, TypeOK
<1>d. \A r \in Requests : pc[r] # "done" => answer[r].kind = "none"
  BY DEF Unanswered
<1> USE <1>0 DEF TypeInv, TypeOK, PromiseInv, Torn, Settled, Reply, Goto
<1>1. ASSUME NEW r \in Requests, Lookup(r) PROVE PromiseInv'
  BY <1>1 DEF Lookup, Resolved, Plain, Vouched
<1>2. ASSUME NEW r \in Requests, LookupFails(r) PROVE PromiseInv'
  BY <1>2 DEF LookupFails, Plain
<1>3. ASSUME NEW r \in Requests, Query(r) PROVE PromiseInv'
  BY <1>3 DEF Query, Resolved, Plain, Active, Vouched
<1>4. ASSUME NEW r \in Requests, QueryFails(r) PROVE PromiseInv'
  BY <1>4 DEF QueryFails, Plain
<1>5. ASSUME NEW r \in Requests, Claim(r) PROVE PromiseInv'
  BY <1>5 DEF Claim, Claimable, ClaimedRow
<1>6. ASSUME NEW r \in Requests, ClaimFails(r) PROVE PromiseInv'
  BY <1>6 DEF ClaimFails, Claimable, ClaimedRow, Plain
<1>7. ASSUME NEW r \in Requests, HandlerReturns(r) PROVE PromiseInv'
  BY <1>7, <1>b DEF HandlerReturns
<1>8. ASSUME NEW r \in Requests, Mark(r) PROVE PromiseInv'
  <2>1. /\ row.status = "in_progress" /\ Goto(r, "cache") /\ pc[r] = "mark"
        /\ UNCHANGED <<cache, withdrawn>>
        /\ \A s \in Requests : pc'[s] = "delete" => s = r
    BY <1>8, MarkMatches DEF Mark, Holds, HonestInv
  <2> QED BY <2>1 DEF Vouched
<1>9. ASSUME NEW r \in Requests, MarkFails(r) PROVE PromiseInv'
  BY <1>9, <1>b DEF MarkFails, Rejected, Plain
<1>10. ASSUME NEW r \in Requests, MarkUnknown(r) PROVE PromiseInv'
  <2>1. /\ row.status = "in_progress" /\ pc[r] = "mark" /\ row'.status = verdict[r]
        /\ UNCHANGED <<cache, withdrawn>> /\ Rejected(r)
        /\ \A s \in Requests : pc[s] = "delete" => s = r
    BY <1>10, <1>b DEF MarkUnknown, MarkedRow, Holds, Record
  <2> QED BY <2>1 DEF Rejected, Plain, Vouched
<1>11. ASSUME NEW r \in Requests, CacheSet(r) PROVE PromiseInv'
  <2>1. /\ pc[r] = "cache" /\ row.by = r /\ row.left > 0 /\ row.left = Ttl - spent[r]
        /\ cache' = row /\ row' = row /\ withdrawn' = withdrawn /\ row.status = verdict[r]
        /\ Reply(r, [kind |-> verdict[r], of |-> r], Ttl - spent[r])
    BY <1>11, <1>a, <1>c DEF CacheSet, Holds
  <2> QED BY <2>1
<1>12. ASSUME NEW r \in Requests, CacheSetFails(r) PROVE PromiseInv'
  <2>1. /\ pc[r] = "cache" /\ row.by = r /\ row.left > 0 /\ row.status = verdict[r]
        /\ cache' \in {cache, row} /\ row' = row /\ withdrawn' = withdrawn
        /\ Rejected(r)
    BY <1>12, <1>a, <1>c DEF CacheSetFails, Holds
  <2> QED BY <2>1 DEF Rejected, Plain
<1>13. ASSUME NEW r \in Requests, Delete(r) PROVE PromiseInv'
  <2>1. pc[r] = "delete" /\ row.by = r /\ row.status # "none"
    BY <1>13, <1>a DEF Delete, Holds
  <2>2. /\ row'.status = "none" /\ UNCHANGED <<cache, promise, answer>>
        /\ withdrawn' = IF row.status \in Settled THEN withdrawn \cup {r} ELSE withdrawn
        /\ pc' = [pc EXCEPT ![r] = "uncache"] /\ answer[r].kind = "none"
    BY <1>13, <1>d, <2>1 DEF Delete, NotesWithdrawal, NoRecord
  <2> QED BY <2>1, <2>2 DEF Vouched, Holds
<1>14. ASSUME NEW r \in Requests, DeleteFails(r) PROVE PromiseInv'
  <2>1. pc[r] = "delete" /\ row.by = r /\ row.status # "none"
    BY <1>14, <1>a DEF DeleteFails, Holds
  <2>2. /\ UNCHANGED cache /\ Reply(r, Plain("error"), 0)
        /\ \/ row' = row /\ withdrawn' = withdrawn
           \/ /\ row'.status = "none"
              /\ withdrawn' = IF row.status \in Settled THEN withdrawn \cup {r} ELSE withdrawn
    BY <1>14, <2>1 DEF DeleteFails, NotesWithdrawal, NoRecord
  <2> QED BY <2>1, <2>2 DEF Vouched, Plain, Holds
<1>15. ASSUME NEW r \in Requests, Uncache(r) PROVE PromiseInv'
  BY <1>15 DEF Uncache, NoRecord, Plain
<1>16. ASSUME NEW r \in Requests, UncacheFails(r) PROVE PromiseInv'
  BY <1>16 DEF UncacheFails, Plain
<1>17. ASSUME NEW r \in Requests, Crash(r) PROVE PromiseInv'
  BY <1>17 DEF Crash
<1>18. CASE Sweep
  <2>1. row.status = "in_progress" /\ Ttl - row.left > SweepAfter
    BY <1>18 DEF Sweep, Stale
  <2>2. \A s \in Requests : ~Holds(s)
    BY <1>0, <1>a, <2>1, TimesAssumption
  <2> QED BY <1>18, <2>1, <2>2 DEF Sweep, Holds, Vouched
<1>19. CASE DeleteExpired
  BY <1>19, <1>a DEF DeleteExpired, Expired, NoRecord, Holds
<1>20. CASE CacheEvicts
  BY <1>20 DEF CacheEvicts, NoRecord
<1>21. CASE Tick
  <2>1. /\ row' = Older(row) /\ cache' = OlderCopy(cache)
        /\ UNCHANGED <<pc, answer, withdrawn>>
        /\ promise' = [s \in Requests |-> IF promise[s] > 0 THEN promise[s] - 1 ELSE 0]
    BY <1>21 DEF Tick
  <2>2. /\ Older(row).status = row.status /\ Older(row).by = row.by
        /\ row.status # "none" /\ row.left >= 0 => Older(row).left = row.left - 1
    BY OlderRecord
  <2>3. CASE cache.status = "none"
    <3>1. cache'.status = "none"
      BY <2>1, <2>3, OlderRecord, RecordsTyped DEF OlderCopy, NoRecord
    <3> QED BY <2>1, <2>2, <3>1
  <2>4. CASE cache.status # "none" /\ cache = row
    <3>1. cache.left # Forever /\ (cache'.status # "none" => cache' = row' /\ cache'.left > 0)
      BY <2>1, <2>4, OlderCached
    <3> QED BY <2>1, <2>2, <3>1
  <2>5. CASE cache.status # "none" /\ cache # row
    <3>1. cache'.status # "none" => cache'.by = cache.by /\ cache'.left > 0
      BY <2>1, <2>5, OlderCached DEF OlderCopy, NoRecord
    <3> QED BY <2>1, <2>2, <2>5, <3>1
  <2> QED BY <2>3, <2>4, <2>5
<1>22. CASE UNCHANGED vars
  BY <1>22 DEF vars
<1> QED
  BY <1>1, <1>2, <1>3, <1>4, <1>5, <1>6, <1>7, <1>8, <1>9, <1>10, <1>11, <1>12, <1>13,
     <1>14, <1>15, <1>16, <1>17, <1>18, <1>19, <1>20, <1>21, <1>22
     DEF Next, Step, Fails

-----------------------------------------------------------------------------
(* Theorems *)

LEMMA HonestInit == Init => HonestInv
BY NobodyAssumption, TimesAssumption
   DEF Init, HonestInv, HolderInv, VerdictInv, AnswerInv, Honest, Holds,
       NoRecord, Plain, Settled, BeforeClaim, Vouched

LEMMA PromiseInit == Init => PromiseInv
BY DEF Init, PromiseInv, Torn, NoRecord

\* The inductive invariant: nothing but typing is claimed once a request is late.
KeyInv == TypeInv /\ Unanswered /\ (InTime => HonestInv /\ PromiseInv)

LEMMA KeyInvStep == KeyInv /\ [Next]_vars => KeyInv'
<1>1. TypeInv /\ Unanswered /\ [Next]_vars => TypeInv' /\ Unanswered'
  BY TypeStep, UnansweredStep
<1>2. InTime /\ TypeInv /\ Unanswered /\ HonestInv /\ PromiseInv /\ [Next]_vars
          => HonestInv' /\ PromiseInv'
  BY HolderStep, VerdictStep, AnswerStep, PromiseStep DEF HonestInv
<1> QED BY <1>1, <1>2, StaysInTime DEF KeyInv

LEMMA KeyInvAlways == Spec => []KeyInv
<1>1. Init => KeyInv
  BY TypeInit, HonestInit, PromiseInit DEF KeyInv, Init, Unanswered, Plain
<1> QED BY <1>1, KeyInvStep, PTL DEF Spec

\* As long as no request outlasts the sweep's threshold or the key, at most one
\* at a time works on it, whichever calls fail.
THEOREM Exclusion == Spec => []OneAtATime
<1>1. KeyInv => OneAtATime
  BY OneHolder DEF KeyInv, HonestInv, OneAtATime
<1> QED BY <1>1, KeyInvAlways, PTL

\* And whichever calls fail, clients hear what a handler returned for their body.
THEOREM Honesty == Spec => []ReplayHonest
<1>1. KeyInv => ReplayHonest
  BY DEF KeyInv, HonestInv, AnswerInv, ReplayHonest
<1> QED BY <1>1, KeyInvAlways, PTL

\* No record contradicts a success that a client heard of, and no request
\* withdraws the success it has answered.
THEOREM Answers == Spec => []AnswersStand
<1>1. KeyInv => AnswersStand
  BY DEF KeyInv, HonestInv, AnswerInv, PromiseInv, AnswersStand, Standing
<1> QED BY <1>1, KeyInvAlways, PTL

\* No handler runs while a success that some client heard of is to be kept:
\* whichever calls fail, the only way out is that the request withdrew it.
THEOREM Once == Spec => []ExecuteOnce
<1>1. HonestInv /\ PromiseInv => Kept(Requests \ withdrawn)
  BY DEF HonestInv, HolderInv, PromiseInv, Kept, Holds
<1>2. KeyInv => ExecuteOnce
  BY <1>1 DEF KeyInv, ExecuteOnce
<1> QED BY <1>2, KeyInvAlways, PTL

\* What Redis holds and the table does not was withdrawn: a failed or a late
\* write to Redis alone never leaves one.
THEOREM CacheIsRow == Spec => []CacheAgrees
<1>1. KeyInv => CacheAgrees
  BY DEF KeyInv, PromiseInv, CacheAgrees
<1> QED BY <1>1, KeyInvAlways, PTL

-----------------------------------------------------------------------------
(* The refinement *)

\* What an answer means for the key: nothing unless it is about the key.
LEMMA ToldReply ==
    ASSUME TypeInv, Unanswered, NEW r \in Requests, pc[r] # "done", NEW a, NEW life,
           Reply(r, a, life)
    PROVE  KeyTold' = [KeyTold EXCEPT ![r] = ToldBy(a)] /\ KeyTold[r] = "nothing"
BY DEF TypeInv, TypeOK, Unanswered, Reply, KeyTold, ToldBy, Settled

LEMMA ToldNothing ==
    ASSUME TypeInv, Unanswered, NEW r \in Requests, pc[r] # "done", NEW a, NEW life,
           Reply(r, a, life), ToldBy(a) = "nothing"
    PROVE  KeyTold' = KeyTold
BY ToldReply DEF KeyTold

LEMMA ToldPlain == \A k \in {"error"} : ToldBy(Plain(k)) = "nothing"
BY DEF ToldBy, Plain, Settled

LEMMA ToldGoto == ASSUME NEW r, NEW l, Goto(r, l) PROVE KeyTold' = KeyTold
BY DEF Goto, KeyTold

LEMMA ToldRejected ==
    ASSUME TypeInv, Unanswered, NEW r \in Requests, pc[r] # "done", Rejected(r)
    PROVE  KeyTold' = KeyTold
<1>1. CASE verdict[r] = "completed"
  BY <1>1, ToldGoto DEF Rejected
<1>2. CASE verdict[r] # "completed"
  BY <1>2, ToldNothing, ToldPlain DEF Rejected
<1> QED BY <1>1, <1>2

\* Hearing what is on record is hearing the key's state.
LEMMA TellResolved ==
    ASSUME TypeInv, HonestInv, Unanswered, NEW r \in Requests, pc[r] # "done",
           row.status # "none", row.left > 0, UNCHANGED row,
           NEW life, Reply(r, Resolved(r, row), life)
    PROVE  \E t \in Key!Told : Key!Tell(r, t)
<1>1. KeyTold' = [KeyTold EXCEPT ![r] = ToldBy(Resolved(r, row))] /\ KeyTold[r] = "nothing"
  BY ToldReply
<1>2. row.status \in {"in_progress", "completed", "failed"}
  BY DEF TypeInv, TypeOK, Record, Settled
<1>3. IF Body[r] # Body[row.by] THEN ToldBy(Resolved(r, row)) = "mismatch"
                                ELSE ToldBy(Resolved(r, row)) = KeyState
  BY <1>2 DEF Resolved, ToldBy, KeyState, Plain, Settled
<1>4. ToldBy(Resolved(r, row)) \in Key!Told /\ KeyState # "free" /\ KeyState' = KeyState
  BY <1>2, <1>3 DEF KeyState, Key!Told, Key!Verdicts
<1> QED BY <1>1, <1>3, <1>4 DEF Key!Tell

LEMMA TakeKey ==
    ASSUME TypeInv, HonestInv, NEW r \in Requests, KeyTold[r] = "nothing", Claimable(row),
           row' = ClaimedRow(r), KeyTold' = KeyTold
    PROVE  Key!Take(r)
BY DEF Claimable, ClaimedRow, KeyState, Key!Take

LEMMA FreeKey ==
    ASSUME row.status = "in_progress" \/ (row.status \in Settled /\ row.left <= 0),
           row' = NoRecord, KeyTold' = KeyTold
    PROVE  Key!Free
BY DEF NoRecord, KeyState, Key!Free, Key!Verdicts, Settled

LEMMA SettleKey ==
    ASSUME row.status = "in_progress", row'.status \in Settled, row'.by = row.by,
           row'.left = row.left, KeyTold' = KeyTold
    PROVE  \E v \in Key!Verdicts : Key!Settle(v)
<1>1. KeyState = "busy" /\ KeyState' = row'.status /\ row'.status \in Key!Verdicts
  BY DEF KeyState, Key!Verdicts, Settled
<1> QED BY <1>1 DEF Key!Settle

LEMMA SameKey ==
    ASSUME UNCHANGED row, KeyTold' = KeyTold PROVE UNCHANGED Key!vars
BY DEF KeyState, Key!vars

LEMMA WithdrawKey ==
    ASSUME TypeInv, Unanswered, NEW r \in Requests, pc[r] # "done", row.by = r,
           row.status = "completed", row' = NoRecord, KeyTold' = KeyTold
    PROVE  Key!Withdraw
BY DEF TypeInv, TypeOK, Unanswered, NoRecord, KeyState, KeyTold, ToldBy, Settled, Key!Withdraw

LEMMA KeyStep ==
    InTime /\ TypeInv /\ Unanswered /\ HonestInv /\ PromiseInv /\ [Next]_vars
        => [Key!Next \/ Key!Withdraw \/ ReplaysTorn]_(Key!vars)
<1> DEFINE Goal == [Key!Next \/ Key!Withdraw \/ ReplaysTorn]_(Key!vars)
<1> SUFFICES ASSUME InTime, TypeInv, Unanswered, HonestInv, PromiseInv, [Next]_vars
             PROVE  Goal
  OBVIOUS
<1>a. ASSUME UNCHANGED row, KeyTold' = KeyTold PROVE Goal
  BY <1>a, SameKey
<1>b. \A s \in Requests : pc[s] # "done" => KeyTold[s] = "nothing"
  BY DEF Unanswered, KeyTold, ToldBy, Settled
<1>c. \A s \in Requests : pc[s] \in {"mark", "delete"} =>
          row.by = s /\ row.status \in {"in_progress", "completed"}
  BY DEF HonestInv, HolderInv, PromiseInv, Holds
<1>d. ASSUME NEW r \in Requests, pc[r] = "delete", row' = NoRecord, KeyTold' = KeyTold
      PROVE  Goal
  BY <1>c, <1>d, FreeKey, WithdrawKey DEF Key!Next
<1> HIDE DEF Goal
<1>1. ASSUME NEW r \in Requests, Lookup(r) PROVE Goal
  <2>1. CASE Torn
    BY <1>1, <2>1 DEF ReplaysTorn, Goal
  <2>2. CASE cache.status # "none" /\ cache = row
    <3>1. row.left > 0
      BY <2>2 DEF PromiseInv
    <3>2. Reply(r, Resolved(r, row), row.left) /\ UNCHANGED row
      BY <1>1, <2>2 DEF Lookup
    <3>3. pc[r] # "done"
      BY <1>1 DEF Lookup
    <3> QED BY <2>2, <3>1, <3>2, <3>3, TellResolved DEF Key!Next, Goal
  <2>3. CASE cache.status = "none"
    BY <1>1, <1>a, <2>3, ToldGoto DEF Lookup
  <2> QED BY <2>1, <2>2, <2>3 DEF Torn
<1>2. ASSUME NEW r \in Requests, LookupFails(r) PROVE Goal
  BY <1>2, <1>a, ToldNothing, ToldPlain DEF LookupFails
<1>3. ASSUME NEW r \in Requests, Query(r) PROVE Goal
  <2>1. CASE Active(row)
    BY <1>3, <2>1, TellResolved DEF Query, Active, Key!Next, Goal
  <2>2. CASE ~Active(row)
    BY <1>3, <1>a, <2>2, ToldGoto, ToldNothing, ToldPlain DEF Query
  <2> QED BY <2>1, <2>2
<1>4. ASSUME NEW r \in Requests, QueryFails(r) PROVE Goal
  BY <1>4, <1>a, ToldNothing, ToldPlain DEF QueryFails
<1>5. ASSUME NEW r \in Requests, Claim(r) PROVE Goal
  <2>1. KeyTold' = KeyTold /\ KeyTold[r] = "nothing"
    BY <1>5, <1>b, ToldGoto DEF Claim
  <2>2. CASE Claimable(row)
    BY <1>5, <2>1, <2>2, TakeKey DEF Claim, Key!Next, Goal
  <2>3. CASE ~Claimable(row)
    BY <1>5, <1>a, <2>1, <2>3 DEF Claim
  <2> QED BY <2>2, <2>3
<1>6. ASSUME NEW r \in Requests, ClaimFails(r) PROVE Goal
  <2>1. KeyTold' = KeyTold /\ KeyTold[r] = "nothing"
    BY <1>6, <1>b, ToldNothing, ToldPlain DEF ClaimFails
  <2>2. row' = row \/ (Claimable(row) /\ row' = ClaimedRow(r))
    BY <1>6 DEF ClaimFails
  <2>3. CASE row' = row
    BY <1>a, <2>1, <2>3
  <2>4. CASE Claimable(row) /\ row' = ClaimedRow(r)
    BY <2>1, <2>4, TakeKey DEF Key!Next, Goal
  <2> QED BY <2>2, <2>3, <2>4
<1>7. ASSUME NEW r \in Requests, HandlerReturns(r) PROVE Goal
  BY <1>7, <1>a, ToldGoto DEF HandlerReturns
<1>8. ASSUME NEW r \in Requests, Mark(r) PROVE Goal
  BY <1>8, MarkMatches, ToldGoto, SettleKey DEF HonestInv, Key!Next, Goal
<1>9. ASSUME NEW r \in Requests, MarkFails(r) PROVE Goal
  BY <1>9, <1>a, ToldRejected DEF MarkFails
<1>10. ASSUME NEW r \in Requests, MarkUnknown(r) PROVE Goal
  <2>1. KeyTold' = KeyTold /\ row.status = "in_progress" /\ row' = MarkedRow(row, r)
        /\ verdict[r] \in Settled
    BY <1>10, ToldRejected DEF MarkUnknown, Markable, TypeInv, MarkTyped
  <2>2. row'.status \in Settled /\ row'.by = row.by /\ row'.left = row.left
    BY <2>1 DEF MarkedRow, TypeInv, TypeOK, Record
  <2> QED BY <2>1, <2>2, SettleKey DEF Key!Next, Goal
<1>11. ASSUME NEW r \in Requests, CacheSet(r) PROVE Goal
  <2>1. /\ row.by = r /\ row.status = verdict[r] /\ row.status \in Settled /\ row.left > 0
    <3>1. /\ Holds(r) /\ row.by = r /\ row.result = r /\ row.left = Ttl - spent[r]
          /\ row.status \in Settled
      BY <1>11 DEF CacheSet, HonestInv, HolderInv, Holds
    <3>2. row.status = verdict[r]
      BY <3>1, NobodyAssumption DEF HonestInv, VerdictInv, Vouched
    <3>3. spent[r] \in 0..Patience
      BY DEF TypeInv, TypeOK
    <3> QED BY <3>1, <3>2, <3>3, TimesAssumption DEF InTime
  <2>2. /\ Reply(r, [kind |-> verdict[r], of |-> r], Ttl - spent[r])
        /\ UNCHANGED row /\ pc[r] # "done"
    BY <1>11 DEF CacheSet
  <2>3. KeyTold' = [KeyTold EXCEPT ![r] = verdict[r]] /\ KeyTold[r] = "nothing"
    BY <2>1, <2>2, ToldReply DEF ToldBy
  <2>4. KeyState = verdict[r] /\ KeyState' = KeyState /\ KeyState # "free"
        /\ verdict[r] \in Key!Told
    BY <2>1, <2>2 DEF KeyState, Settled, Key!Told, Key!Verdicts
  <2>5. Key!Tell(r, verdict[r])
    BY <2>1, <2>2, <2>3, <2>4 DEF Key!Tell
  <2> QED BY <2>4, <2>5 DEF Key!Next, Goal
<1>12. ASSUME NEW r \in Requests, CacheSetFails(r) PROVE Goal
  BY <1>12, <1>a, ToldRejected DEF CacheSetFails
<1>13. ASSUME NEW r \in Requests, Delete(r) PROVE Goal
  BY <1>13, <1>d, ToldGoto DEF Delete
<1>14. ASSUME NEW r \in Requests, DeleteFails(r) PROVE Goal
  <2>1. KeyTold' = KeyTold /\ row' \in {row, NoRecord} /\ pc[r] = "delete"
    BY <1>14, ToldNothing, ToldPlain DEF DeleteFails
  <2> QED BY <1>a, <1>d, <2>1
<1>15. ASSUME NEW r \in Requests, Uncache(r) PROVE Goal
  BY <1>15, <1>a, ToldNothing, ToldPlain DEF Uncache
<1>16. ASSUME NEW r \in Requests, UncacheFails(r) PROVE Goal
  BY <1>16, <1>a, ToldNothing, ToldPlain DEF UncacheFails
<1>17. ASSUME NEW r \in Requests, Crash(r) PROVE Goal
  BY <1>17, <1>a, ToldGoto DEF Crash
<1>18. CASE Sweep
  <2>1. /\ row.status = "in_progress" /\ row'.status = "failed" /\ row'.by = row.by
        /\ row'.left = row.left /\ KeyTold' = KeyTold
    BY <1>18 DEF Sweep, Stale, KeyTold, TypeInv, TypeOK, Record
  <2> QED BY <2>1, SettleKey DEF Settled, Key!Next, Goal
<1>19. CASE DeleteExpired
  <2>1. row.status \in {"in_progress"} \cup Settled /\ row.left <= 0 /\ KeyTold' = KeyTold
    BY <1>19 DEF DeleteExpired, Expired, KeyTold, TypeInv, TypeOK, Record
  <2> QED BY <1>19, <2>1, FreeKey DEF DeleteExpired, Key!Next, Goal
<1>20. CASE CacheEvicts
  BY <1>20, <1>a DEF CacheEvicts, KeyTold
<1>21. CASE Tick
  <2>1. row' = Older(row) /\ KeyTold' = KeyTold
    BY <1>21 DEF Tick, KeyTold
  <2>2. CASE Older(row) = row
    BY <1>a, <2>1, <2>2
  <2>3. CASE Older(row) # row
    <3>1. row.status # "none" /\ row' = [row EXCEPT !.left = @ - 1]
      BY <2>1, <2>3 DEF Older
    <3>2. row'.status = row.status /\ row'.by = row.by /\ row'.left = row.left - 1
      BY <3>1 DEF TypeInv, TypeOK, Record
    <3>3. KeyState # "free" /\ KeyState' = KeyState
      BY <3>1, <3>2 DEF KeyState, TypeInv, TypeOK, Record, Settled
    <3> QED BY <2>1, <3>2, <3>3 DEF Key!Pass, Key!Next, Goal
  <2> QED BY <2>2, <2>3
<1>22. CASE UNCHANGED vars
  BY <1>22, <1>a DEF vars, KeyTold
<1> QED
  BY <1>1, <1>2, <1>3, <1>4, <1>5, <1>6, <1>7, <1>8, <1>9, <1>10, <1>11, <1>12, <1>13,
     <1>14, <1>15, <1>16, <1>17, <1>18, <1>19, <1>20, <1>21, <1>22
     DEF Next, Step, Fails

\* Whichever calls fail, the table, the cache and the steps between them
\* implement one key that is taken once, settled once and honest: unless a
\* request outlasts it, or a success is withdrawn and replayed all the same.
THEOREM Refinement == Spec => KeepsPromise
<1>1. Init => Key!Init
  BY DEF Init, Key!Init, KeyState, KeyTold, ToldBy, NoRecord, Plain, Settled
<1>2. KeyInv /\ [Next]_vars
          => [Key!Next \/ Key!Withdraw \/ ReplaysTorn \/ ~InTime']_(Key!vars)
  <2>1. InTime' /\ KeyInv /\ [Next]_vars => [Key!Next \/ Key!Withdraw \/ ReplaysTorn]_(Key!vars)
    BY KeyStep, StaysInTime DEF KeyInv
  <2> QED BY <2>1
<1> QED BY <1>1, <1>2, KeyInvAlways, PTL DEF Spec, KeepsPromise

=============================================================================
