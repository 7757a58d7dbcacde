----------------------- MODULE RedisIdempotencyProofs -----------------------
(***************************************************************************)
(* Theorems about RedisIdempotency, for any requests and bodies, any       *)
(* periods and any number of failures.                                     *)
(***************************************************************************)
EXTENDS RedisIdempotency, TLAPS

-----------------------------------------------------------------------------
(* Records and answers *)

LEMMA Clocks ==
    /\ Forever \in Nat /\ 0 \in 0..Forever
    /\ Lives(Ttl) \in 0..Forever /\ Lives(Ttl) > 0
    /\ Lives(InProgressTtl) = InProgressTtl /\ InProgressTtl \in 0..Forever
BY TimesAssumption DEF Forever, Lives

LEMMA RecordsTyped ==
    /\ NoRecord \in Record
    /\ \A r \in Requests : Claimed(r) \in Record
    /\ TypeOK => \A r \in Requests : verdict[r] \in Settled => Marked(r) \in Record
BY Clocks DEF NoRecord, Claimed, Marked, Record, Settled, TypeOK

LEMMA PlainTyped ==
    \A k \in {"none", "busy", "mismatch", "lost", "error", "unavailable"} : Plain(k) \in Answer
BY DEF Plain, Answer

LEMMA SettledTyped ==
    \A k \in Settled, r \in Requests \cup {NoRequest} : [kind |-> k, of |-> r] \in Answer
BY DEF Answer

LEMMA ResolvedTyped ==
    ASSUME TypeOK, NEW r \in Requests, record.status # "none"
    PROVE  Resolved(r) \in Answer
<1>1. record.status \in {"in_progress"} \cup Settled /\ record.by \in Requests \cup {NoRequest}
  BY DEF TypeOK, Record
<1> QED BY <1>1, PlainTyped, SettledTyped DEF Resolved

LEMMA ReplyTyped ==
    ASSUME TypeOK, NEW r \in Requests, NEW a \in Answer, Reply(r, a)
    PROVE  pc' \in [Requests -> Labels] /\ answer' \in [Requests -> Answer]
BY DEF TypeOK, Reply, Labels

LEMMA GotoTyped ==
    ASSUME TypeOK, NEW r \in Requests, NEW l \in Labels, Goto(r, l)
    PROVE  pc' \in [Requests -> Labels] /\ answer' \in [Requests -> Answer]
BY DEF TypeOK, Goto

LEMMA FaultTyped == ASSUME TypeOK, Fault PROVE faults' \in 0..MaxFaults
BY FaultsAssumption DEF TypeOK, Fault

-----------------------------------------------------------------------------
(* Typing *)

\* A request that stores or returns a verdict has one.
VerdictTyped == \A r \in Requests : pc[r] \in {"mark", "respond"} => verdict[r] \in Settled

TypeInv == TypeOK /\ VerdictTyped

LEMMA TypeStep == TypeInv /\ [Next]_vars => TypeInv'
<1> SUFFICES ASSUME TypeInv, [Next]_vars PROVE TypeInv'
  OBVIOUS
<1> USE DEF TypeInv
<1>1. ASSUME NEW r \in Requests, Lookup(r) PROVE TypeInv'
  <2>1. CASE record.status # "none"
    BY <1>1, <2>1, ResolvedTyped, ReplyTyped DEF Lookup, TypeOK, VerdictTyped, Reply
  <2>2. CASE record.status = "none"
    <3>1. Goto(r, "claim") \/ Reply(r, Plain("lost"))
      BY <1>1, <2>2 DEF Lookup
    <3> QED BY <1>1, <3>1, PlainTyped, ReplyTyped, GotoTyped
            DEF Lookup, TypeOK, VerdictTyped, Reply, Goto, Labels
  <2> QED BY <2>1, <2>2
<1>2. ASSUME NEW r \in Requests, LookupFails(r) PROVE TypeInv'
  BY <1>2, PlainTyped, ReplyTyped, FaultTyped DEF LookupFails, TypeOK, VerdictTyped, Reply
<1>3. ASSUME NEW r \in Requests, Claim(r) PROVE TypeInv'
  <2>1. Goto(r, "running") \/ Goto(r, "recheck")
    BY <1>3 DEF Claim
  <2>2. record' \in Record
    BY <1>3, RecordsTyped DEF Claim, TypeOK
  <2> QED BY <1>3, <2>1, <2>2, GotoTyped DEF Claim, TypeOK, VerdictTyped, Goto, Labels
<1>4. ASSUME NEW r \in Requests, ClaimFails(r) PROVE TypeInv'
  <2>1. record' \in Record
    BY <1>4, RecordsTyped DEF ClaimFails, TypeOK
  <2> QED BY <1>4, <2>1, PlainTyped, ReplyTyped, FaultTyped
          DEF ClaimFails, TypeOK, VerdictTyped, Reply
<1>5. ASSUME NEW r \in Requests, HandlerReturns(r) PROVE TypeInv'
  <2>1. PICK v \in Settled \cup {"error"} :
            /\ verdict' = [verdict EXCEPT ![r] = v]
            /\ Goto(r, IF v = "error" THEN "delete" ELSE "mark")
    BY <1>5 DEF HandlerReturns
  <2>2. verdict' \in [Requests -> {"none", "error"} \cup Settled]
    BY <2>1 DEF TypeOK
  <2> QED BY <1>5, <2>1, <2>2, GotoTyped
          DEF HandlerReturns, TypeOK, VerdictTyped, Goto, Labels
<1>6. ASSUME NEW r \in Requests, Mark(r) PROVE TypeInv'
  BY <1>6, RecordsTyped, GotoTyped DEF Mark, TypeOK, VerdictTyped, Goto, Labels
<1>7. ASSUME NEW r \in Requests, Respond(r) PROVE TypeInv'
  BY <1>7, SettledTyped, ReplyTyped DEF Respond, TypeOK, VerdictTyped, Reply
<1>8. ASSUME NEW r \in Requests, MarkFails(r) PROVE TypeInv'
  <2>1. record' \in Record /\ lost' \in BOOLEAN
    BY <1>8, RecordsTyped DEF MarkFails, TypeOK, VerdictTyped
  <2>2. Goto(r, "delete") \/ Reply(r, Plain("error"))
    BY <1>8 DEF MarkFails
  <2> QED BY <1>8, <2>1, <2>2, PlainTyped, ReplyTyped, GotoTyped, FaultTyped
          DEF MarkFails, TypeOK, VerdictTyped, Reply, Goto, Labels
<1>9. ASSUME NEW r \in Requests, Delete(r) PROVE TypeInv'
  BY <1>9, RecordsTyped, PlainTyped, ReplyTyped DEF Delete, TypeOK, VerdictTyped, Reply
<1>10. ASSUME NEW r \in Requests, DeleteFails(r) PROVE TypeInv'
  BY <1>10, RecordsTyped, PlainTyped, ReplyTyped, FaultTyped
     DEF DeleteFails, TypeOK, VerdictTyped, Reply
<1>11. ASSUME NEW r \in Requests, Crash(r) PROVE TypeInv'
  BY <1>11, GotoTyped, FaultTyped DEF Crash, TypeOK, VerdictTyped, Goto, Labels
<1>12. CASE Expires
  BY <1>12, RecordsTyped DEF Expires, TypeOK, VerdictTyped
<1>13. CASE Evicts
  BY <1>13, RecordsTyped, FaultTyped DEF Evicts, TypeOK, VerdictTyped
<1>14. CASE Tick
  <2>1. record' \in Record
    <3>1. CASE Ages(record)
      <4>1. record.left \in 1..Forever /\ record.left - 1 \in 0..Forever
        BY <1>14, <3>1, Clocks DEF Tick, Ages, Overdue, TypeOK, Record
      <4> QED BY <1>14, <3>1, <4>1 DEF Tick, TypeOK, Record
    <3> QED BY <1>14, <3>1 DEF Tick, TypeOK
  <2>2. spent' \in [Requests -> 0..Patience]
    <3>1. \A r \in Requests :
            (IF Holds(r) THEN spent[r] + 1 ELSE spent[r]) \in 0..Patience
      BY <1>14, TimesAssumption DEF Tick, TypeOK
    <3> QED BY <1>14, <3>1 DEF Tick
  <2> QED BY <1>14, <2>1, <2>2 DEF Tick, TypeOK, VerdictTyped
<1>15. CASE UNCHANGED vars
  BY <1>15 DEF vars, TypeOK, VerdictTyped
<1> QED
  BY <1>1, <1>2, <1>3, <1>4, <1>5, <1>6, <1>7, <1>8, <1>9, <1>10, <1>11, <1>12, <1>13,
     <1>14, <1>15 DEF Next, Step, Fails

LEMMA TypeInit == Init => TypeInv
<1>1. NoRecord \in Record /\ Plain("none") \in Answer /\ 0 \in 0..Patience /\ 0 \in 0..MaxFaults
  BY RecordsTyped, PlainTyped, TimesAssumption, FaultsAssumption
<1> QED BY <1>1 DEF Init, TypeInv, TypeOK, VerdictTyped, Labels

LEMMA TypeAlways == Spec => []TypeInv
BY TypeInit, TypeStep, PTL DEF Spec

\* The variables keep their types, in every step of the strategy.
THEOREM TypeCorrect == Spec => []TypeOK
<1>1. TypeInv => TypeOK
  BY DEF TypeInv
<1> QED BY <1>1, TypeAlways, PTL

-----------------------------------------------------------------------------
(* One at a time *)

BeforeClaim == {"lookup", "claim", "recheck"}

\* Nobody's time has begun before the claim.
SpentInv == \A r \in Requests : pc[r] \in BeforeClaim => spent[r] = 0

\* Whoever is at work for the key holds the record, and it outlives the claim.
HolderInv ==
    \A r \in Requests : Holds(r) =>
        /\ record.by = r /\ record.left >= InProgressTtl - spent[r]
        /\ pc[r] = "respond" => record.status = verdict[r]
        /\ pc[r] # "respond" => record.status = "in_progress"

ClaimInv == SpentInv /\ (lost \/ Overran \/ HolderInv)

LEMMA HolderAlone ==
    ASSUME TypeInv, HolderInv
    PROVE  /\ \A r, s \in Requests : Holds(r) /\ Holds(s) => r = s
           /\ record.status = "none" => \A r \in Requests : ~Holds(r)
BY DEF HolderInv, TypeInv, TypeOK, VerdictTyped, Settled, Holds

\* A request that goes on leaves the others, and its record, as they were.
LEMMA OthersHold ==
    ASSUME TypeInv, HolderInv, UNCHANGED <<record, spent>>, NEW r \in Requests, NEW l \in Labels,
           pc' = [pc EXCEPT ![r] = l], ~Holds(r)',
           \A s \in Requests \ {r} : verdict'[s] = verdict[s]
    PROVE  HolderInv'
<1>1. \A s \in Requests : Holds(s)' => s # r /\ Holds(s) /\ pc'[s] = pc[s]
  BY DEF Holds, TypeInv, TypeOK
<1> QED BY <1>1 DEF HolderInv

\* A request that claims the key, which nobody holds, holds it alone.
LEMMA ClaimHolds ==
    ASSUME TypeInv, SpentInv, HolderInv, NEW r \in Requests, record.status = "none",
           pc[r] = "claim", pc' \in {[pc EXCEPT ![r] = "running"], [pc EXCEPT ![r] = "done"]},
           record' = Claimed(r), UNCHANGED spent
    PROVE  HolderInv'
<1>1. \A s \in Requests : Holds(s)' => s = r /\ pc'[s] = "running"
  BY HolderAlone DEF Holds, TypeInv, TypeOK
<1>2. record'.left = InProgressTtl /\ record'.by = r /\ record'.status = "in_progress"
  BY Clocks DEF Claimed
<1>3. spent'[r] = 0
  BY DEF SpentInv, BeforeClaim
<1> QED BY <1>1, <1>2, <1>3, TimesAssumption DEF HolderInv

\* What every step but the clock and the handlers' does to the time spent.
LEMMA SpentStays ==
    ASSUME TypeInv, [Next]_vars
    PROVE  /\ lost => lost'
           /\ \A r \in Requests : spent'[r] >= spent[r]
           /\ \A r \in Requests : pc'[r] \in BeforeClaim => pc[r] \in BeforeClaim /\ spent'[r] = spent[r]
<1> USE DEF TypeInv, TypeOK, BeforeClaim
<1>1. ASSUME NEW r \in Requests, Lookup(r) \/ LookupFails(r) \/ Claim(r) \/ ClaimFails(r)
      PROVE  /\ UNCHANGED <<spent, lost>>
             /\ \E l \in Labels : pc[r] \in BeforeClaim /\ pc' = [pc EXCEPT ![r] = l]
  BY <1>1 DEF Lookup, LookupFails, Claim, ClaimFails, Reply, Goto, Labels
<1>2. ASSUME NEW r \in Requests, HandlerReturns(r) \/ Mark(r) \/ Respond(r)
      PROVE  /\ UNCHANGED <<spent, lost>>
             /\ \E l \in Labels \ BeforeClaim : pc' = [pc EXCEPT ![r] = l]
  BY <1>2 DEF HandlerReturns, Mark, Respond, Reply, Goto, Labels
<1>3. ASSUME NEW r \in Requests, MarkFails(r) \/ Delete(r) \/ DeleteFails(r) \/ Crash(r)
      PROVE  /\ UNCHANGED spent /\ (lost => lost')
             /\ \E l \in Labels \ BeforeClaim : pc' = [pc EXCEPT ![r] = l]
  BY <1>3 DEF MarkFails, Delete, DeleteFails, Crash, Reply, Goto, Labels
<1>4. CASE Expires \/ Evicts \/ UNCHANGED vars
  BY <1>4, TimesAssumption DEF Expires, Evicts, vars
<1>5. CASE Tick
  <2>1. UNCHANGED <<pc, lost>>
    BY <1>5 DEF Tick
  <2>2. ASSUME NEW r \in Requests
        PROVE  spent'[r] >= spent[r] /\ (pc[r] \in BeforeClaim => spent'[r] = spent[r])
    <3>1. spent'[r] = IF Holds(r) THEN spent[r] + 1 ELSE spent[r]
      BY <1>5 DEF Tick
    <3> QED BY <3>1, TimesAssumption DEF Holds
  <2> QED BY <2>1, <2>2
<1>6. \A r \in Requests : spent[r] >= spent[r]
  BY TimesAssumption
<1> QED
  BY <1>1, <1>2, <1>3, <1>4, <1>5, <1>6 DEF Next, Step, Fails

LEMMA SpentStep == TypeInv /\ SpentInv /\ [Next]_vars => SpentInv'
BY SpentStays DEF SpentInv

\* A claim that is outlasted, and a key that is lost, stay so.
LEMMA BrokenStays == ASSUME TypeInv, TypeInv', [Next]_vars, lost \/ Overran PROVE lost' \/ Overran'
<1>1. CASE lost
  BY <1>1, SpentStays
<1>2. CASE Overran
  <2>1. PICK r \in Requests : spent[r] >= InProgressTtl
    BY <1>2 DEF Overran
  <2>2. spent'[r] >= spent[r] /\ spent[r] \in Int /\ spent'[r] \in Int
    BY SpentStays DEF TypeInv, TypeOK
  <2> QED BY <2>1, <2>2, TimesAssumption DEF Overran
<1> QED BY <1>1, <1>2

\* A step with which Redis does not lose the key, before anybody outlasts a claim.
LEMMA HolderStep ==
    ASSUME InProgressTtl <= Ttl, TypeInv, TypeInv', SpentInv, HolderInv, [Next]_vars,
           ~lost', ~Overran'
    PROVE  HolderInv'
<1>a. ASSUME NEW r \in Requests PROVE spent[r] \in Int /\ spent[r] < InProgressTtl
  BY BrokenStays, <1>a, TimesAssumption DEF TypeInv, TypeOK, Overran
<1>b. \A r \in Requests : Holds(r) => record.left > 0 /\ record.left \in Int
  BY <1>a, TimesAssumption DEF HolderInv, TypeInv, TypeOK, Record
<1>1. ASSUME NEW r \in Requests, Lookup(r) \/ LookupFails(r) \/ Respond(r) PROVE HolderInv'
  <2>1. \E l \in Labels \ {"running", "mark", "respond", "delete"} : pc' = [pc EXCEPT ![r] = l]
    BY <1>1 DEF Lookup, LookupFails, Respond, Reply, Goto, Labels
  <2>2. UNCHANGED <<record, spent, verdict>>
    BY <1>1 DEF Lookup, LookupFails, Respond
  <2>3. ~Holds(r)'
    BY <2>1 DEF Holds, TypeInv, TypeOK
  <2> QED BY <2>1, <2>2, <2>3, OthersHold
<1>2. ASSUME NEW r \in Requests, Claim(r) PROVE HolderInv'
  <2>1. CASE Claimable
    BY <1>2, <2>1, ClaimHolds DEF Claim, Claimable, Goto
  <2>2. CASE ~Claimable
    <3>1. pc' = [pc EXCEPT ![r] = "recheck"] /\ UNCHANGED <<record, spent, verdict>>
      BY <1>2, <2>2 DEF Claim, Goto
    <3> QED BY <3>1, OthersHold DEF Holds, Labels, TypeInv, TypeOK
  <2> QED BY <2>1, <2>2
<1>3. ASSUME NEW r \in Requests, ClaimFails(r) PROVE HolderInv'
  <2>1. pc[r] = "claim" /\ pc' = [pc EXCEPT ![r] = "done"] /\ UNCHANGED <<spent, verdict>>
    BY <1>3 DEF ClaimFails, Reply
  <2>2. CASE record' = record
    BY <2>1, <2>2, OthersHold DEF Holds, Labels, TypeInv, TypeOK
  <2>3. CASE record' # record
    BY <1>3, <2>1, <2>3, ClaimHolds DEF ClaimFails, Claimable
  <2> QED BY <2>2, <2>3
<1>4. ASSUME NEW r \in Requests, HandlerReturns(r) PROVE HolderInv'
  <2>1. /\ pc[r] = "running" /\ pc' \in {[pc EXCEPT ![r] = "delete"], [pc EXCEPT ![r] = "mark"]}
        /\ UNCHANGED <<record, spent>> /\ \A s \in Requests \ {r} : verdict'[s] = verdict[s]
    BY <1>4 DEF HandlerReturns, Goto, TypeInv, TypeOK
  <2> QED BY <2>1 DEF HolderInv, Holds, TypeInv, TypeOK
<1>5. ASSUME NEW r \in Requests, Mark(r) PROVE HolderInv'
  <2>1. /\ pc[r] = "mark" /\ pc' = [pc EXCEPT ![r] = "respond"] /\ UNCHANGED <<spent, verdict>>
        /\ record'.by = r /\ record'.status = verdict[r] /\ record'.left = Ttl
    BY <1>5, TimesAssumption DEF Mark, Goto, Marked, Lives
  <2>2. \A s \in Requests : Holds(s)' => s = r /\ pc'[s] = "respond"
    BY <2>1, HolderAlone DEF Holds, TypeInv, TypeOK
  <2>3. Ttl >= InProgressTtl - spent[r]
    BY TimesAssumption DEF TypeInv, TypeOK
  <2> QED BY <2>1, <2>2, <2>3 DEF HolderInv
<1>6. ASSUME NEW r \in Requests, MarkFails(r) PROVE HolderInv'
  <2>1. /\ pc[r] = "mark" /\ pc' \in {[pc EXCEPT ![r] = "delete"], [pc EXCEPT ![r] = "done"]}
        /\ UNCHANGED <<record, spent, verdict>>
    BY <1>6 DEF MarkFails, Goto, Reply
  <2> QED BY <2>1 DEF HolderInv, Holds, TypeInv, TypeOK
<1>7. ASSUME NEW r \in Requests, Delete(r) \/ DeleteFails(r) PROVE HolderInv'
  <2>1. pc[r] = "delete" /\ pc' = [pc EXCEPT ![r] = "done"]
    BY <1>7 DEF Delete, DeleteFails, Reply
  <2>2. \A s \in Requests : ~Holds(s)'
    BY <2>1, HolderAlone DEF Holds, TypeInv, TypeOK
  <2> QED BY <2>2 DEF HolderInv
<1>8. ASSUME NEW r \in Requests, Crash(r) PROVE HolderInv'
  BY <1>8, OthersHold DEF Crash, Goto, Holds, Labels, TypeInv, TypeOK
<1>9. CASE Expires
  <2>1. \A r \in Requests : ~Holds(r)
    BY <1>9, <1>b DEF Expires, Overdue
  <2> QED BY <1>9, <2>1 DEF Expires, HolderInv, Holds
<1>10. CASE Evicts
  BY <1>10 DEF Evicts
<1>11. CASE Tick
  <2>1. /\ record'.by = record.by /\ record'.status = record.status
        /\ record'.left >= record.left - 1
    BY <1>11, Clocks DEF Tick, Ages, TypeInv, TypeOK, Record
  <2>2. ASSUME NEW r \in Requests, Holds(r)' PROVE Holds(r) /\ spent'[r] = spent[r] + 1
    BY <1>11, <2>2 DEF Tick, Holds
  <2>3. record.left \in Int /\ record'.left \in Int
    BY Clocks DEF TypeInv, TypeOK, Record
  <2>4. UNCHANGED <<pc, verdict>>
    BY <1>11 DEF Tick
  <2>5. ASSUME NEW r \in Requests, Holds(r)' PROVE record'.left >= InProgressTtl - spent'[r]
    BY <1>a, <2>1, <2>2, <2>3, <2>5, TimesAssumption DEF HolderInv
  <2> QED BY <2>1, <2>2, <2>4, <2>5 DEF HolderInv
<1>12. CASE UNCHANGED vars
  BY <1>12 DEF vars, HolderInv, Holds
<1> QED
  BY <1>1, <1>2, <1>3, <1>4, <1>5, <1>6, <1>7, <1>8, <1>9, <1>10, <1>11, <1>12
     DEF Next, Step, Fails

LEMMA ClaimStep == ASSUME InProgressTtl <= Ttl, TypeInv, TypeInv', ClaimInv, [Next]_vars PROVE ClaimInv'
<1>1. SpentInv'
  BY SpentStep DEF ClaimInv
<1>2. CASE lost \/ Overran
  BY <1>1, <1>2, BrokenStays DEF ClaimInv
<1>3. CASE HolderInv
  BY <1>1, <1>3, HolderStep DEF ClaimInv
<1> QED BY <1>2, <1>3 DEF ClaimInv

LEMMA ClaimInit == Init => ClaimInv
BY DEF Init, ClaimInv, SpentInv, HolderInv, Holds

LEMMA ClaimAlways == ASSUME InProgressTtl <= Ttl PROVE Spec => [](TypeInv /\ ClaimInv)
<1>1. TypeInv /\ TypeInv' /\ ClaimInv /\ [Next]_vars => ClaimInv'
  BY ClaimStep
<1> QED BY <1>1, ClaimInit, TypeAlways, PTL DEF Spec

\* Two requests are at work for a key at once only when one outlasted its claim
\* or Redis lost the key, if a verdict is kept as long as a claim.
THEOREM Exclusion == ASSUME InProgressTtl <= Ttl PROVE Spec => []OneAtATime
<1>1. TypeInv /\ ClaimInv => OneAtATime
  BY HolderAlone DEF ClaimInv, OneAtATime
<1> QED BY <1>1, ClaimAlways, PTL

-----------------------------------------------------------------------------
(* What clients are told *)

\* What is stored is what the handler of its request returned, and a handler
\* returns once.
VouchedInv ==
    /\ record.status # "none" => record.by \in Requests
    /\ record.status \in Settled => verdict[record.by] = record.status
    /\ \A r \in Requests : pc[r] \in BeforeClaim \cup {"running"} => verdict[r] = "none"
    /\ \A r \in Requests : pc[r] # "done" => answer[r] = Plain("none")
    /\ \A r \in Requests : answer[r].kind \in Settled => answer[r].of \in Requests

HonestInv == TypeInv /\ VouchedInv /\ ReplayHonest

\* A request that is answered changes nothing that anybody vouches for.
LEMMA AnswerVouched ==
    ASSUME HonestInv, NEW r \in Requests, NEW a \in Answer, Reply(r, a), UNCHANGED verdict,
           \/ UNCHANGED record
           \/ record' = NoRecord
           \/ record' = Claimed(r),
           a.kind \in Settled =>
             a.of \in Requests /\ verdict[a.of] = a.kind /\ Body[a.of] = Body[r]
    PROVE  VouchedInv' /\ ReplayHonest'
<1>1. /\ record'.status # "none" => record'.by \in Requests
      /\ record'.status \in Settled => verdict'[record'.by] = record'.status
  BY DEF HonestInv, VouchedInv, NoRecord, Claimed, Settled
<1>2. \A s \in Requests : s # r => answer'[s] = answer[s] /\ pc'[s] = pc[s]
  BY DEF Reply, HonestInv, TypeInv, TypeOK
<1>3. answer'[r] = a /\ pc'[r] = "done"
  BY DEF Reply, HonestInv, TypeInv, TypeOK
<1> QED BY <1>1, <1>2, <1>3 DEF HonestInv, VouchedInv, ReplayHonest, BeforeClaim

LEMMA PlainVouched ==
    ASSUME HonestInv, NEW r \in Requests,
           NEW k \in {"busy", "mismatch", "lost", "error", "unavailable"},
           Reply(r, Plain(k)), UNCHANGED verdict,
           UNCHANGED record \/ record' = NoRecord \/ record' = Claimed(r)
    PROVE  VouchedInv' /\ ReplayHonest'
<1>1. Plain(k) \in Answer /\ Plain(k).kind \notin Settled
  BY PlainTyped DEF Plain, Settled
<1> QED BY <1>1, AnswerVouched

\* A request that goes on is not answered.
LEMMA GotoVouched ==
    ASSUME HonestInv, NEW r \in Requests, NEW l \in Labels, Goto(r, l), UNCHANGED verdict,
           pc[r] # "done",
           l \in BeforeClaim \cup {"running"} => pc[r] \in BeforeClaim,
           \/ UNCHANGED record
           \/ record' = Claimed(r)
           \/ record' = Marked(r) /\ verdict[r] \in Settled
    PROVE  VouchedInv' /\ ReplayHonest'
<1>1. /\ record'.status # "none" => record'.by \in Requests
      /\ record'.status \in Settled => verdict'[record'.by] = record'.status
  BY DEF HonestInv, VouchedInv, Claimed, Marked, Settled
<1>2. \A s \in Requests : s # r => pc'[s] = pc[s]
  BY DEF Goto, HonestInv, TypeInv, TypeOK
<1>3. pc'[r] = l /\ UNCHANGED answer
  BY DEF Goto, HonestInv, TypeInv, TypeOK
<1> QED BY <1>1, <1>2, <1>3 DEF HonestInv, VouchedInv, ReplayHonest

LEMMA HonestStep == HonestInv /\ TypeInv' /\ [Next]_vars => VouchedInv' /\ ReplayHonest'
<1> SUFFICES ASSUME HonestInv, TypeInv', [Next]_vars PROVE VouchedInv' /\ ReplayHonest'
  OBVIOUS
<1> DEFINE Goal == VouchedInv' /\ ReplayHonest'
<1>1. ASSUME NEW r \in Requests, Lookup(r) PROVE Goal
  <2>0. pc[r] \in {"lookup", "recheck"} /\ UNCHANGED <<record, verdict>>
    BY <1>1 DEF Lookup
  <2>1. CASE record.status # "none"
    <3>1. Reply(r, Resolved(r)) /\ Resolved(r) \in Answer
      BY <1>1, <2>1, ResolvedTyped DEF Lookup, HonestInv, TypeInv
    <3>2. Resolved(r).kind \in Settled =>
            /\ Resolved(r).of \in Requests /\ verdict[Resolved(r).of] = Resolved(r).kind
            /\ Body[Resolved(r).of] = Body[r]
      BY <2>1 DEF Resolved, Plain, Settled, HonestInv, VouchedInv, TypeInv, TypeOK, Record
    <3> QED BY <2>0, <3>1, <3>2, AnswerVouched
  <2>2. CASE record.status = "none" /\ pc[r] = "lookup"
    BY <1>1, <2>0, <2>2, GotoVouched DEF Lookup, BeforeClaim, Labels
  <2>3. CASE record.status = "none" /\ pc[r] = "recheck"
    BY <1>1, <2>0, <2>3, PlainVouched DEF Lookup
  <2> QED BY <2>0, <2>1, <2>2, <2>3
<1>2. ASSUME NEW r \in Requests, LookupFails(r) PROVE Goal
  BY <1>2, PlainVouched DEF LookupFails
<1>3. ASSUME NEW r \in Requests, Claim(r) PROVE Goal
  BY <1>3, GotoVouched DEF Claim, BeforeClaim, Labels
<1>4. ASSUME NEW r \in Requests, ClaimFails(r) PROVE Goal
  BY <1>4, PlainVouched DEF ClaimFails
<1>5. ASSUME NEW r \in Requests, HandlerReturns(r) PROVE Goal
  <2>1. /\ pc[r] = "running" /\ UNCHANGED <<record, answer>>
        /\ \A s \in Requests : s # r => verdict'[s] = verdict[s] /\ pc'[s] = pc[s]
        /\ pc'[r] \in {"delete", "mark"}
    BY <1>5 DEF HandlerReturns, Goto, HonestInv, TypeInv, TypeOK
  <2>2. verdict[r] = "none"
    BY <2>1 DEF HonestInv, VouchedInv
  <2>3. record.status \in Settled => record.by \in Requests /\ record.by # r
    BY <2>2 DEF HonestInv, VouchedInv, Settled
  <2>4. \A s \in Requests : answer[s].kind \in Settled => answer[s].of \in Requests /\ answer[s].of # r
    BY <2>2 DEF HonestInv, VouchedInv, ReplayHonest, Settled
  <2> QED BY <2>1, <2>2, <2>3, <2>4
          DEF HonestInv, VouchedInv, ReplayHonest, BeforeClaim
<1>6. ASSUME NEW r \in Requests, Mark(r) PROVE Goal
  BY <1>6, GotoVouched DEF Mark, BeforeClaim, Labels, HonestInv, TypeInv, VerdictTyped
<1>7. ASSUME NEW r \in Requests, Respond(r) PROVE Goal
  <2>1. verdict[r] \in Settled /\ UNCHANGED <<record, verdict>>
    BY <1>7 DEF Respond, HonestInv, TypeInv, VerdictTyped
  <2>2. Reply(r, [kind |-> verdict[r], of |-> r]) /\ [kind |-> verdict[r], of |-> r] \in Answer
    BY <1>7, <2>1, SettledTyped DEF Respond
  <2> QED BY <2>1, <2>2, AnswerVouched
<1>8. ASSUME NEW r \in Requests, MarkFails(r) PROVE Goal
  <2>1. /\ pc[r] = "mark" /\ UNCHANGED verdict /\ verdict[r] \in Settled
        /\ UNCHANGED record \/ record' = Marked(r)
    BY <1>8 DEF MarkFails, HonestInv, TypeInv, VerdictTyped
  <2>2. CASE Goto(r, "delete")
    BY <2>1, <2>2, GotoVouched DEF BeforeClaim, Labels
  <2>3. CASE Reply(r, Plain("error"))
    <3>1. /\ record'.status # "none" => record'.by \in Requests
          /\ record'.status \in Settled => verdict'[record'.by] = record'.status
      BY <2>1 DEF HonestInv, VouchedInv, Marked, Settled
    <3>2. \A s \in Requests : s # r => answer'[s] = answer[s] /\ pc'[s] = pc[s]
      BY <2>3 DEF Reply, HonestInv, TypeInv, TypeOK
    <3>3. answer'[r] = Plain("error") /\ pc'[r] = "done" /\ Plain("error").kind \notin Settled
      BY <2>3 DEF Reply, HonestInv, TypeInv, TypeOK, Plain, Settled
    <3> QED BY <2>1, <3>1, <3>2, <3>3 DEF HonestInv, VouchedInv, ReplayHonest, BeforeClaim
  <2> QED BY <1>8, <2>2, <2>3 DEF MarkFails
<1>9. ASSUME NEW r \in Requests, Delete(r) PROVE Goal
  BY <1>9, PlainVouched DEF Delete
<1>10. ASSUME NEW r \in Requests, DeleteFails(r) PROVE Goal
  BY <1>10, PlainVouched DEF DeleteFails
<1>11. ASSUME NEW r \in Requests, Crash(r) PROVE Goal
  BY <1>11, GotoVouched DEF Crash, BeforeClaim, Labels
<1>12. CASE Expires \/ Evicts
  BY <1>12 DEF Expires, Evicts, NoRecord, Settled, HonestInv, VouchedInv, ReplayHonest
<1>13. CASE Tick
  <2>1. /\ record'.by = record.by /\ record'.status = record.status
        /\ UNCHANGED <<pc, verdict, answer>>
    BY <1>13 DEF Tick, HonestInv, TypeInv, TypeOK, Record
  <2> QED BY <2>1 DEF HonestInv, VouchedInv, ReplayHonest
<1>14. CASE UNCHANGED vars
  BY <1>14 DEF vars, HonestInv, VouchedInv, ReplayHonest
<1> QED
  BY <1>1, <1>2, <1>3, <1>4, <1>5, <1>6, <1>7, <1>8, <1>9, <1>10, <1>11, <1>12, <1>13,
     <1>14 DEF Next, Step, Fails

LEMMA HonestAlways == Spec => []HonestInv
<1>1. Init => HonestInv
  BY TypeInit DEF Init, HonestInv, VouchedInv, ReplayHonest, NoRecord, Plain, Settled
<1>2. HonestInv /\ [Next]_vars => HonestInv'
  BY HonestStep, TypeStep DEF HonestInv
<1> QED BY <1>1, <1>2, PTL DEF Spec

\* A client that is told a response or an error hears what the handler of a
\* request with its body returned, even when the key was lost or outlasted.
THEOREM Honesty == Spec => []ReplayHonest
<1>1. HonestInv => ReplayHonest
  BY DEF HonestInv
<1> QED BY <1>1, HonestAlways, PTL

-----------------------------------------------------------------------------
(* The record is an idempotency key *)

\* No record lives longer than a verdict.
LifeInv == record.left <= Ttl

LEMMA LifeStep == ASSUME InProgressTtl <= Ttl, TypeInv, LifeInv, [Next]_vars PROVE LifeInv'
<1>0. record.left \in Int /\ 0 <= Ttl /\ Lives(Ttl) = Ttl /\ Lives(InProgressTtl) <= Ttl
  BY Clocks, TimesAssumption DEF TypeInv, TypeOK, Record, Lives
<1>1. \A r \in Requests : Claimed(r).left <= Ttl /\ Marked(r).left <= Ttl
  BY <1>0, TimesAssumption DEF Claimed, Marked
<1>2. NoRecord.left <= Ttl
  BY <1>0 DEF NoRecord
<1>3. CASE UNCHANGED record
  BY <1>3 DEF LifeInv
<1>4. CASE Tick
  <2>1. record'.left \in {record.left, record.left - 1}
    BY <1>4, Clocks DEF Tick, TypeInv, TypeOK, Record
  <2> QED BY <1>0, <2>1, TimesAssumption DEF LifeInv
<1> QED
  BY <1>1, <1>2, <1>3, <1>4
     DEF Next, Step, Fails, Lookup, LookupFails, Claim, ClaimFails, HandlerReturns, Mark,
         Respond, MarkFails, Delete, DeleteFails, Crash, Expires, Evicts, vars, LifeInv

KeyInv == HonestInv /\ ClaimInv /\ LifeInv

LEMMA KeyAlways == ASSUME InProgressTtl <= Ttl PROVE Spec => []KeyInv
<1>1. Init => LifeInv
  BY TimesAssumption DEF Init, LifeInv, NoRecord
<1>2. TypeInv /\ LifeInv /\ [Next]_vars => LifeInv'
  BY LifeStep
<1> QED BY <1>1, <1>2, HonestAlways, ClaimAlways, TypeAlways, PTL DEF Spec, KeyInv

\* What an answer means for the key: nothing unless it is about the key.
LEMMA ToldReply ==
    ASSUME HonestInv, NEW r \in Requests, pc[r] # "done", NEW a, Reply(r, a)
    PROVE  KeyTold' = [KeyTold EXCEPT ![r] = ToldBy(a)] /\ KeyTold[r] = "nothing"
<1>1. answer \in [Requests -> Answer] /\ answer' = [answer EXCEPT ![r] = a]
  BY DEF HonestInv, TypeInv, TypeOK, Reply
<1>2. KeyTold' = [KeyTold EXCEPT ![r] = ToldBy(a)]
  BY <1>1 DEF KeyTold
<1>3. answer[r] = Plain("none") /\ ToldBy(Plain("none")) = "nothing"
  BY DEF HonestInv, VouchedInv, ToldBy, Plain, Settled
<1> QED BY <1>2, <1>3 DEF KeyTold

LEMMA ToldPlain ==
    ASSUME HonestInv, NEW r \in Requests, pc[r] # "done",
           NEW k \in {"error", "unavailable", "lost"}, Reply(r, Plain(k))
    PROVE  KeyTold' = KeyTold
<1>1. ToldBy(Plain(k)) = "nothing"
  BY DEF ToldBy, Plain, Settled
<1>2. KeyTold' = [KeyTold EXCEPT ![r] = ToldBy(Plain(k))] /\ KeyTold[r] = "nothing"
  BY ToldReply
<1>3. KeyTold = [s \in Requests |-> KeyTold[s]]
  BY DEF KeyTold
<1> QED BY <1>1, <1>2, <1>3

LEMMA ToldGoto == ASSUME NEW r, NEW l, Goto(r, l) PROVE KeyTold' = KeyTold
BY DEF Goto, KeyTold

LEMMA SameKey == ASSUME UNCHANGED record, KeyTold' = KeyTold PROVE UNCHANGED Key!vars
BY DEF KeyState, KeyLeft, Key!vars

LEMMA TakeKey ==
    ASSUME NEW r \in Requests, KeyTold[r] = "nothing", record.status = "none",
           record' = Claimed(r), KeyTold' = KeyTold
    PROVE  Key!Take(r)
<1>1. KeyLeft' = Ttl
  BY Clocks, TimesAssumption DEF KeyLeft, Claimed
<1> QED BY <1>1 DEF Claimed, KeyState, Key!Take

LEMMA FreeKey ==
    ASSUME record.status = "in_progress" \/ (record.status \in Settled /\ record.left = 0),
           record' = NoRecord, KeyTold' = KeyTold
    PROVE  Key!Free
BY DEF NoRecord, KeyState, KeyLeft, Key!Free, Key!Verdicts, Settled

\* Hearing what is on record is hearing the key's state.
LEMMA TellResolved ==
    ASSUME InProgressTtl <= Ttl, HonestInv, NEW r \in Requests, pc[r] # "done",
           record.status # "none", record.left > 0, UNCHANGED record, Reply(r, Resolved(r))
    PROVE  \E t \in Key!Told : Key!Tell(r, t)
<1>1. KeyTold' = [KeyTold EXCEPT ![r] = ToldBy(Resolved(r))] /\ KeyTold[r] = "nothing"
  BY ToldReply
<1>2. record.status \in {"in_progress", "completed", "failed"} /\ record.left \in Int
  BY DEF HonestInv, TypeInv, TypeOK, Record, Settled
<1>3. IF Body[r] # Body[record.by] THEN ToldBy(Resolved(r)) = "mismatch"
                                   ELSE ToldBy(Resolved(r)) = KeyState
  BY <1>2 DEF Resolved, ToldBy, KeyState, Plain, Settled
<1>4. ToldBy(Resolved(r)) \in Key!Told /\ KeyState # "free" /\ KeyState' = KeyState
  BY <1>2, <1>3 DEF KeyState, Key!Told, Key!Verdicts
<1>5. KeyLeft > 0 /\ KeyLeft' = KeyLeft
  BY <1>2, TimesAssumption DEF KeyLeft
<1> QED BY <1>1, <1>3, <1>4, <1>5 DEF Key!Tell

LEMMA KeyStep ==
    ASSUME InProgressTtl <= Ttl, KeyInv, KeyInv', [Next]_vars
    PROVE  [Key!Next \/ lost' \/ Overran']_(Key!vars)
<1> DEFINE Goal == [Key!Next \/ lost' \/ Overran']_(Key!vars)
<1> SUFFICES ASSUME ~lost', ~Overran' PROVE Goal
  OBVIOUS
<1>a. HonestInv /\ TypeInv /\ TypeInv' /\ SpentInv /\ LifeInv
  BY DEF KeyInv, HonestInv, ClaimInv
<1>b. ~lost /\ ~Overran /\ HolderInv
  BY <1>a, BrokenStays DEF KeyInv, ClaimInv
<1>c. ASSUME NEW r \in Requests PROVE spent[r] \in Int /\ spent[r] < InProgressTtl
  BY <1>a, <1>b, TimesAssumption DEF TypeInv, TypeOK, Overran
<1>d. record.left \in Int /\ record.left >= 0
  BY <1>a, Clocks DEF TypeInv, TypeOK, Record
<1>1. ASSUME NEW r \in Requests, Lookup(r) PROVE Goal
  <2>0. UNCHANGED record /\ pc[r] # "done" /\ ~Overdue
    BY <1>1 DEF Lookup
  <2>1. CASE record.status # "none"
    <3>1. Reply(r, Resolved(r)) /\ record.left > 0
      BY <1>1, <1>d, <2>0, <2>1 DEF Lookup, Overdue
    <3> QED BY <1>a, <2>0, <2>1, <3>1, TellResolved DEF Key!Next
  <2>2. CASE record.status = "none"
    <3>1. KeyTold' = KeyTold
      BY <1>1, <1>a, <2>0, <2>2, ToldGoto, ToldPlain DEF Lookup
    <3> QED BY <2>0, <3>1, SameKey
  <2> QED BY <2>1, <2>2
<1>2. ASSUME NEW r \in Requests, LookupFails(r) PROVE Goal
  BY <1>2, <1>a, ToldPlain, SameKey DEF LookupFails
<1>3. ASSUME NEW r \in Requests, Claim(r) PROVE Goal
  <2>1. KeyTold' = KeyTold /\ KeyTold[r] = "nothing"
    <3>1. answer[r] = Plain("none")
      BY <1>3, <1>a DEF Claim, HonestInv, VouchedInv
    <3> QED BY <1>3, <3>1, ToldGoto DEF Claim, KeyTold, ToldBy, Plain, Settled
  <2>2. CASE Claimable
    <3>1. record.status = "none" /\ record' = Claimed(r)
      BY <1>3, <2>2 DEF Claim, Claimable
    <3> QED BY <2>1, <3>1, TakeKey DEF Key!Next
  <2>3. CASE ~Claimable
    BY <1>3, <2>1, <2>3, SameKey DEF Claim
  <2> QED BY <2>2, <2>3
<1>4. ASSUME NEW r \in Requests, ClaimFails(r) PROVE Goal
  <2>1. KeyTold' = KeyTold /\ KeyTold[r] = "nothing"
    BY <1>4, <1>a, ToldPlain, ToldReply DEF ClaimFails
  <2>2. CASE record' = record
    BY <2>1, <2>2, SameKey
  <2>3. CASE record' # record
    <3>1. record.status = "none" /\ record' = Claimed(r)
      BY <1>4, <2>3 DEF ClaimFails, Claimable
    <3> QED BY <2>1, <3>1, TakeKey DEF Key!Next
  <2> QED BY <2>2, <2>3
<1>5. ASSUME NEW r \in Requests, HandlerReturns(r) PROVE Goal
  BY <1>5, ToldGoto, SameKey DEF HandlerReturns
<1>6. ASSUME NEW r \in Requests, Mark(r) PROVE Goal
  <2>1. KeyTold' = KeyTold /\ record' = Marked(r) /\ verdict[r] \in Settled
    BY <1>6, <1>a, ToldGoto DEF Mark, TypeInv, VerdictTyped
  <2>2. record.status = "in_progress" /\ record.by = r
    BY <1>6, <1>b DEF Mark, HolderInv, Holds
  <2>3. KeyLeft' = Ttl /\ KeyState' = verdict[r] /\ record'.by = r /\ KeyState = "busy"
    BY <2>1, <2>2, TimesAssumption DEF KeyLeft, KeyState, Marked, Lives, Settled
  <2>4. Key!Settle(verdict[r]) /\ verdict[r] \in Key!Verdicts
    BY <2>1, <2>2, <2>3 DEF Key!Settle, Key!Verdicts, Settled
  <2> QED BY <2>4 DEF Key!Next
<1>7. ASSUME NEW r \in Requests, Respond(r) PROVE Goal
  <2>1. /\ record.by = r /\ record.status = verdict[r] /\ verdict[r] \in Settled
        /\ record.left >= InProgressTtl - spent[r]
    BY <1>7, <1>a, <1>b DEF Respond, HolderInv, Holds, TypeInv, VerdictTyped
  <2>2. record.left > 0 /\ UNCHANGED record /\ pc[r] # "done"
    BY <1>7, <1>c, <1>d, <2>1, TimesAssumption DEF Respond
  <2>3. Resolved(r) = [kind |-> verdict[r], of |-> r] /\ record.status # "none"
    BY <2>1 DEF Resolved, Settled
  <2>4. Reply(r, Resolved(r))
    BY <1>7, <2>3 DEF Respond
  <2> QED BY <1>a, <2>2, <2>3, <2>4, TellResolved DEF Key!Next
<1>8. ASSUME NEW r \in Requests, MarkFails(r) PROVE Goal
  <2>1. UNCHANGED record /\ (Goto(r, "delete") \/ Reply(r, Plain("error"))) /\ pc[r] # "done"
    BY <1>8 DEF MarkFails
  <2> QED BY <1>a, <2>1, ToldGoto, ToldPlain, SameKey
<1>9. ASSUME NEW r \in Requests, Delete(r) \/ DeleteFails(r) PROVE Goal
  <2>1. record.status = "in_progress"
    BY <1>9, <1>b DEF Delete, DeleteFails, HolderInv, Holds
  <2>2. KeyTold' = KeyTold
    BY <1>9, <1>a, ToldPlain DEF Delete, DeleteFails
  <2>3. record' = record \/ record' = NoRecord
    BY <1>9 DEF Delete, DeleteFails
  <2>4. CASE record' = record
    BY <2>2, <2>4, SameKey
  <2>5. CASE record' = NoRecord
    <3>1. Key!Free
      BY <2>1, <2>2, <2>5, FreeKey
    <3> QED BY <3>1 DEF Key!Next
  <2> QED BY <2>3, <2>4, <2>5
<1>10. ASSUME NEW r \in Requests, Crash(r) PROVE Goal
  BY <1>10, ToldGoto, SameKey DEF Crash
<1>11. CASE Expires
  <2>1. record.status \in {"in_progress"} \cup Settled /\ record.left = 0 /\ KeyTold' = KeyTold
    BY <1>11, <1>a DEF Expires, Overdue, TypeInv, TypeOK, Record, KeyTold
  <2> QED BY <1>11, <2>1, FreeKey DEF Expires, Key!Next
<1>12. CASE Evicts
  BY <1>12 DEF Evicts
<1>13. CASE Tick
  <2>1. KeyTold' = KeyTold
    BY <1>13 DEF Tick, KeyTold
  <2>2. CASE record.status = "none"
    BY <1>13, <2>1, <2>2, SameKey DEF Tick, Ages
  <2>3. CASE record.status # "none"
    <3>1. Ages(record)
      BY <1>a, <1>d, <2>3, TimesAssumption DEF Ages, Forever, LifeInv
    <3>2. /\ record'.status = record.status /\ record'.by = record.by
          /\ record'.left = record.left - 1
      BY <1>13, <1>a, <3>1 DEF Tick, TypeInv, TypeOK, Record
    <3>3. KeyState' = KeyState /\ KeyState # "free" /\ KeyLeft' = KeyLeft - 1
      BY <1>a, <1>d, <2>3, <3>2, TimesAssumption
         DEF KeyState, KeyLeft, TypeInv, TypeOK, Record, Settled
    <3> QED BY <2>1, <3>2, <3>3 DEF Key!Pass, Key!Next
  <2> QED BY <2>2, <2>3
<1>14. CASE UNCHANGED vars
  BY <1>14, SameKey DEF vars, KeyTold
<1> QED
  BY <1>1, <1>2, <1>3, <1>4, <1>5, <1>6, <1>7, <1>8, <1>9, <1>10, <1>11, <1>12, <1>13,
     <1>14 DEF Next, Step, Fails

\* Until a request outlasts its claim, or Redis loses the key or the reply to the
\* command that stores a verdict, the strategy implements an idempotency key, if
\* a verdict is kept as long as a claim.
THEOREM Refinement == ASSUME InProgressTtl <= Ttl PROVE Spec => KeepsPromise
<1>1. Init => Key!Init
  BY DEF Init, Key!Init, KeyState, KeyLeft, KeyTold, ToldBy, NoRecord, Plain, Settled
<1>2. KeyInv /\ KeyInv' /\ [Next]_vars => [Key!Next \/ lost' \/ Overran']_(Key!vars)
  BY KeyStep
<1> QED BY <1>1, <1>2, KeyAlways, PTL DEF Spec, KeepsPromise

=============================================================================
