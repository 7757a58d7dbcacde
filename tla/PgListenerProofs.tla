-------------------------- MODULE PgListenerProofs --------------------------
(***************************************************************************)
(* What is proved of PgListener, for any channels, handlers, connections,  *)
(* numbers of failures and waiting statements, of a listener started once: *)
(* the types, that healthy means connected, that no second connection is   *)
(* left open, that nobody connects after stop(), and, when no channel is   *)
(* subscribed while its UNLISTEN waits, that subscriptions are served.     *)
(***************************************************************************)
EXTENDS PgListener, TLAPS

-----------------------------------------------------------------------------
(* Queues *)

LEMMA StmtTyped ==
    ASSUME NEW sql \in {"LISTEN", "UNLISTEN"}, NEW c \in Channels, NEW r \in BOOLEAN
    PROVE  Stmt(sql, c, r) \in Statement
BY DEF Stmt, Statement

LEMMA TailTyped ==
    ASSUME NEW q \in Seq(Statement), q # <<>>
    PROVE  /\ Tail(q) \in Seq(Statement) /\ Head(q) \in Statement
           /\ Len(q) \in Nat \ {0} /\ Len(Tail(q)) = Len(q) - 1
           /\ Head(q) = q[1]
           /\ \A i \in 1..Len(Tail(q)) : Tail(q)[i] = q[i + 1]
OBVIOUS

LEMMA AppendTyped ==
    ASSUME NEW q \in Seq(Statement), NEW s \in Statement
    PROVE  /\ Append(q, s) \in Seq(Statement)
           /\ Len(q) \in Nat /\ Len(Append(q, s)) = Len(q) + 1
           /\ Append(q, s)[Len(q) + 1] = s
           /\ \A i \in 1..Len(q) : Append(q, s)[i] = q[i]
OBVIOUS

-----------------------------------------------------------------------------
(* Types *)

LEMMA RestoreTyped ==
    ASSUME TypeOK, NEW w \in Callers, NEW has \in SUBSET Channels,
           NEW q \in Seq(Statement), Restore(w, has, q)
    PROVE  /\ queue' \in Seq(Statement) /\ pc' \in [Callers -> Labels]
           /\ healthy' \in BOOLEAN /\ started' \in BOOLEAN /\ reconnecting' \in BOOLEAN
<1>1. CASE Connected(w) /\ queue' = q BY <1>1 DEF Connected, TypeOK, Labels
<1>2. ASSUME NEW c \in Subscribed \ has, queue' = Append(q, Stmt("LISTEN", c, TRUE)),
             pc' = [pc EXCEPT ![w] = "restoring"],
             UNCHANGED <<healthy, started, reconnecting>>
      PROVE  /\ queue' \in Seq(Statement) /\ pc' \in [Callers -> Labels]
             /\ healthy' \in BOOLEAN /\ started' \in BOOLEAN /\ reconnecting' \in BOOLEAN
  <2>1. Stmt("LISTEN", c, TRUE) \in Statement BY StmtTyped DEF Subscribed
  <2>2. queue' \in Seq(Statement) BY <1>2, <2>1, AppendTyped
  <2>3. pc' \in [Callers -> Labels] BY <1>2 DEF TypeOK, Labels
  <2> QED BY <1>2, <2>2, <2>3 DEF TypeOK
<1> QED BY <1>1, <1>2 DEF Restore

LEMMA RejectedTyped ==
    ASSUME TypeOK, Rejected
    PROVE  queue' \in Seq(Statement) /\ listening' \subseteq Channels /\ dead' \in BOOLEAN
<1>1. <<>> \in Seq(Statement) OBVIOUS
<1>2. (Waiting("UNLISTEN") # {}) \in BOOLEAN OBVIOUS
<1> QED BY <1>1, <1>2 DEF Rejected, TypeOK

LEMMA TypeStep == TypeOK /\ [Next]_vars => TypeOK'
<1> SUFFICES ASSUME TypeOK, [Next]_vars PROVE TypeOK'
  OBVIOUS
<1> USE BoundsAssumption DEF TypeOK, flags
<1>f. Fault => faults' \in 0..MaxFaults BY DEF Fault
<1>q. queue # <<>> => Tail(queue) \in Seq(Statement) /\ Head(queue) \in Statement
  BY TailTyped
<1>1. ASSUME NEW c \in Channels, NEW h \in Handlers, Subscribe(c, h) PROVE TypeOK'
  <2>1. queue' \in Seq(Statement) BY <1>1, StmtTyped, AppendTyped DEF Subscribe
  <2> QED BY <1>1, <2>1 DEF Subscribe
<1>2. ASSUME NEW c \in Channels, NEW h \in Handlers, Unsubscribe(c, h) PROVE TypeOK'
  <2>1. queue' \in Seq(Statement) BY <1>2, StmtTyped, AppendTyped DEF Unsubscribe
  <2> QED BY <1>2, <2>1 DEF Unsubscribe
<1>3. ASSUME NEW w \in Callers, CreateOk(w) PROVE TypeOK'
  <2>1. /\ queue' \in Seq(Statement) /\ pc' \in [Callers -> Labels]
        /\ healthy' \in BOOLEAN /\ started' \in BOOLEAN /\ reconnecting' \in BOOLEAN
    BY <1>3, RestoreTyped DEF CreateOk
  <2> QED BY <1>3, <2>1 DEF CreateOk
<1>4. ASSUME NEW w \in Callers, CreateFails(w) PROVE TypeOK'
  BY <1>4, <1>f DEF CreateFails, Threw, Labels
<1>5. ASSUME NEW w \in Callers, CleanedUp(w) PROVE TypeOK'
  BY <1>5 DEF CleanedUp, Threw, Labels
<1>6. CASE Listens
  <2>1. Head(queue).channel \in Channels /\ Tail(queue) \in Seq(Statement)
    BY <1>6, <1>q DEF Listens, Statement
  <2>2. listening' \in SUBSET Channels /\ refused' \in SUBSET Channels
    BY <1>6, <2>1 DEF Listens
  <2>3. /\ queue' \in Seq(Statement) /\ pc' \in [Callers -> Labels]
        /\ healthy' \in BOOLEAN /\ started' \in BOOLEAN /\ reconnecting' \in BOOLEAN
    BY <1>6, <2>1, <2>2, RestoreTyped DEF Listens
  <2>4. heard' \in [Conns -> SUBSET Channels] BY <1>6, <2>1 DEF Listens
  <2> QED BY <1>6, <2>2, <2>3, <2>4 DEF Listens
<1>7. CASE Unlistens BY <1>7, <1>q DEF Unlistens, Statement
<1>8. CASE Refuses
  <2>1. Head(queue).channel \in Channels /\ Tail(queue) \in Seq(Statement)
    BY <1>8, <1>q DEF Refuses, Statement
  <2> QED BY <1>8, <2>1, <1>f DEF Refuses, Labels
<1>9. CASE Lose
  <2>1. pc' \in [Callers -> Labels] BY <1>9 DEF Lose, Labels
  <2>2. client' \in Conns \cup {NoClient} /\ open' \subseteq Conns BY <1>9 DEF Lose
  <2>3. /\ queue' \in Seq(Statement) /\ listening' \subseteq Channels
        /\ dead' \in BOOLEAN
    BY <1>9, RejectedTyped DEF Lose
  <2>4. healthy' \in BOOLEAN BY <1>9 DEF Lose
  <2> QED BY <1>9, <1>f, <2>1, <2>2, <2>3, <2>4 DEF Lose
<1>10. CASE RefusedUnsent BY <1>10, RejectedTyped DEF RefusedUnsent
<1>11. CASE Reconnect BY <1>11 DEF Reconnect, LoopAgain, Labels
<1>12. CASE Retry BY <1>12 DEF Retry, LoopAgain, Labels
<1>13. CASE Start
  <2>1. starts' \in 0..MaxStarts BY <1>13 DEF Start
  <2>2. pc' \in [Callers -> Labels] BY <1>13 DEF Start, Labels
  <2> QED BY <1>13, <2>1, <2>2 DEF Start
<1>14. CASE Stop BY <1>14 DEF Stop, StopDone, Labels
<1>15. CASE Stopped
  <2>1. pc' \in [Callers -> Labels] BY <1>15 DEF Stopped, Labels
  <2> QED BY <1>15, <2>1, RejectedTyped DEF Stopped, StopDone
<1>16. CASE UNCHANGED vars BY <1>16 DEF vars
<1> QED BY <1>1, <1>2, <1>3, <1>4, <1>5, <1>6, <1>7, <1>8, <1>9, <1>10, <1>11,
           <1>12, <1>13, <1>14, <1>15, <1>16 DEF Next

LEMMA TypeInit == ASSUME Init PROVE TypeOK
<1>1. 0 \in 0..MaxStarts /\ 0 \in 0..MaxFaults BY BoundsAssumption
<1>2. <<>> \in Seq(Statement) OBVIOUS
<1>3. pc \in [Callers -> Labels] BY DEF Init, Labels
<1> QED BY <1>1, <1>2, <1>3 DEF Init, TypeOK

\* Every variable keeps its type, however often the listener is started.
THEOREM TypeCorrect == Spec => []TypeOK
BY TypeInit, TypeStep, PTL DEF Spec

-----------------------------------------------------------------------------
(* The connection *)

NoRestores(q) == \A i \in 1..Len(q) : ~q[i].restores
OneRestores(q) == \A i, j \in 1..Len(q) : q[i].restores /\ q[j].restores => i = j

\* One connection, and none while a caller waits for another or to try again.
OneClient ==
    /\ open \subseteq {client}
    /\ \A w \in Callers :
         pc[w] \in {"cleaning", "creating", "failing", "waiting"} => client = NoClient

\* start() and the reconnect loop never run at once, and never when all is well.
OneCaller ==
    /\ \A w \in Callers : pc[w] # "idle" => ~healthy
    /\ pc["start"] # "idle" => pc["reconnect"] = "idle"
    /\ started => pc["start"] = "idle"
    /\ reconnecting /\ ~shuttingDown => pc["reconnect"] # "idle"

\* While stop() awaits the end of the client nothing else is under way.
StopsAlone == stopping =>
    /\ client = NoClient /\ shuttingDown
    /\ pc["start"] = "idle" /\ pc["reconnect"] \in {"idle", "restoring"}

\* Nothing happens before start().
NothingBefore == starts = 0 =>
    /\ client = NoClient /\ pc["start"] = "idle" /\ pc["reconnect"] = "idle"
    /\ ~healthy /\ ~started /\ ~shuttingDown /\ ~reconnecting

\* A statement that restores waits for a caller that is restoring.
RestorerWaits ==
    /\ OneRestores(queue)
    /\ NoRestores(queue) \/ \E w \in Callers : pc[w] = "restoring"

LInv ==
    /\ TypeOK /\ OneClient /\ OneCaller /\ StopsAlone /\ NothingBefore
    /\ RestorerWaits /\ HealthyConnected

LEMMA RestoresTail ==
    ASSUME NEW q \in Seq(Statement), q # <<>>, OneRestores(q)
    PROVE  /\ OneRestores(Tail(q))
           /\ Head(q).restores \/ NoRestores(q) => NoRestores(Tail(q))
<1>1. \A i \in 1..Len(Tail(q)) : i + 1 \in 1..Len(q) /\ i + 1 # 1 /\ 1 \in 1..Len(q)
  BY TailTyped
<1>2. OneRestores(Tail(q)) BY <1>1, TailTyped DEF OneRestores
<1>3. ASSUME Head(q).restores PROVE NoRestores(Tail(q))
  BY <1>1, <1>3, TailTyped DEF OneRestores, NoRestores
<1>4. ASSUME NoRestores(q) PROVE NoRestores(Tail(q))
  BY <1>1, <1>4, TailTyped DEF NoRestores
<1> QED BY <1>2, <1>3, <1>4

LEMMA RestoresAppend ==
    ASSUME NEW q \in Seq(Statement), NEW s \in Statement
    PROVE  /\ OneRestores(q) /\ (NoRestores(q) \/ ~s.restores) => OneRestores(Append(q, s))
           /\ NoRestores(q) /\ ~s.restores => NoRestores(Append(q, s))
<1>1. \A i \in 1..Len(Append(q, s)) :
        \/ i \in 1..Len(q) /\ Append(q, s)[i] = q[i]
        \/ i = Len(q) + 1 /\ Append(q, s)[i] = s
  BY AppendTyped
<1> QED BY <1>1 DEF OneRestores, NoRestores

\* A caller that goes on restoring, with a queue that holds no such statement.
LEMMA RestoreStep ==
    ASSUME LInv, NEW w \in Callers, NEW has \in SUBSET Channels,
           NEW q \in Seq(Statement), NoRestores(q), OneRestores(q),
           pc[w] # "idle", Restore(w, has, q), ~stopping,
           UNCHANGED <<shuttingDown, stopping, starts>>,
           client' \in open', open' \subseteq {client'}
    PROVE  /\ OneClient' /\ OneCaller' /\ StopsAlone' /\ NothingBefore'
           /\ RestorerWaits' /\ HealthyConnected'
<1> USE DEF LInv, Callers
<1>1. \A v \in Callers : v # w => pc[v] = "idle"
  BY DEF OneCaller
<1>2. ~healthy /\ starts # 0
  BY DEF OneCaller, NothingBefore
<1>3. CASE Connected(w) /\ queue' = q
  <2>1. \A v \in Callers : pc'[v] = "idle"
    BY <1>1, <1>3 DEF Connected, TypeOK
  <2>2. OneCaller'
    BY <2>1, <1>1, <1>3 DEF OneCaller, Connected
  <2>3. RestorerWaits' BY <1>3 DEF RestorerWaits
  <2> QED BY <2>1, <2>2, <2>3, <1>2 DEF OneClient, StopsAlone, NothingBefore, HealthyConnected
<1>4. ASSUME NEW c \in Subscribed \ has, queue' = Append(q, Stmt("LISTEN", c, TRUE)),
             pc' = [pc EXCEPT ![w] = "restoring"],
             UNCHANGED <<healthy, started, reconnecting>>
      PROVE  /\ OneClient' /\ OneCaller' /\ StopsAlone' /\ NothingBefore'
             /\ RestorerWaits' /\ HealthyConnected'
  <2>1. pc'[w] = "restoring" /\ \A v \in Callers : v # w => pc'[v] = "idle"
    BY <1>1, <1>4 DEF TypeOK
  <2>2. OneCaller' BY <2>1, <1>1, <1>2, <1>4 DEF OneCaller
  <2>3. Stmt("LISTEN", c, TRUE) \in Statement BY StmtTyped DEF Subscribed
  <2>4. RestorerWaits' BY <1>4, <2>1, <2>3, RestoresAppend DEF RestorerWaits
  <2> QED BY <1>2, <1>4, <2>1, <2>2, <2>4
          DEF OneClient, StopsAlone, NothingBefore, HealthyConnected
<1> QED BY <1>3, <1>4 DEF Restore

\* A connection that breaks while it is listened on.
LEMMA LoseStep ==
    ASSUME LInv, Lose
    PROVE  /\ OneClient' /\ OneCaller' /\ StopsAlone' /\ NothingBefore'
           /\ RestorerWaits' /\ HealthyConnected'
<1> USE DEF LInv, Callers, flags
<1>1. client # NoClient /\ ~stopping /\ starts # 0 /\ open' = {}
  BY NoClientAssumption DEF Lose, TypeOK, OneClient, StopsAlone, NothingBefore
<1>2. RestorerWaits'
  BY DEF Lose, Rejected, RestorerWaits, OneRestores, NoRestores
<1>3. \A w \in Callers : pc[w] \in {"idle", "restoring"}
  BY <1>1 DEF OneClient, TypeOK, Labels
<1>4. CASE IgnoresDisconnect
  <2>1. \A w \in Callers : pc'[w] = IF pc[w] = "restoring" THEN "failing" ELSE pc[w]
    BY <1>4 DEF Lose, TypeOK
  <2>2. OneCaller'
    BY <2>1, <1>4 DEF Lose, OneCaller
  <2>3. OneClient'
    BY <2>1, <1>1, <1>3, <1>4 DEF Lose, OneClient
  <2>4. HealthyConnected'
    BY <1>1, <1>4 DEF Lose, HealthyConnected, OneCaller, IgnoresDisconnect
  <2> QED BY <1>1, <1>2, <2>2, <2>3, <2>4 DEF Lose, StopsAlone, NothingBefore
<1>5. CASE ~IgnoresDisconnect
  <2>1. pc'["reconnect"] = "cleaning" /\ pc'["start"] = "idle"
    BY <1>3, <1>5 DEF Lose, TypeOK
  <2>2. OneCaller' BY <2>1, <1>5 DEF Lose, OneCaller
  <2> QED BY <1>1, <1>2, <1>5, <2>1, <2>2
          DEF Lose, OneClient, HealthyConnected, StopsAlone, NothingBefore
<1> QED BY <1>4, <1>5

\* stop(), and the rest of it.
LEMMA StopStep ==
    ASSUME LInv, Stop \/ Stopped
    PROVE  /\ OneClient' /\ OneCaller' /\ StopsAlone' /\ NothingBefore'
           /\ RestorerWaits' /\ HealthyConnected'
<1> USE DEF LInv, Callers, StopDone
<1>1. CASE Stop
  <2>1. /\ pc'["reconnect"] = IF pc["reconnect"] = "waiting" THEN "idle" ELSE pc["reconnect"]
        /\ pc'["start"] = "idle" /\ pc["start"] = "idle"
    BY <1>1 DEF Stop, TypeOK, OneCaller
  <2>2. starts # 0 /\ client' = NoClient /\ open' \subseteq {client'}
    BY <1>1 DEF Stop, NothingBefore, OneClient
  <2>3. OneCaller' BY <1>1, <2>1 DEF Stop, OneCaller
  <2>4. StopsAlone' BY <1>1, <2>1 DEF Stop, StopsAlone, OneClient, TypeOK, Labels
  <2>5. RestorerWaits' BY <1>1, <2>1 DEF Stop, RestorerWaits
  <2> QED BY <1>1, <2>2, <2>3, <2>4, <2>5 DEF Stop, OneClient, HealthyConnected, NothingBefore
<1>2. CASE Stopped
  <2>1. /\ pc'["start"] = "idle" /\ pc'["reconnect"] \in {"idle", "waiting"}
        /\ client' = NoClient
    BY <1>2 DEF Stopped, StopsAlone, TypeOK
  <2>2. RestorerWaits'
    BY <1>2 DEF Stopped, Rejected, RestorerWaits, OneRestores, NoRestores
  <2>3. starts # 0 /\ shuttingDown
    BY <1>2 DEF Stopped, StopsAlone, NothingBefore
  <2>4. OneCaller' BY <1>2, <2>1, <2>3 DEF Stopped, OneCaller, StopsAlone, TypeOK
  <2> QED BY <1>2, <2>1, <2>2, <2>3, <2>4
          DEF Stopped, OneClient, HealthyConnected, StopsAlone, NothingBefore
<1> QED BY <1>1, <1>2

LEMMA ConnectionStep ==
    ASSUME MaxStarts <= 1, LInv, [Next]_vars
    PROVE  LInv'
<1> USE DEF LInv, Callers, flags
<1>t. TypeOK' BY TypeStep
<1> DEFINE Rest == /\ OneClient' /\ OneCaller' /\ StopsAlone' /\ NothingBefore'
                   /\ RestorerWaits' /\ HealthyConnected'
<1> SUFFICES Rest
  BY <1>t
<1> USE DEF OneClient, OneCaller, StopsAlone, NothingBefore, HealthyConnected
<1>1. ASSUME NEW c \in Channels, NEW h \in Handlers,
             Subscribe(c, h) \/ Unsubscribe(c, h)
      PROVE  Rest
  <2>1. \/ queue' = queue
        \/ \E sql \in {"LISTEN", "UNLISTEN"} : queue' = Append(queue, Stmt(sql, c, FALSE))
    BY <1>1 DEF Subscribe, Unsubscribe
  <2>2. \A sql \in {"LISTEN", "UNLISTEN"} :
          Stmt(sql, c, FALSE) \in Statement /\ ~Stmt(sql, c, FALSE).restores
    BY StmtTyped DEF Stmt
  <2>3. UNCHANGED <<client, open, pc, healthy, started, reconnecting, shuttingDown,
                    stopping, starts>>
    BY <1>1 DEF Subscribe, Unsubscribe
  <2>4. RestorerWaits' BY <2>1, <2>2, <2>3, RestoresAppend DEF RestorerWaits, TypeOK
  <2> QED BY <2>3, <2>4
<1>2. ASSUME NEW w \in Callers, CreateOk(w) PROVE Rest
  <2>1. client = NoClient /\ open = {} /\ ~stopping
    BY <1>2, NoClientAssumption DEF CreateOk, TypeOK
  <2>2. NoRestores(queue) BY <1>2 DEF CreateOk, RestorerWaits
  <2>3. client' \in open' /\ open' \subseteq {client'} BY <1>2, <2>1 DEF CreateOk
  <2>4. /\ pc[w] # "idle" /\ Restore(w, {}, queue)
        /\ UNCHANGED <<shuttingDown, stopping, starts>>
    BY <1>2 DEF CreateOk
  <2> HIDE DEF OneClient, OneCaller, StopsAlone, NothingBefore, HealthyConnected, LInv
  <2>5. queue \in Seq(Statement) /\ OneRestores(queue) BY DEF LInv, TypeOK, RestorerWaits
  <2> QED BY <2>1, <2>2, <2>3, <2>4, <2>5, RestoreStep
<1>3. ASSUME NEW w \in Callers, CreateFails(w) \/ CleanedUp(w) PROVE Rest
  <2>1. /\ pc' = [pc EXCEPT ![w] = IF w = "start" THEN "idle" ELSE "waiting"]
        /\ client = NoClient /\ pc[w] # "idle" /\ pc[w] # "restoring" /\ starts # 0
    BY <1>3 DEF CreateFails, CleanedUp, Threw
  <2>2. RestorerWaits' BY <1>3, <2>1 DEF CreateFails, CleanedUp, RestorerWaits, TypeOK
  <2> QED BY <1>3, <2>1, <2>2 DEF CreateFails, CleanedUp, Threw, TypeOK
<1>4. CASE Listens
  <2>1. client # NoClient /\ ~stopping
    BY <1>4, NoClientAssumption DEF Listens, TypeOK
  <2>2. /\ OneRestores(Tail(queue)) /\ Tail(queue) \in Seq(Statement)
        /\ Head(queue).restores \/ NoRestores(queue) => NoRestores(Tail(queue))
        /\ Head(queue) \in Statement
    BY <1>4, RestoresTail, TailTyped DEF Listens, RestorerWaits, TypeOK
  <2>3. CASE ~Head(queue).restores
    BY <1>4, <2>2, <2>3 DEF Listens, RestorerWaits
  <2>4. CASE Head(queue).restores
    <3>1. PICK w \in Callers : pc[w] = "restoring" /\ Restore(w, listening', Tail(queue))
      BY <1>4, <2>4 DEF Listens
    <3>2. /\ client' \in open' /\ open' \subseteq {client'}
          /\ UNCHANGED <<shuttingDown, stopping, starts>>
      BY <1>4 DEF Listens
    <3>3. listening' \in SUBSET Channels BY <1>t DEF TypeOK
    <3>4. NoRestores(Tail(queue)) BY <2>2, <2>4
    <3> HIDE DEF OneClient, OneCaller, StopsAlone, NothingBefore, HealthyConnected, LInv
    <3> QED BY <2>1, <2>2, <3>1, <3>2, <3>3, <3>4, RestoreStep
  <2> QED BY <2>3, <2>4
<1>5. CASE Unlistens
  BY <1>5, RestoresTail DEF Unlistens, RestorerWaits, TypeOK
<1>6. CASE Refuses
  <2>1. client # NoClient /\ ~stopping /\ starts # 0
    BY <1>6, NoClientAssumption DEF Refuses, TypeOK
  <2>2. /\ OneRestores(Tail(queue))
        /\ Head(queue).restores \/ NoRestores(queue) => NoRestores(Tail(queue))
    BY <1>6, RestoresTail DEF Refuses, RestorerWaits, TypeOK
  <2>3. CASE UNCHANGED <<pc, client, open>>
    BY <1>6, <2>2, <2>3 DEF Refuses, RestorerWaits
  <2>4. CASE /\ Head(queue).restores /\ client' = NoClient /\ open' = open \ {client}
             /\ pc' = [w \in Callers |-> IF pc[w] = "restoring" THEN "failing" ELSE pc[w]]
    <3>0. ~healthy
      <4>1. ~NoRestores(queue) BY <1>6, <2>4, TailTyped DEF Refuses, TypeOK, NoRestores
      <4> QED BY <4>1 DEF RestorerWaits
    <3>1. RestorerWaits' BY <1>6, <2>2, <2>4 DEF Refuses, RestorerWaits
    <3>2. OneCaller' BY <1>6, <2>4 DEF Refuses
    <3>3. HealthyConnected'
      BY <1>6, <2>4, <3>0 DEF Refuses
    <3> QED BY <1>6, <2>1, <2>4, <3>1, <3>2, <3>3 DEF Refuses
  <2> QED BY <1>6, <2>3, <2>4 DEF Refuses
<1>7. CASE Lose BY <1>7, LoseStep
<1>8. CASE RefusedUnsent
  <2>1. RestorerWaits'
    BY <1>8 DEF RefusedUnsent, Rejected, RestorerWaits, OneRestores, NoRestores
  <2> QED BY <1>8, <2>1 DEF RefusedUnsent
<1>9. CASE Reconnect \/ Retry
  <2>1. /\ pc' = [pc EXCEPT !["reconnect"] = IF shuttingDown THEN "idle" ELSE "creating"]
        /\ client = NoClient /\ starts # 0 /\ ~healthy /\ pc["start"] = "idle"
        /\ pc["reconnect"] \in {"cleaning", "waiting"}
    BY <1>9 DEF Reconnect, Retry, LoopAgain
  <2>2. RestorerWaits' BY <1>9, <2>1 DEF Reconnect, Retry, RestorerWaits, TypeOK
  <2> QED BY <1>9, <2>1, <2>2 DEF Reconnect, Retry, TypeOK
<1>10. CASE Start
  <2>1. starts = 0 BY <1>10, BoundsAssumption DEF Start, TypeOK
  <2>2. starts' # 0 BY <1>10, <2>1 DEF Start
  <2>3. RestorerWaits' BY <1>10, <2>1 DEF Start, RestorerWaits, TypeOK
  <2> QED BY <1>10, <2>1, <2>2, <2>3 DEF Start, TypeOK
<1>11. CASE Stop \/ Stopped BY <1>11, StopStep
<1>12. CASE UNCHANGED vars BY <1>12 DEF vars, RestorerWaits
<1> QED BY <1>1, <1>2, <1>3, <1>4, <1>5, <1>6, <1>7, <1>8, <1>9, <1>10, <1>11,
           <1>12 DEF Next

LEMMA ConnectionInvariant == ASSUME MaxStarts <= 1 PROVE Spec => []LInv
<1>1. ASSUME Init PROVE LInv
  <2>1. TypeOK BY <1>1, TypeInit
  <2>2. RestorerWaits BY <1>1 DEF Init, RestorerWaits, OneRestores, NoRestores
  <2> QED BY <1>1, <2>1, <2>2 DEF Init, LInv, OneClient, OneCaller, StopsAlone,
                                  NothingBefore, HealthyConnected, Callers
<1>2. LInv /\ [Next]_vars => LInv' BY ConnectionStep
<1> QED BY <1>1, <1>2, PTL DEF Spec

\* A listener started once that calls itself healthy is connected, whatever
\* connect and reconnect awaited when the connection was lost.
THEOREM Healthy == ASSUME MaxStarts <= 1 PROVE Spec => []HealthyConnected
BY ConnectionInvariant, PTL DEF LInv

\* No connection is left behind by start, reconnect and handleDisconnect.
THEOREM OneOpen == ASSUME MaxStarts <= 1 PROVE Spec => []OneConnection
<1>1. LInv => OneConnection BY DEF LInv, OneClient, OneConnection
<1> QED BY <1>1, ConnectionInvariant, PTL

\* After stop() was called nobody asks for a connection any more.
THEOREM StopsForGood == ASSUME MaxStarts <= 1 PROVE Spec => NoLateConnect
<1> DEFINE Late == \A w \in Callers :
                     shuttingDown /\ pc'[w] = "creating" => pc[w] = "creating"
<1>1. LInv /\ [Next]_vars => [Late]_vars
  <2> SUFFICES ASSUME LInv, Next, shuttingDown, NEW w \in Callers, pc'[w] = "creating",
                      pc[w] # "creating"
               PROVE  FALSE
    OBVIOUS
  <2> USE DEF LInv, TypeOK, Callers
  <2>1. CASE Reconnect \/ Retry BY <2>1 DEF Reconnect, Retry, LoopAgain
  <2>2. CASE Start BY <2>2, BoundsAssumption DEF Start, NothingBefore
  <2>3. CASE \E v \in Callers : CreateOk(v) \/ CreateFails(v) \/ CleanedUp(v)
    BY <2>3 DEF CreateOk, CreateFails, CleanedUp, Threw, Restore, Connected
  <2>4. CASE Listens BY <2>4 DEF Listens, Restore, Connected
  <2>5. CASE Lose \/ Refuses BY <2>5 DEF Lose, Refuses
  <2>6. CASE Stop \/ Stopped BY <2>6 DEF Stop, Stopped
  <2>7. CASE \/ Unlistens \/ RefusedUnsent
            \/ \E c \in Channels, h \in Handlers : Subscribe(c, h) \/ Unsubscribe(c, h)
    BY <2>7 DEF Unlistens, RefusedUnsent, Subscribe, Unsubscribe
  <2> QED BY <2>1, <2>2, <2>3, <2>4, <2>5, <2>6, <2>7 DEF Next
<1> QED BY <1>1, ConnectionInvariant, PTL DEF Spec, NoLateConnect

-----------------------------------------------------------------------------
(* Subscriptions *)

WaitingIn(q, sql) == {q[i].channel : i \in {j \in DOMAIN q : q[j].sql = sql}}

\* No channel with a subscription waits to be given up.
NoneGivenUp == Subscribed \cap Waiting("UNLISTEN") = {}

SInv == LInv /\ ListeningTrue /\ Served /\ NoneGivenUp

LEMMA WaitingTail ==
    ASSUME NEW q \in Seq(Statement), q # <<>>, NEW sql
    PROVE  /\ WaitingIn(Tail(q), sql) \subseteq WaitingIn(q, sql)
           /\ Head(q).sql = sql => Head(q).channel \in WaitingIn(q, sql)
           /\ \A c \in WaitingIn(q, sql) :
                c \in WaitingIn(Tail(q), sql) \/ (Head(q).sql = sql /\ c = Head(q).channel)
<1>1. DOMAIN q = 1..Len(q) /\ DOMAIN Tail(q) = 1..Len(Tail(q))
  BY TailTyped
<1>2. \A i \in DOMAIN Tail(q) : i + 1 \in DOMAIN q /\ Tail(q)[i] = q[i + 1]
  BY <1>1, TailTyped
<1>3. \A i \in DOMAIN q : i = 1 \/ (i - 1 \in DOMAIN Tail(q) /\ Tail(q)[i - 1] = q[i])
  BY <1>1, TailTyped
<1>4. Head(q) = q[1] /\ 1 \in DOMAIN q BY <1>1, TailTyped
<1>5. ASSUME NEW c \in WaitingIn(Tail(q), sql) PROVE c \in WaitingIn(q, sql)
  <2>1. PICK i \in DOMAIN Tail(q) : Tail(q)[i].sql = sql /\ c = Tail(q)[i].channel
    BY <1>5 DEF WaitingIn
  <2> QED BY <1>2, <2>1 DEF WaitingIn
<1>6. ASSUME NEW c \in WaitingIn(q, sql)
      PROVE  c \in WaitingIn(Tail(q), sql) \/ (Head(q).sql = sql /\ c = Head(q).channel)
  <2>1. PICK i \in DOMAIN q : q[i].sql = sql /\ c = q[i].channel
    BY <1>6 DEF WaitingIn
  <2>2. CASE i = 1 BY <1>4, <2>1, <2>2
  <2>3. CASE i # 1
    <3>1. i - 1 \in DOMAIN Tail(q) /\ Tail(q)[i - 1] = q[i] BY <1>3, <2>3
    <3> QED BY <2>1, <3>1 DEF WaitingIn
  <2> QED BY <2>2, <2>3
<1>7. Head(q).sql = sql => Head(q).channel \in WaitingIn(q, sql)
  BY <1>4 DEF WaitingIn
<1> QED BY <1>5, <1>6, <1>7

LEMMA WaitingAppend ==
    ASSUME NEW q \in Seq(Statement), NEW s \in Statement, NEW sql
    PROVE  WaitingIn(Append(q, s), sql)
             = WaitingIn(q, sql) \cup (IF s.sql = sql THEN {s.channel} ELSE {})
<1>1. DOMAIN q = 1..Len(q) /\ DOMAIN Append(q, s) = 1..(Len(q) + 1) /\ Len(q) \in Nat
  BY AppendTyped
<1>2. \A i \in DOMAIN q : i \in DOMAIN Append(q, s) /\ Append(q, s)[i] = q[i]
  BY <1>1, AppendTyped
<1>3. Len(q) + 1 \in DOMAIN Append(q, s) /\ Append(q, s)[Len(q) + 1] = s
  BY <1>1, AppendTyped
<1>4. \A i \in DOMAIN Append(q, s) : i \in DOMAIN q \/ i = Len(q) + 1
  BY <1>1
<1>5. ASSUME NEW c \in WaitingIn(Append(q, s), sql)
      PROVE  c \in WaitingIn(q, sql) \/ (s.sql = sql /\ c = s.channel)
  <2>1. PICK i \in DOMAIN Append(q, s) : Append(q, s)[i].sql = sql /\ c = Append(q, s)[i].channel
    BY <1>5 DEF WaitingIn
  <2>2. CASE i \in DOMAIN q BY <1>2, <2>1, <2>2 DEF WaitingIn
  <2>3. CASE i = Len(q) + 1 BY <1>3, <2>1, <2>3
  <2> QED BY <1>4, <2>2, <2>3
<1>6. ASSUME NEW c \in WaitingIn(q, sql) PROVE c \in WaitingIn(Append(q, s), sql)
  <2>1. PICK i \in DOMAIN q : q[i].sql = sql /\ c = q[i].channel
    BY <1>6 DEF WaitingIn
  <2> QED BY <1>2, <2>1 DEF WaitingIn
<1>7. s.sql = sql => s.channel \in WaitingIn(Append(q, s), sql)
  BY <1>3 DEF WaitingIn
<1> QED BY <1>5, <1>6, <1>7

\* A caller that goes on restoring gives up no channel and, once it is healthy,
\* has every one.
LEMMA RestoreServes ==
    ASSUME SInv, NEW w \in Callers, NEW has \in SUBSET Channels,
           NEW q \in Seq(Statement), pc[w] # "idle", Restore(w, has, q),
           WaitingIn(q, "UNLISTEN") \subseteq Waiting("UNLISTEN"),
           has \subseteq heard'[client'], subs' = subs
    PROVE  Served' /\ NoneGivenUp'
<1> USE DEF SInv
<1>1. ~healthy BY DEF LInv, OneCaller
<1>2. Subscribed' = Subscribed BY DEF Subscribed
<1>3. CASE Subscribed \subseteq has /\ queue' = q
  <2>1. Served' BY <1>2, <1>3 DEF Served
  <2>2. NoneGivenUp' BY <1>2, <1>3 DEF NoneGivenUp, Waiting, WaitingIn
  <2> QED BY <2>1, <2>2
<1>4. ASSUME NEW c \in Subscribed \ has, queue' = Append(q, Stmt("LISTEN", c, TRUE)),
             healthy' = healthy
      PROVE  Served' /\ NoneGivenUp'
  <2>1. Served' BY <1>1, <1>4 DEF Served
  <2>2. Stmt("LISTEN", c, TRUE) \in Statement BY StmtTyped DEF Subscribed
  <2>3. WaitingIn(queue', "UNLISTEN") = WaitingIn(q, "UNLISTEN")
    <3>1. Stmt("LISTEN", c, TRUE).sql # "UNLISTEN" BY DEF Stmt
    <3>2. \A x \in Statement : WaitingIn(Append(q, x), "UNLISTEN")
             = WaitingIn(q, "UNLISTEN") \cup (IF x.sql = "UNLISTEN" THEN {x.channel} ELSE {})
      BY WaitingAppend
    <3>3. WaitingIn(Append(q, Stmt("LISTEN", c, TRUE)), "UNLISTEN") = WaitingIn(q, "UNLISTEN")
      BY <2>2, <3>1, <3>2
    <3> QED BY <1>4, <3>3
  <2>4. Waiting("UNLISTEN")' = WaitingIn(queue', "UNLISTEN") BY DEF Waiting, WaitingIn
  <2>5. NoneGivenUp' BY <1>2, <2>3, <2>4 DEF NoneGivenUp
  <2> QED BY <2>1, <2>5
<1> QED BY <1>3, <1>4 DEF Restore

LEMMA SubscribeServes ==
    ASSUME SInv, ~Overlap, NEW c \in Channels, NEW h \in Handlers,
           Subscribe(c, h) \/ Unsubscribe(c, h)
    PROVE  ListeningTrue' /\ Served' /\ NoneGivenUp'
<1> USE DEF SInv, LInv, TypeOK
<1>1. UNCHANGED <<client, open, heard, listening, healthy, refused>>
  BY DEF Subscribe, Unsubscribe
<1>2. ListeningTrue' BY <1>1 DEF ListeningTrue
<1>3. \A sql : Waiting(sql) = WaitingIn(queue, sql) /\ Waiting(sql)' = WaitingIn(queue', sql)
  BY DEF Waiting, WaitingIn
<1>4. CASE Subscribe(c, h)
  <2>1. Subscribed' = Subscribed \cup {c} BY <1>4 DEF Subscribe, Subscribed
  <2>2. c \notin Waiting("UNLISTEN") BY <1>4 DEF Subscribe
  <2>3. CASE healthy /\ MustListen(c) /\ queue' = Append(queue, Stmt("LISTEN", c, FALSE))
    <3>1. Stmt("LISTEN", c, FALSE) \in Statement BY StmtTyped
    <3>2. \A sql : Waiting(sql)' =
                    Waiting(sql) \cup (IF sql = "LISTEN" THEN {c} ELSE {})
      BY <1>3, <2>3, <3>1, WaitingAppend DEF Stmt
    <3> QED BY <1>1, <1>2, <2>1, <2>2, <3>2 DEF Served, NoneGivenUp
  <2>4. CASE ~(healthy /\ MustListen(c)) /\ queue' = queue
    <3>1. \A sql : Waiting(sql)' = Waiting(sql) BY <1>3, <2>4
    <3>2. healthy /\ client \in open => c \in heard[client]
      BY <2>4, NoClientAssumption DEF MustListen, ListeningTrue
    <3> QED BY <1>1, <1>2, <2>1, <2>2, <3>1, <3>2 DEF Served, NoneGivenUp
  <2> QED BY <1>4, <2>3, <2>4 DEF Subscribe
<1>5. CASE Unsubscribe(c, h)
  <2>1. Subscribed' \subseteq Subscribed BY <1>5 DEF Unsubscribe, Subscribed
  <2>2. CASE subs[c] = {h} /\ queue' = Append(queue, Stmt("UNLISTEN", c, FALSE))
    <3>1. Stmt("UNLISTEN", c, FALSE) \in Statement BY StmtTyped
    <3>2. \A sql : Waiting(sql)' =
                    Waiting(sql) \cup (IF sql = "UNLISTEN" THEN {c} ELSE {})
      BY <1>3, <2>2, <3>1, WaitingAppend DEF Stmt
    <3>3. c \notin Subscribed' BY <1>5, <2>2 DEF Unsubscribe, Subscribed
    <3> QED BY <1>1, <1>2, <2>1, <3>2, <3>3 DEF Served, NoneGivenUp
  <2>3. CASE queue' = queue
    <3>1. \A sql : Waiting(sql)' = Waiting(sql) BY <1>3, <2>3
    <3> QED BY <1>1, <1>2, <2>1, <3>1 DEF Served, NoneGivenUp
  <2> QED BY <1>5, <2>2, <2>3 DEF Unsubscribe
<1> QED BY <1>4, <1>5

LEMMA AnswerServes ==
    ASSUME SInv, Listens \/ Unlistens \/ Refuses
    PROVE  ListeningTrue' /\ Served' /\ NoneGivenUp'
<1> USE DEF SInv, LInv, TypeOK
<1> DEFINE top == Head(queue)
<1>1. /\ client \in Conns /\ client \in open /\ open \subseteq {client}
      /\ queue \in Seq(Statement) /\ queue # <<>> /\ top \in Statement
      /\ Subscribed' = Subscribed /\ subs' = subs
  BY TailTyped DEF Listens, Unlistens, Refuses, OneClient, Subscribed, flags
<1>2. \A sql : Waiting(sql) = WaitingIn(queue, sql) /\ Waiting(sql)' = WaitingIn(queue', sql)
  BY DEF Waiting, WaitingIn
<1>3. \A sql : /\ WaitingIn(Tail(queue), sql) \subseteq Waiting(sql)
               /\ top.sql = sql => top.channel \in Waiting(sql)
               /\ \A c \in Waiting(sql) :
                    c \in WaitingIn(Tail(queue), sql) \/ (top.sql = sql /\ c = top.channel)
  BY <1>1, <1>2, WaitingTail
<1>4. top.channel \in Channels BY <1>1 DEF Statement
<1>5. CASE Listens
  <2>1. /\ heard' = [heard EXCEPT ![client] = @ \cup {top.channel}]
        /\ listening' = listening \cup {top.channel} /\ refused' = refused \ {top.channel}
        /\ client' = client /\ open' = open
    BY <1>5 DEF Listens
  <2>2. heard'[client] = heard[client] \cup {top.channel} BY <1>1, <2>1
  <2>3. ListeningTrue' BY <1>1, <2>1, <2>2 DEF ListeningTrue
  <2>4. CASE top.restores
    <3>1. PICK w \in Callers : pc[w] = "restoring" /\ Restore(w, listening', Tail(queue))
      BY <1>5, <2>4 DEF Listens
    <3>2. listening' \subseteq heard'[client'] BY <1>1, <2>1, <2>3 DEF ListeningTrue
    <3>3. listening' \in SUBSET Channels BY <1>4, <2>1
    <3>4. Tail(queue) \in Seq(Statement) BY <1>1
    <3>5. WaitingIn(Tail(queue), "UNLISTEN") \subseteq Waiting("UNLISTEN") BY <1>3
    <3>6. subs' = subs BY <1>1
    <3> HIDE DEF SInv, LInv, TypeOK
    <3> QED BY <2>3, <3>1, <3>2, <3>3, <3>4, <3>5, <3>6, RestoreServes
  <2>5. CASE ~top.restores
    <3>1. queue' = Tail(queue) /\ UNCHANGED healthy BY <1>5, <2>5 DEF Listens
    <3>2. Served' BY <1>1, <1>2, <1>3, <2>1, <2>2, <3>1 DEF Served
    <3>3. NoneGivenUp' BY <1>1, <1>2, <1>3, <3>1 DEF NoneGivenUp
    <3> QED BY <2>3, <3>2, <3>3
  <2> QED BY <2>4, <2>5
<1>6. CASE Unlistens
  <2>1. /\ heard' = [heard EXCEPT ![client] = @ \ {top.channel}]
        /\ listening' = listening \ {top.channel}
        /\ queue' = Tail(queue) /\ top.sql = "UNLISTEN"
        /\ UNCHANGED <<client, open, healthy, refused>>
    BY <1>6 DEF Unlistens
  <2>2. heard'[client] = heard[client] \ {top.channel} BY <1>1, <2>1
  <2>3. top.channel \notin Subscribed BY <1>3, <2>1 DEF NoneGivenUp
  <2>4. ListeningTrue' BY <1>1, <2>1, <2>2 DEF ListeningTrue
  <2>5. Served' BY <1>1, <1>2, <1>3, <2>1, <2>2, <2>3 DEF Served
  <2>6. NoneGivenUp' BY <1>1, <1>2, <1>3, <2>1 DEF NoneGivenUp
  <2> QED BY <2>4, <2>5, <2>6
<1>7. CASE Refuses
  <2>1. queue' = Tail(queue) /\ UNCHANGED <<heard, healthy>> BY <1>7 DEF Refuses
  <2>2. NoneGivenUp' BY <1>1, <1>2, <1>3, <2>1 DEF NoneGivenUp
  <2>3. CASE UNCHANGED <<client, open>>
    <3>1. /\ listening' \subseteq listening
          /\ refused \subseteq refused'
          /\ top.sql = "LISTEN" => top.channel \in refused'
      BY <1>1, <1>7 DEF Refuses, Statement
    <3>2. ListeningTrue' BY <1>1, <2>1, <2>3, <3>1 DEF ListeningTrue
    <3>3. Served' BY <1>1, <1>2, <1>3, <2>1, <2>3, <3>1 DEF Served
    <3> QED BY <2>2, <3>2, <3>3
  <2>4. CASE client' = NoClient /\ open' = open \ {client}
    BY <1>1, <2>2, <2>4 DEF Served, ListeningTrue
  <2> QED BY <1>7, <2>3, <2>4 DEF Refuses
<1> QED BY <1>5, <1>6, <1>7

LEMMA ServeStep ==
    ASSUME MaxStarts <= 1, ~Overlap, SInv, [Next]_vars
    PROVE  SInv'
<1> USE DEF SInv
<1>1. LInv' BY ConnectionStep
<1> SUFFICES ListeningTrue' /\ Served' /\ NoneGivenUp'
  BY <1>1
<1> USE DEF LInv, TypeOK, flags
<1>2. ASSUME NEW c \in Channels, NEW h \in Handlers,
             Subscribe(c, h) \/ Unsubscribe(c, h)
      PROVE  ListeningTrue' /\ Served' /\ NoneGivenUp'
  BY <1>2, SubscribeServes
<1>3. CASE Listens \/ Unlistens \/ Refuses
  BY <1>3, AnswerServes
<1>4. ASSUME NEW w \in Callers, CreateOk(w)
      PROVE  ListeningTrue' /\ Served' /\ NoneGivenUp'
  <2>1. /\ listening' = {} /\ pc[w] # "idle" /\ Restore(w, {}, queue) /\ subs' = subs
    BY <1>4 DEF CreateOk
  <2>2. WaitingIn(queue, "UNLISTEN") \subseteq Waiting("UNLISTEN")
    BY DEF Waiting, WaitingIn
  <2>3. queue \in Seq(Statement) BY DEF TypeOK
  <2>4. Served' /\ NoneGivenUp'
    BY <2>1, <2>2, <2>3, RestoreServes
  <2>5. ListeningTrue' BY <2>1 DEF ListeningTrue
  <2> QED BY <2>4, <2>5
<1>5. CASE Lose \/ RefusedUnsent \/ Stop \/ Stopped
  <2>1. client' \notin open'
    BY <1>5, NoClientAssumption DEF Lose, RefusedUnsent, Stop, Stopped, OneClient, StopsAlone
  <2>2. subs' = subs /\ (queue' = <<>> \/ queue' = queue)
    BY <1>5 DEF Lose, RefusedUnsent, Stop, Stopped, Rejected
  <2>3. NoneGivenUp' BY <2>2 DEF NoneGivenUp, Waiting, Subscribed
  <2> QED BY <2>1, <2>3 DEF ListeningTrue, Served
<1>6. CASE \/ \E w \in Callers : CreateFails(w) \/ CleanedUp(w)
           \/ Reconnect \/ Retry \/ Start \/ UNCHANGED vars
  <2>1. UNCHANGED <<subs, client, open, heard, listening, queue, healthy, refused>>
    BY <1>6 DEF CreateFails, CleanedUp, Reconnect, Retry, Start, vars
  <2>2. /\ Subscribed' = Subscribed
        /\ \A sql : Waiting(sql)' = Waiting(sql)
    BY <2>1 DEF Subscribed, Waiting
  <2> QED BY <2>1, <2>2 DEF ListeningTrue, Served, NoneGivenUp
<1> QED BY <1>2, <1>3, <1>4, <1>5, <1>6 DEF Next

\* When no channel is subscribed while its UNLISTEN waits, every subscription
\* of a healthy listener is served, however often the connection is lost.
THEOREM AllServed ==
    ASSUME MaxStarts <= 1, ~Overlap PROVE Spec => []SubscriptionsServed
<1>1. ASSUME Init, LInv PROVE SInv
  BY <1>1 DEF Init, SInv, ListeningTrue, Served, NoneGivenUp, Subscribed
<1>2. SInv /\ [Next]_vars => SInv' BY ServeStep
<1>3. SInv => SubscriptionsServed BY DEF SInv, SubscriptionsServed
<1> QED BY <1>1, <1>2, <1>3, ConnectionInvariant, PTL DEF Spec
=============================================================================
