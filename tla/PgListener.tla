----------------------------- MODULE PgListener -----------------------------
(***************************************************************************)
(* PgListener: the one connection on which the application LISTENs, the    *)
(* subscriptions it serves, and what keeps both alive: start and stop      *)
(* (called by Nest at bootstrap and shutdown), the disconnect handler and  *)
(* the reconnect loop.  One action is the code between two awaits; what    *)
(* node-postgres does when a connection breaks (the handlers of its events *)
(* run, then every waiting query rejects) is one macrotask, and one action.*)
(***************************************************************************)
EXTENDS Sequences, Naturals

CONSTANTS
    Channels, Handlers,
    Conns,          \* names for connections, used again once closed
    NoClient,
    MaxStarts,      \* how often start() is called
    MaxQueue,       \* bound on the statements callers have waiting at once
    MaxFaults,      \* bound on lost connections and failed calls
    Overlap         \* may a channel be subscribed while its UNLISTEN waits?

ASSUME NoClientAssumption == NoClient \notin Conns
ASSUME BoundsAssumption ==
    MaxStarts \in Nat /\ MaxQueue \in Nat /\ MaxFaults \in Nat /\ Overlap \in BOOLEAN

VARIABLES
    subs,           \* subscriptions: channel -> handlers
    client,         \* this.client
    open,           \* connections established and not ended
    heard,          \* postgres: the channels each connection LISTENs to
    listening,      \* listeningChannels
    queue,          \* statements of the client waiting for their answer
    pc,             \* what start() and the reconnect loop await
    healthy, started, reconnecting, shuttingDown,
    stopping,       \* stop() awaits cleanupClient; the signal is aborted meanwhile
    starts,         \* calls of start() so far
    refused,        \* history: channels whose LISTEN failed on this client
    dead,           \* a rejected promise nobody handles ended the process
    faults

vars == <<subs, client, open, heard, listening, queue, pc, healthy, started,
          reconnecting, shuttingDown, stopping, starts, refused, dead, faults>>

flags == <<started, shuttingDown, stopping, starts>>

-----------------------------------------------------------------------------

Callers == {"start", "reconnect"}

\* cleaning: handleDisconnect awaits cleanupClient; failing: connect's catch does
Labels == {"idle", "cleaning", "creating", "restoring", "failing", "waiting"}

Statement == [sql: {"LISTEN", "UNLISTEN"}, channel: Channels, restores: BOOLEAN]

Stmt(sql, c, r) == [sql |-> sql, channel |-> c, restores |-> r]

Subscribed == {c \in Channels : subs[c] # {}}

Waiting(sql) == {queue[i].channel : i \in {j \in DOMAIN queue : queue[j].sql = sql}}

Fault == faults < MaxFaults /\ faults' = faults + 1

TypeOK ==
    /\ subs \in [Channels -> SUBSET Handlers]
    /\ client \in Conns \cup {NoClient} /\ open \subseteq Conns
    /\ heard \in [Conns -> SUBSET Channels]
    /\ listening \subseteq Channels /\ refused \subseteq Channels
    /\ queue \in Seq(Statement)
    /\ pc \in [Callers -> Labels]
    /\ healthy \in BOOLEAN /\ started \in BOOLEAN /\ reconnecting \in BOOLEAN
    /\ shuttingDown \in BOOLEAN /\ stopping \in BOOLEAN
    /\ dead \in BOOLEAN
    /\ starts \in 0..MaxStarts /\ faults \in 0..MaxFaults

Init ==
    /\ subs = [c \in Channels |-> {}]
    /\ client = NoClient /\ open = {}
    /\ heard = [k \in Conns |-> {}]
    /\ listening = {} /\ refused = {}
    /\ queue = <<>>
    /\ pc = [w \in Callers |-> "idle"]
    /\ healthy = FALSE /\ started = FALSE /\ reconnecting = FALSE
    /\ shuttingDown = FALSE /\ stopping = FALSE
    /\ dead = FALSE /\ starts = 0 /\ faults = 0

-----------------------------------------------------------------------------
(* Subscriptions *)

\* listen() asks for nothing without a client, or for what it has.
MustListen(c) == client # NoClient /\ c \notin listening

Subscribe(c, h) ==
    /\ ~dead /\ h \notin subs[c] /\ Len(queue) < MaxQueue
    /\ Overlap \/ c \notin Waiting("UNLISTEN")
    /\ subs' = [subs EXCEPT ![c] = @ \cup {h}]
    /\ queue' = IF healthy /\ MustListen(c)
                THEN Append(queue, Stmt("LISTEN", c, FALSE)) ELSE queue
    /\ UNCHANGED <<client, open, heard, listening, pc, healthy, reconnecting,
                   flags, refused, dead, faults>>

\* The last handler of a channel takes the channel with it.
Unsubscribe(c, h) ==
    /\ ~dead /\ h \in subs[c] /\ Len(queue) < MaxQueue
    /\ subs' = [subs EXCEPT ![c] = @ \ {h}]
    /\ queue' = IF subs[c] = {h} /\ healthy /\ client # NoClient
                THEN Append(queue, Stmt("UNLISTEN", c, FALSE)) ELSE queue
    /\ UNCHANGED <<client, open, heard, listening, pc, healthy, reconnecting,
                   flags, refused, dead, faults>>

-----------------------------------------------------------------------------
(* connect() *)

\* Mutated form: reconnect returns without its finally.
ConnectedUnfinished(w) ==
    /\ healthy' = TRUE
    /\ pc' = [pc EXCEPT ![w] = "idle"]
    /\ started' = (started \/ w = "start")
    /\ UNCHANGED reconnecting

\* connect() has returned to w.
Connected(w) ==
    /\ healthy' = TRUE
    /\ pc' = [pc EXCEPT ![w] = "idle"]
    /\ started' = (started \/ w = "start")
    /\ reconnecting' = (reconnecting /\ w # "reconnect")

\* restoreSubscriptions goes on: has is listened to, q is waiting.
Restore(w, has, q) ==
    \/ /\ Subscribed \subseteq has
       /\ Connected(w) /\ queue' = q
    \/ \E c \in Subscribed \ has :
       /\ queue' = Append(q, Stmt("LISTEN", c, TRUE))
       /\ pc' = [pc EXCEPT ![w] = "restoring"]
       /\ UNCHANGED <<healthy, started, reconnecting>>

\* Mutated form: the delay's answer read the other way round.
ThrewGivesUp(w) ==
    /\ pc' = [pc EXCEPT ![w] = "idle"]
    /\ started' = (started /\ w # "start")
    /\ reconnecting' = (reconnecting /\ w = "start")

\* connect() has thrown to w: start() throws on, the loop waits 5 s.
Threw(w) ==
    /\ pc' = [pc EXCEPT ![w] = IF w = "start" THEN "idle" ELSE "waiting"]
    /\ started' = (started /\ w # "start")
    /\ UNCHANGED reconnecting

\* Mutated form: listeningChannels is not cleared.
CreateOkUncleared(w) ==
    /\ ~dead /\ pc[w] = "creating"
    /\ \E k \in Conns \ open :
       /\ client' = k /\ open' = open \cup {k}
       /\ heard' = [heard EXCEPT ![k] = {}]
    /\ UNCHANGED listening /\ refused' = {}
    /\ Restore(w, listening, queue)
    /\ UNCHANGED <<subs, shuttingDown, stopping, starts, dead, faults>>

CreateOk(w) ==
    /\ ~dead /\ pc[w] = "creating"
    /\ \E k \in Conns \ open :
       /\ client' = k /\ open' = open \cup {k}
       /\ heard' = [heard EXCEPT ![k] = {}]
    /\ listening' = {} /\ refused' = {}
    /\ Restore(w, {}, queue)
    /\ UNCHANGED <<subs, shuttingDown, stopping, starts, dead, faults>>

CreateFails(w) ==
    /\ ~dead /\ pc[w] = "creating" /\ Fault
    /\ Threw(w)
    /\ UNCHANGED <<subs, client, open, heard, listening, queue, healthy,
                   shuttingDown, stopping, starts, refused, dead>>

\* The connection that could not be restored has been ended.
CleanedUp(w) ==
    /\ ~dead /\ pc[w] = "failing"
    /\ Threw(w)
    /\ UNCHANGED <<subs, client, open, heard, listening, queue, healthy,
                   shuttingDown, stopping, starts, refused, dead, faults>>

-----------------------------------------------------------------------------
(* Answers from postgres, in the order the statements were sent *)

Listens == 
    /\ ~dead /\ client \in open /\ queue # <<>> /\ Head(queue).sql = "LISTEN"
    /\ heard' = [heard EXCEPT ![client] = @ \cup {Head(queue).channel}]
    /\ listening' = listening \cup {Head(queue).channel}
    /\ refused' = refused \ {Head(queue).channel}
    /\ IF Head(queue).restores
       THEN \E w \in Callers : pc[w] = "restoring" /\ Restore(w, listening', Tail(queue))
       ELSE queue' = Tail(queue) /\ UNCHANGED <<pc, healthy, started, reconnecting>>
    /\ UNCHANGED <<subs, client, open, shuttingDown, stopping, starts, dead, faults>>

Unlistens ==
    /\ ~dead /\ client \in open /\ queue # <<>> /\ Head(queue).sql = "UNLISTEN"
    /\ heard' = [heard EXCEPT ![client] = @ \ {Head(queue).channel}]
    /\ listening' = listening \ {Head(queue).channel}
    /\ queue' = Tail(queue)
    /\ UNCHANGED <<subs, client, open, pc, healthy, reconnecting, flags,
                   refused, dead, faults>>

\* Mutated form: connect's catch forgets the client without ending it.
RefusesUncleaned ==
    /\ ~dead /\ client \in open /\ queue # <<>> /\ Fault
    /\ queue' = Tail(queue)
    /\ Head(queue).sql = "LISTEN" /\ Head(queue).restores
    /\ listening' = listening \ {Head(queue).channel}
    /\ refused' = refused \cup {Head(queue).channel}
    /\ pc' = [w \in Callers |-> IF pc[w] = "restoring" THEN "failing" ELSE pc[w]]
    /\ client' = NoClient
    /\ UNCHANGED <<subs, open, dead, heard, healthy, reconnecting, flags>>

\* An error for an answer.  Restoring, it ends the connection; later it is
\* logged; nobody handles the rejection of an UNLISTEN.
Refuses ==
    /\ ~dead /\ client \in open /\ queue # <<>> /\ Fault
    /\ queue' = Tail(queue)
    /\ IF Head(queue).sql = "UNLISTEN"
       THEN dead' = TRUE /\ UNCHANGED <<listening, refused, pc, client, open>>
       ELSE /\ listening' = listening \ {Head(queue).channel}
            /\ refused' = refused \cup {Head(queue).channel}
            /\ IF Head(queue).restores
               THEN /\ pc' = [w \in Callers |->
                              IF pc[w] = "restoring" THEN "failing" ELSE pc[w]]
                    /\ client' = NoClient /\ open' = open \ {client}
               ELSE UNCHANGED <<pc, client, open>>
            /\ UNCHANGED dead
    /\ UNCHANGED <<subs, heard, healthy, reconnecting, flags>>

-----------------------------------------------------------------------------
(* A lost connection *)

\* Every statement waiting is rejected.
Rejected ==
    /\ queue' = <<>>
    /\ listening' = listening \ Waiting("LISTEN")
    /\ dead' = (Waiting("UNLISTEN") # {})

IgnoresDisconnect == shuttingDown \/ reconnecting

\* handleDisconnect up to its await, then the rejections: the connect() that
\* is restoring fails, and start()'s is told so without a client to clean up.
Lose ==
    /\ ~dead /\ client \in open /\ Fault
    /\ open' = open \ {client}
    /\ Rejected
    /\ IF IgnoresDisconnect
       THEN /\ UNCHANGED healthy
            /\ pc' = [w \in Callers |-> IF pc[w] = "restoring" THEN "failing" ELSE pc[w]]
            /\ client' = IF \E w \in Callers : pc[w] = "restoring" THEN NoClient ELSE client
       ELSE /\ healthy' = FALSE /\ client' = NoClient
            /\ pc' = [pc EXCEPT !["reconnect"] = "cleaning",
                                !["start"] = IF @ = "restoring" THEN "idle" ELSE @]
    /\ UNCHANGED <<subs, heard, reconnecting, flags, refused>>

\* A statement sent on a connection that was lost and not replaced.
RefusedUnsent ==
    /\ ~dead /\ client \notin open /\ client # NoClient /\ queue # <<>>
    /\ Rejected
    /\ UNCHANGED <<subs, client, open, heard, pc, healthy, reconnecting, flags,
                   refused, faults>>

\* Mutated form: while (true).
LoopAgainForever(l) == l

\* The while of reconnect().
LoopAgain(l) == IF shuttingDown THEN "idle" ELSE l

\* handleDisconnect has cleaned up and calls reconnect().
Reconnect ==
    /\ ~dead /\ pc["reconnect"] = "cleaning"
    /\ pc' = [pc EXCEPT !["reconnect"] = LoopAgain("creating")]
    /\ reconnecting' = ~shuttingDown
    /\ UNCHANGED <<subs, client, open, heard, listening, queue, healthy, started,
                   shuttingDown, stopping, starts, refused, dead, faults>>

\* The delay has passed.
Retry ==
    /\ ~dead /\ pc["reconnect"] = "waiting"
    /\ pc' = [pc EXCEPT !["reconnect"] = LoopAgain("creating")]
    /\ reconnecting' = ~shuttingDown
    /\ UNCHANGED <<subs, client, open, heard, listening, queue, healthy, flags,
                   refused, dead, faults>>

-----------------------------------------------------------------------------
(* The application's start and stop *)

Start ==
    /\ ~dead /\ ~started /\ pc["start"] = "idle" /\ starts < MaxStarts
    /\ starts' = starts + 1
    /\ pc' = [pc EXCEPT !["start"] = "creating"]
    /\ UNCHANGED <<subs, client, open, heard, listening, queue, healthy, started,
                   reconnecting, shuttingDown, stopping, refused, dead, faults>>

\* The end of stop().
StopDone ==
    /\ started' = FALSE /\ reconnecting' = FALSE /\ stopping' = FALSE

\* stop(), to its end or to where it awaits that the client is ended; the
\* abort ends a delay, and the loop with it.
Stop ==
    /\ ~dead /\ started /\ ~stopping
    /\ shuttingDown' = TRUE /\ healthy' = FALSE
    /\ client' = NoClient /\ open' = open \ {client}
    /\ IF client = NoClient THEN StopDone
       ELSE stopping' = TRUE /\ UNCHANGED <<started, reconnecting>>
    /\ pc' = [pc EXCEPT !["reconnect"] = IF @ = "waiting" THEN "idle" ELSE @]
    /\ UNCHANGED <<subs, heard, listening, queue, starts, refused, dead, faults>>

\* The rest of stop().  Statements that waited have been rejected meanwhile;
\* a reconnection that was restoring sees the aborted signal or the new one.
Stopped ==
    /\ ~dead /\ stopping
    /\ StopDone
    /\ Rejected
    /\ \E l \in {"idle", "waiting"} :
        pc' = [pc EXCEPT !["reconnect"] = IF @ = "restoring" THEN l ELSE @]
    /\ UNCHANGED <<subs, client, open, heard, healthy, shuttingDown, starts, refused, faults>>

-----------------------------------------------------------------------------

Next ==
    \/ \E c \in Channels, h \in Handlers : Subscribe(c, h) \/ Unsubscribe(c, h)
    \/ \E w \in Callers : CreateOk(w) \/ CreateFails(w) \/ CleanedUp(w)
    \/ Listens \/ Unlistens \/ Refuses
    \/ Lose \/ RefusedUnsent \/ Reconnect \/ Retry
    \/ Start \/ Stop \/ Stopped

Spec == Init /\ [][Next]_vars

\* Calls are answered, one way or the other, timers fire, and bootstrap starts
\* the listener; nothing has to be subscribed, fail or be stopped.
Fairness ==
    /\ \A w \in Callers : WF_vars(CreateOk(w) \/ CreateFails(w)) /\ WF_vars(CleanedUp(w))
    /\ WF_vars(Listens \/ Unlistens)
    /\ WF_vars(Reconnect) /\ WF_vars(Retry) /\ WF_vars(Stopped)

FairSpec == Spec /\ Fairness

-----------------------------------------------------------------------------
(* Safety *)

\* A listener that calls itself healthy (isHealthy) has a connection that is
\* up: no loss goes unnoticed, whatever connect and reconnect were awaiting
\* when it came, up to the shutdown.
HealthyConnected == healthy /\ ~shuttingDown => client \in open

\* One connection at most is open: a loss taken up by two of handleDisconnect,
\* start and reconnect would leave one behind, still delivering.
OneConnection == \A j, k \in open : j = k

\* What listeningChannels says is true of the connection, so that listen()
\* skips no LISTEN the server needs: clear, LISTEN and UNLISTEN keep step.
ListeningTrue == client \in open => listening \subseteq heard[client]

\* A healthy listener LISTENs to every channel with a subscription, made
\* before the connection, after it, or while it was being restored, unless the
\* statement waits or postgres refused it.
Served == healthy /\ client \in open =>
    Subscribed \subseteq heard[client] \cup Waiting("LISTEN") \cup refused

\* However the connection is lost and restored, every subscription of a healthy
\* listener is served.
SubscriptionsServed == ListeningTrue /\ Served

-----------------------------------------------------------------------------
(* Action property and liveness *)

\* Once stop() was called nobody asks for a connection: of all that start and
\* reconnect were awaiting then, only a connection already asked for comes.
NoLateConnect ==
    [][\A w \in Callers :
        shuttingDown /\ pc'[w] = "creating" => pc[w] = "creating"]_vars

\* A listener that lost its connection is healthy again, after failed
\* reconnections too, unless it is stopped.
Recovers == started /\ ~healthy ~> healthy \/ shuttingDown \/ dead

=============================================================================
