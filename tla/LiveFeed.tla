------------------------------ MODULE LiveFeed ------------------------------
(***************************************************************************)
(* The live feed of alerts: the consumer's announcements, the connection   *)
(* manager (ws/manager.py, api/ws_routes.py), the reconnecting client of a *)
(* browser (lib/ws.ts) and the query cache its pages show                  *)
(* (hooks/useRealtimeAlerts.ts), which a refetch replaces while messages   *)
(* change it.  Another browser, the peer, shares the broadcasts and may    *)
(* stop reading.  Messages of other types are ignored by the hook.         *)
(***************************************************************************)
EXTENDS Naturals, Sequences

CONSTANTS
    Seeded,     \* rows of the table at first
    MaxWrites,  \* bound: events that insert a row or fold into one, triages, rows seeded
    MaxFaults,  \* bound: connections lost, deaths of the backend, failed handlers
    Limit,      \* rows a page asks for
    Buffer,     \* messages a connection takes before a send waits
    None

ASSUME BoundAssumption ==
    /\ Seeded \in Nat /\ MaxWrites \in Nat /\ MaxFaults \in Nat
    /\ Limit \in Nat \ {0} /\ Buffer \in Nat \ {0}

Peer == 0
Own == 1..(MaxFaults + 1)  \* sockets the browser makes, one per lost connection at most
Sockets == {Peer} \cup Own

VARIABLES
    table,       \* the alerts table: its rows by triggered_at, newest last
    consumer,    \* where create_or_update_alert is, with its row or its message
    writes,      \* inserts, folds, triages and seeded rows so far
    connections, \* the manager's _connections
    serving,     \* sockets whose ws_alerts waits in receive_text
    queue,       \* per socket: messages sent and not yet received
    sock,        \* per socket: readyState as the browser sees it
    socket,      \* this.socket: the number of the newest socket
    timers,      \* reconnects scheduled
    cache,       \* the page's rows, None before the first
    fetch,       \* the list request: idle, or answered with rows
    faults,      \* faults so far
    clean        \* history: since an answer that raced nothing no connection was lost
                 \* and no row was committed that nobody announces
server == <<table, consumer, writes, connections, serving>>
client == <<socket, timers>>
page == <<cache, fetch>>
vars == <<table, consumer, writes, connections, serving, queue, sock,
          socket, timers, cache, fetch, faults, clean>>

Statuses == {"open", "dismissed"}
Row == [id : Nat \ {0}, score : Nat, status : Statuses]
ASSUME NoneAssumption == None \notin Seq(Row)

Message == [type : {"alert.new", "alert.updated"}, alert : Row]
Idle == [at |-> "idle"]

Smaller(a, b) == IF a <= b THEN a ELSE b

\* list_alerts: the newest rows first.
Listed == [ i \in 1..Smaller(Limit, Len(table)) |-> table[Len(table) + 1 - i] ]

NewRow(id) == [id |-> id, score |-> 0, status |-> "open"]

Init ==
    /\ table = [i \in 1..Seeded |-> NewRow(i)]
    /\ consumer = Idle /\ writes = 0
    /\ connections = {Peer} /\ serving = {Peer}
    /\ queue = [s \in Sockets |-> <<>>]
    /\ sock = [s \in Sockets |-> IF s = Peer THEN "open" ELSE IF s = 1 THEN "connecting" ELSE "none"]
    /\ socket = 1 /\ timers = 0
    /\ cache = None /\ fetch = Idle
    /\ faults = 0 /\ clean = FALSE
-----------------------------------------------------------------------------
(* The table's writers.  The consumer handles one event at a time.         *)

\* A new alert is committed ...
Insert ==
    /\ consumer = Idle /\ writes < MaxWrites
    /\ writes' = writes + 1
    /\ table' = Append(table, NewRow(Len(table) + 1))
    /\ consumer' = [ at |-> "refresh",
                     msg |-> [type |-> "alert.new", alert |-> NewRow(Len(table) + 1)] ]
    /\ UNCHANGED <<connections, serving, queue, sock, client, page, faults, clean>>

\* ... and announced as the refresh reads it, triaged by then or not.
Refresh ==
    /\ consumer.at = "refresh"
    /\ \E i \in DOMAIN table :
         /\ table[i].id = consumer.msg.alert.id
         /\ consumer' = [at |-> "announce", msg |-> [consumer.msg EXCEPT !.alert = table[i]]]
    /\ UNCHANGED <<table, writes, connections, serving, queue, sock, client, page, faults, clean>>

\* The refresh fails, or the answer to the commit is lost: nobody is told.
RefreshFails ==
    /\ consumer.at = "refresh" /\ faults < MaxFaults
    /\ consumer' = Idle
    /\ faults' = faults + 1
    /\ clean' = FALSE
    /\ UNCHANGED <<table, writes, connections, serving, queue, sock, client, page>>

\* A fold reads an open row ...
FoldLoad(i) ==
    /\ consumer = Idle /\ writes < MaxWrites /\ table[i].status = "open"
    /\ writes' = writes + 1
    /\ consumer' = [at |-> "loaded", row |-> table[i]]
    /\ UNCHANGED <<table, connections, serving, queue, sock, client, page,
                   faults, clean>>

Raised(row) == [row EXCEPT !.score = @ + 1]
Folded ==
    [ i \in DOMAIN table |->
        IF table[i].id = consumer.row.id
        THEN [table[i] EXCEPT !.score = Raised(consumer.row).score] ELSE table[i] ]

\* ... and writes the score; the message carries the status that was read
\* (expire_on_commit is off and the row is not refreshed).
FoldCommit ==
    /\ consumer.at = "loaded"
    /\ table' = Folded
    /\ consumer' = [ at |-> "announce",
                     msg |-> [type |-> "alert.updated", alert |-> Raised(consumer.row)] ]
    /\ UNCHANGED <<writes, connections, serving, queue, sock, client, page, faults, clean>>

\* The fold's transaction fails; its commit may have been carried out all the same.
FoldFails ==
    /\ consumer.at = "loaded" /\ faults < MaxFaults
    /\ consumer' = Idle
    /\ faults' = faults + 1
    /\ \/ UNCHANGED <<table, clean>>
       \/ table' = Folded /\ clean' = FALSE
    /\ UNCHANGED <<writes, connections, serving, queue, sock, client, page>>

\* A triage is not announced.
Triage(i) ==
    /\ writes < MaxWrites /\ table[i].status = "open"
    /\ table' = [table EXCEPT ![i].status = "dismissed"]
    /\ writes' = writes + 1
    /\ UNCHANGED <<consumer, connections, serving, queue, sock, client, page, faults, clean>>

\* The seed, a process of its own, commits an open row triggered in the past and
\* announces nothing.  Its rows are one commit; here they come one after another.
SeedInsert(i) ==
    /\ writes < MaxWrites
    /\ table' = SubSeq(table, 1, i) \o <<NewRow(Len(table) + 1)>>
                                    \o SubSeq(table, i + 1, Len(table))
    /\ writes' = writes + 1
    /\ clean' = FALSE
    /\ UNCHANGED <<consumer, connections, serving, queue, sock, client, page, faults>>
-----------------------------------------------------------------------------
(* The connection manager                                                  *)

\* broadcast: the connections are copied under the lock.
Copy ==
    /\ consumer.at = "announce"
    /\ consumer' = IF connections = {} THEN Idle
                   ELSE [at |-> "send", msg |-> consumer.msg, waits |-> connections, failed |-> {}]
    /\ UNCHANGED <<table, writes, connections, serving, queue, sock, client, page,
                   faults, clean>>

HasRoom(s) == Len(queue[s]) < Buffer

\* One send of the gather ends.  The peer takes a message when it reads.
Send(s) ==
    /\ consumer.at = "send" /\ s \in consumer.waits
    /\ sock[s] = "open" /\ HasRoom(s)
    /\ consumer' = [consumer EXCEPT !.waits = @ \ {s}]
    /\ queue' = IF s = Peer THEN queue ELSE [queue EXCEPT ![s] = Append(@, consumer.msg)]
    /\ UNCHANGED <<table, writes, connections, serving, sock, client, page, faults, clean>>

\* Fault: without return_exceptions the first error ends the gather.
FailedEndsAll(s) == [consumer EXCEPT !.waits = {}, !.failed = {s}]

\* Fault: a send to a dead socket is tried again.
FailedRetries(s) == [consumer EXCEPT !.failed = @ \cup {s}]

Failed(s) == [consumer EXCEPT !.waits = @ \ {s}, !.failed = @ \cup {s}]

SendFails(s) ==
    /\ consumer.at = "send" /\ s \in consumer.waits /\ sock[s] = "closed"
    /\ consumer' = Failed(s)
    /\ UNCHANGED <<table, writes, connections, serving, queue, sock, client, page,
                   faults, clean>>

\* The gather is over: dead sockets are discarded, the consumer goes on.
Reap ==
    /\ consumer.at = "send" /\ consumer.waits = {}
    /\ connections' = connections \ consumer.failed
    /\ consumer' = Idle
    /\ UNCHANGED <<table, writes, serving, queue, sock, client, page, faults, clean>>

\* ws_alerts: accept, the registration under the lock, and the wait in receive_text ...
Accept(s) ==
    /\ sock[s] = "connecting"
    /\ sock' = [sock EXCEPT ![s] = "open"]
    /\ connections' = connections \cup {s}
    /\ serving' = serving \cup {s}
    /\ UNCHANGED <<table, consumer, writes, queue, client, page, faults, clean>>

\* ... and, when receive_text finds the socket closed, the finally clause.
Left(s) == connections \ {s}

Leave(s) ==
    /\ s \in serving /\ sock[s] = "closed"
    /\ serving' = serving \ {s}
    /\ connections' = Left(s)
    /\ UNCHANGED <<table, consumer, writes, queue, sock, client, page, faults, clean>>

\* External: uvicorn's keepalive closes a peer that does not answer its pings.
Keepalive ==
    /\ consumer.at = "send" /\ Peer \in consumer.waits /\ sock[Peer] = "open"
    /\ sock' = [sock EXCEPT ![Peer] = "closed"]
    /\ UNCHANGED <<server, queue, client, page, faults, clean>>
-----------------------------------------------------------------------------
(* The browser's connection                                                *)

\* Fault: connect does not look at the socket it has.
MayConnectAlways == TRUE

MayConnect == sock[socket] = "closed"

\* connect(): a new socket, unless the present one is connecting or open.
Connected ==
    IF MayConnect /\ socket < MaxFaults + 1
    THEN /\ socket' = socket + 1
         /\ sock' = [sock EXCEPT ![socket + 1] = "connecting"]
    ELSE UNCHANGED <<socket, sock>>

\* Another page that uses the feed is mounted; the first was, before Init.
Mount ==
    /\ Connected
    /\ UNCHANGED <<server, queue, timers, page, faults, clean>>

TimerFires ==
    /\ timers > 0
    /\ timers' = timers - 1
    /\ Connected
    /\ UNCHANGED <<server, queue, page, faults, clean>>

\* Fault: only a connection that was open is scheduled again.
RescheduledIfOpen(s) == IF sock[s] = "open" THEN timers + 1 ELSE timers

\* onclose; nothing calls disconnect(), so closing is never set.
Rescheduled(s) == timers + 1

\* A connection or an attempt at one is lost with what was under way on it.
Break(s) ==
    /\ faults < MaxFaults /\ sock[s] \in {"connecting", "open"}
    /\ faults' = faults + 1
    /\ sock' = [sock EXCEPT ![s] = "closed"]
    /\ queue' = [queue EXCEPT ![s] = <<>>]
    /\ timers' = Rescheduled(s)
    /\ clean' = FALSE
    /\ UNCHANGED <<server, socket, page>>

\* The backend dies: an announcement under way and all connections are lost.
Die ==
    /\ faults < MaxFaults
    /\ faults' = faults + 1
    /\ consumer' = Idle /\ connections' = {} /\ serving' = {}
    /\ queue' = [s \in Sockets |-> <<>>]
    /\ sock' = [s \in Sockets |-> IF sock[s] = "none" THEN "none" ELSE "closed"]
    /\ timers' = IF sock[socket] # "closed" THEN Rescheduled(socket) ELSE timers
    /\ fetch' = Idle /\ clean' = FALSE
    /\ UNCHANGED <<table, writes, socket, cache>>
-----------------------------------------------------------------------------
(* The page's cache                                                        *)

\* alert.new: prepended, without a look at its id, and cut to the limit.
Prepended(row) ==
    LET next == <<row>> \o (IF cache = None THEN <<>> ELSE cache)
    IN  SubSeq(next, 1, Smaller(Limit, Len(next)))

\* alert.updated: merged into the first row with that id, if there is one.
Merged(row) ==
    IF cache = None THEN None
    ELSE [ i \in DOMAIN cache |->
             IF cache[i].id = row.id /\ \A j \in 1..(i - 1) : cache[j].id # row.id
             THEN row ELSE cache[i] ]

Receive(s) ==
    /\ sock[s] = "open" /\ queue[s] # <<>>
    /\ LET msg == Head(queue[s])
       IN  cache' = IF msg.type = "alert.new" THEN Prepended(msg.alert) ELSE Merged(msg.alert)
    /\ queue' = [queue EXCEPT ![s] = Tail(@)]
    /\ UNCHANGED <<server, sock, client, fetch, faults, clean>>

\* The interval of 30 s: the backend reads its rows, which reach the page later;
\* a request under way is not repeated.
Refetch ==
    /\ fetch = Idle
    /\ fetch' = [at |-> "answered", rows |-> Listed]
    /\ UNCHANGED <<server, queue, sock, client, cache, faults, clean>>

\* Fault: an answer only fills an empty cache.
AnswerKept == IF cache = None THEN fetch.rows ELSE cache

Answer == fetch.rows

\* Nothing is on its way to the page, and it is registered for what will be.
Quiet ==
    /\ consumer.at \in {"idle", "loaded"}
    /\ sock[socket] = "open" /\ socket \in connections
    /\ queue[socket] = <<>>

Shown(rows) == [i \in DOMAIN rows |-> <<rows[i].id, rows[i].score>>]

FetchDone ==
    /\ fetch.at = "answered"
    /\ cache' = Answer
    /\ fetch' = Idle
    /\ clean' = (Quiet /\ Shown(fetch.rows) = Shown(Listed))
    /\ UNCHANGED <<server, queue, sock, client, faults>>
-----------------------------------------------------------------------------
Next ==
    \/ Insert \/ Refresh \/ RefreshFails \/ FoldCommit \/ FoldFails
    \/ \E i \in DOMAIN table : FoldLoad(i) \/ Triage(i)
    \/ \E i \in 0..Len(table) : SeedInsert(i)
    \/ Copy \/ Reap \/ Keepalive
    \/ \E s \in Sockets : Send(s) \/ SendFails(s) \/ Leave(s)
    \/ \E s \in Own : Accept(s) \/ Receive(s) \/ Break(s)
    \/ Mount \/ TimerFires \/ Die
    \/ Refetch \/ FetchDone

\* The event loops of both sides run what is ready, timers and the interval
\* fire, and the peer reads or is dropped.  Nothing is assumed of events,
\* analysts, mounts or faults.
Fairness ==
    /\ WF_vars(Refresh) /\ WF_vars(FoldCommit) /\ WF_vars(Copy) /\ WF_vars(Reap)
    /\ WF_vars(Send(Peer) \/ Keepalive)
    /\ \A s \in Sockets : WF_vars(SendFails(s)) /\ WF_vars(Leave(s))
    /\ \A s \in Own : WF_vars(Send(s)) /\ WF_vars(Accept(s)) /\ WF_vars(Receive(s))
    /\ WF_vars(TimerFires) /\ WF_vars(Refetch \/ FetchDone)

Spec == Init /\ [][Next]_vars /\ Fairness
-----------------------------------------------------------------------------
(* Properties                                                              *)

\* The variables hold what the objects of both sides can hold; a connection
\* never holds more than its buffer, a page never more than its limit.
Rows == {rows \in Seq(Row) : Len(rows) <= Limit}
Queue == {msgs \in Seq(Message) : Len(msgs) <= Buffer}
ConsumerStates ==
    {Idle} \cup [at : {"loaded"}, row : Row] \cup [at : {"refresh", "announce"}, msg : Message]
           \cup [at : {"send"}, msg : Message, waits : SUBSET Sockets, failed : SUBSET Sockets]
TypeOK ==
    /\ table \in Seq(Row) /\ writes \in Nat
    /\ consumer \in ConsumerStates
    /\ connections \subseteq Sockets /\ serving \subseteq Sockets
    /\ sock \in [Sockets -> {"none", "connecting", "open", "closed"}]
    /\ queue \in [Sockets -> Queue]
    /\ socket \in Own /\ timers \in Nat /\ faults \in 0..MaxFaults
    /\ cache \in {None} \cup Rows
    /\ fetch \in {Idle} \cup [at : {"answered"}, rows : Rows]
    /\ clean \in BOOLEAN

\* However mounts, timers and lost connections interleave, the browser has at
\* most one socket that is connecting or open, and it is this.socket.
OneSocket == \A s \in Own : sock[s] \in {"connecting", "open"} => s = socket

\* From an answer that raced nothing on, and until the connection is lost or a row
\* is committed that nobody announces (a failed refresh, a lost answer, the seed's),
\* the messages alone keep the page's rows, their order and their scores equal to
\* the table's, with triages, failed folds and a peer that stalls and leaves
\* meanwhile.
FeedKeepsUp == clean /\ Quiet => Shown(cache) = Shown(Listed)

\* Whatever was lost, overtaken, shown twice or overwritten with a stale status,
\* once the table rests the page shows it, and goes on showing it.
Heals == <>[](cache = Listed)

\* In the end the manager's connections are the open sockets, and the browser's
\* is among them: one that was lost is made again, whatever was scheduled, and a
\* dead one is discarded, with or without a broadcast.
Reconnects == <>[](sock[socket] = "open" /\ connections = {s \in Sockets : sock[s] = "open"})

\* A broadcast ends although a client stops reading or is gone.
BroadcastReturns == (consumer.at = "send") ~> (consumer.at = "idle")
=============================================================================
