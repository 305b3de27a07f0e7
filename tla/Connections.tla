----------------------------- MODULE Connections -----------------------------
(***************************************************************************)
(* How the backend process lives with its stores: the best-effort start-up *)
(* and the shutdown of main.py, the clients of Redis and Neo4j that are    *)
(* kept through failed connects, the graph's uniqueness constraints, which *)
(* the seed's process creates too, the readiness request (api/health.py)   *)
(* and the cached attestation of the model gateway, which overlapping      *)
(* requests refresh.  Stores and gateway go and come at any moment.        *)
(***************************************************************************)
EXTENDS Naturals

CONSTANTS
    Asked,     \* requests that may ask for the attestation at a time
    MaxFlips,  \* bound: stores or gateway that go or come
    MaxDeaths, \* bound: crashes and stops of the backend
    MaxWrites  \* bound: writes of an employee's node

ASSUME BoundAssumption == Asked # {} /\ MaxFlips \in Nat /\ MaxDeaths \in Nat /\ MaxWrites \in Nat

Stores == {"postgres", "redis", "neo4j", "kafka"}
Services == Stores \cup {"topic", "gateway"}  \* the topic of the events is a part of Kafka
Deployments == {"nearai", "other"}
Writers == {"consumer", "seed"}

VARIABLES
    deployment,  \* whether LLM_PROVIDER is nearai, with its key
    up,          \* services that answer; the topic, when it exists
    stage,       \* the process: where lifespan is, or "down"
    client,      \* feature_aggregator._client is set
    driver,      \* graph_service._driver is set
    consumer,    \* event_consumer's task: none, running, or ended by a message
    constraints, \* Neo4j has the uniqueness constraints
    nodes,       \* nodes of one employee
    merges,      \* per writer: where its MERGE of that node is
    snapshot,    \* the attestation: "none", "void" or "whole"
    refreshes,   \* per request: where its refresh is, or with what it returned
    ready,       \* the readiness request
    flips, deaths, writes
process == <<stage, client, driver, consumer>>
database == <<constraints, nodes, merges, writes>>
attestation == <<snapshot, refreshes>>
vars == <<deployment, up, process, database, attestation, ready, flips, deaths>>

NoRequest == [at |-> "none"]
BootAsk == CHOOSE r \in Asked : TRUE

Init ==
    /\ deployment \in Deployments
    /\ up \in {Services, Services \ {"topic"}}
    /\ stage = "down" /\ client = FALSE /\ driver = FALSE /\ consumer = "none"
    /\ constraints = FALSE /\ nodes = 0 /\ merges = [w \in Writers |-> "idle"]
    /\ snapshot = "none" /\ refreshes = [r \in Asked |-> "idle"]
    /\ ready = NoRequest
    /\ flips = 0 /\ deaths = 0 /\ writes = 0
-----------------------------------------------------------------------------
(* The services                                                            *)

\* Kafka is well only with the topic.
Well(services) == {s \in Stores \cap services : s = "kafka" => "topic" \in services}

\* While a readiness request is open, note what was well throughout and ever.  The
\* topic is made, and never deleted.
Flip(s) ==
    /\ flips < MaxFlips /\ (s = "topic" => s \notin up)
    /\ flips' = flips + 1
    /\ up' = (up \cup {s}) \ (up \cap {s})
    /\ ready' = IF ready.at = "none" THEN ready
                ELSE [ready EXCEPT !.always = @ \cap Well(up'), !.ever = @ \cup Well(up')]
    /\ UNCHANGED <<deployment, process, database, attestation, deaths>>
-----------------------------------------------------------------------------
(* The attestation cache                                                   *)

Attested == snapshot = "whole"

Unasked == "void"

\* refresh: without the provider or its key there is nothing to ask.
Ask(r) ==
    /\ refreshes[r] = "idle"
    /\ refreshes' = [refreshes EXCEPT ![r] = IF deployment = "nearai" THEN "asked" ELSE Unasked]
    /\ UNCHANGED snapshot

\* The gateway's report, or what attests nothing: one without a quote, an error.
Reply(r) ==
    /\ refreshes[r] = "asked"
    /\ \E report \in IF "gateway" \in up THEN {"whole", "void"} ELSE {"void"} :
        refreshes' = [refreshes EXCEPT ![r] = report]
    /\ UNCHANGED <<deployment, up, process, database, snapshot, ready, flips, deaths>>

\* Fault: an error leaves the last good report.
StoredIfGood(report) == IF report = "void" /\ Attested THEN snapshot ELSE report

Stored(report) == report

Store(r) ==
    /\ refreshes[r] \in {"whole", "void"}
    /\ snapshot' = Stored(refreshes[r])
    /\ refreshes' = [refreshes EXCEPT ![r] = "idle"]

\* GET /attestation; while it boots, the process serves none.
AskOnRead(r) ==
    /\ stage = "serving" /\ Ask(r)
    /\ UNCHANGED <<deployment, up, process, database, ready, flips, deaths>>

StoreOnRead(r) ==
    /\ stage # "attest" /\ Store(r)
    /\ UNCHANGED <<deployment, up, process, database, ready, flips, deaths>>
-----------------------------------------------------------------------------
(* Start-up                                                                *)

\* The models, which must load, then the first refresh.
Start ==
    /\ stage = "down"
    /\ stage' = "attest"
    /\ Ask(BootAsk)
    /\ UNCHANGED <<deployment, up, client, driver, consumer, database, ready, flips, deaths>>

BootAttested ==
    /\ stage = "attest" /\ Store(BootAsk)
    /\ stage' = "redis"
    /\ UNCHANGED <<deployment, up, client, driver, consumer, database, ready, flips, deaths>>

\* connect: the client is kept before its ping, and so whether it answers or not.
Kept == TRUE

\* Fault: an error of Redis ends the start-up.
AfterRedisOrDown == IF "redis" \in up THEN "neo4j" ELSE "down"

\* Every error of a store is logged and passed over.
AfterRedis == "neo4j"

BootRedis ==
    /\ stage = "redis"
    /\ client' = Kept
    /\ stage' = AfterRedis
    /\ UNCHANGED <<deployment, up, driver, consumer, database, attestation, ready, flips, deaths>>

\* Fault: the constraints are not created.
CreatedNever == constraints

\* CREATE CONSTRAINT IF NOT EXISTS, which nodes that violate it prevent.
Created == constraints \/ nodes < 2

\* The driver is made, and asked whether it connects ...
BootNeo4j ==
    /\ stage = "neo4j"
    /\ driver' = TRUE
    /\ stage' = IF "neo4j" \in up THEN "constraints" ELSE "consumer"
    /\ UNCHANGED <<deployment, up, client, consumer, database, attestation, ready, flips, deaths>>

\* ... and only then are the constraints created.  Nothing tries again.
BootConstraints ==
    /\ stage = "constraints"
    /\ constraints' = (IF "neo4j" \in up THEN Created ELSE constraints)
    /\ stage' = "consumer"
    /\ UNCHANGED <<deployment, up, client, driver, consumer, nodes, merges, writes, attestation,
                   ready, flips, deaths>>

BootConsumer ==
    /\ stage = "consumer"
    /\ consumer' = "running"
    /\ stage' = "serving"
    /\ UNCHANGED <<deployment, up, client, driver, database, attestation, ready, flips, deaths>>

\* A message without a value or that is no UTF-8 ends the task, and poll may: nothing
\* starts another while the process lives.
ConsumerEnds ==
    /\ consumer = "running" /\ merges["consumer"] = "idle"
    /\ consumer' = "ended"
    /\ UNCHANGED <<deployment, up, stage, client, driver, database, attestation, ready, flips, deaths>>
-----------------------------------------------------------------------------
(* The end                                                                 *)

\* The server answers open requests before the lifespan goes on.
Stop ==
    /\ stage = "serving" /\ deaths < MaxDeaths
    /\ ready = NoRequest /\ \A r \in Asked : refreshes[r] = "idle"
    /\ deaths' = deaths + 1
    /\ stage' = "stopping"
    /\ UNCHANGED <<deployment, up, client, driver, consumer, database, attestation, ready, flips>>

\* stop waits for the task, whose own error lifespan passes over.
StopConsumer ==
    /\ stage = "stopping" /\ consumer # "none"
    /\ consumer' = "none"
    /\ merges' = [merges EXCEPT !["consumer"] = "idle"]
    /\ UNCHANGED <<deployment, up, stage, client, driver, constraints, nodes, writes, attestation,
                   ready, flips, deaths>>

CloseGraph ==
    /\ stage = "stopping" /\ consumer = "none" /\ driver
    /\ driver' = FALSE
    /\ UNCHANGED <<deployment, up, stage, client, consumer, database, attestation, ready, flips, deaths>>

\* What a process that is gone held in memory.
Gone ==
    /\ stage' = "down" /\ client' = FALSE /\ driver' = FALSE /\ consumer' = "none"
    /\ snapshot' = "none" /\ refreshes' = [r \in Asked |-> "idle"]
    /\ ready' = NoRequest

CloseRedis ==
    /\ stage = "stopping" /\ consumer = "none" /\ ~driver
    /\ Gone
    /\ UNCHANGED <<deployment, up, database, flips, deaths>>

Crash ==
    /\ stage # "down" /\ deaths < MaxDeaths
    /\ deaths' = deaths + 1
    /\ Gone
    /\ merges' = [merges EXCEPT !["consumer"] = "idle"]
    /\ UNCHANGED <<deployment, up, constraints, nodes, writes, flips>>
-----------------------------------------------------------------------------
(* The readiness request: one check after the other                        *)

ReadyBegin ==
    /\ stage = "serving" /\ ready = NoRequest
    /\ ready' = [at |-> "postgres", ok |-> {}, always |-> Well(up), ever |-> Well(up)]
    /\ UNCHANGED <<deployment, up, process, database, attestation, flips, deaths>>

\* Fault: the graph is well when there is a driver.
AnswersByDriver(s) == IF s = "neo4j" THEN driver ELSE s \in Well(up)

Answers(s) == s \in Well(up)

Checked(s, next) ==
    ready' = [ready EXCEPT !.at = next, !.ok = IF Answers(s) THEN @ \cup {s} ELSE @]

CheckPostgres ==
    /\ ready.at = "postgres" /\ Checked("postgres", "redis")
    /\ UNCHANGED <<deployment, up, process, database, attestation, flips, deaths>>

CheckRedis ==
    /\ ready.at = "redis" /\ Checked("redis", "neo4j")
    /\ client' = TRUE
    /\ UNCHANGED <<deployment, up, stage, driver, consumer, database, attestation, flips, deaths>>

\* health: no driver is made here, as start-up leaves one.
CheckNeo4j ==
    /\ ready.at = "neo4j" /\ Checked("neo4j", "kafka")
    /\ UNCHANGED <<deployment, up, process, database, attestation, flips, deaths>>

\* list_topics: without the events' topic Kafka is degraded.
CheckKafka ==
    /\ ready.at = "kafka" /\ Checked("kafka", "model")
    /\ UNCHANGED <<deployment, up, process, database, attestation, flips, deaths>>

\* The model is well with an attestation, or if a call succeeded of late.
Ready ==
    /\ ready.at = "model"
    /\ \E called \in BOOLEAN :
        ready' = [ready EXCEPT !.at = IF ready.ok = Stores /\ (Attested \/ called) THEN "ok" ELSE "degraded"]
    /\ UNCHANGED <<deployment, up, process, database, attestation, flips, deaths>>

ReadyReturns ==
    /\ ready.at \in {"ok", "degraded"}
    /\ ready' = NoRequest
    /\ UNCHANGED <<deployment, up, process, database, attestation, flips, deaths>>
-----------------------------------------------------------------------------
(* Writes of one employee's node by the consumer and the seed              *)

\* The seed's own process connects, which creates the constraints or fails.
SeedConnects ==
    /\ merges["seed"] = "idle" /\ "neo4j" \in up /\ writes < MaxWrites
    /\ constraints' = Created
    /\ merges' = [merges EXCEPT !["seed"] = "connected"]
    /\ UNCHANGED <<deployment, up, process, nodes, writes, attestation, ready, flips, deaths>>

\* External: MERGE is one step under a uniqueness constraint, otherwise it looks
\* for the node and creates one if there is none.
Merge(w) ==
    /\ \/ w = "consumer" /\ consumer = "running" /\ merges[w] = "idle"
       \/ w = "seed" /\ merges[w] = "connected"
    /\ "neo4j" \in up /\ writes < MaxWrites
    /\ writes' = writes + 1
    /\ nodes' = IF constraints /\ nodes = 0 THEN 1 ELSE nodes
    /\ merges' = [merges EXCEPT ![w] = IF constraints \/ nodes > 0 THEN "idle" ELSE "absent"]
    /\ UNCHANGED <<deployment, up, process, constraints, attestation, ready, flips, deaths>>

\* A constraint made meanwhile refuses a second node.
MergeCreates(w) ==
    /\ merges[w] = "absent"
    /\ nodes' = IF "neo4j" \notin up \/ (constraints /\ nodes > 0) THEN nodes ELSE nodes + 1
    /\ merges' = [merges EXCEPT ![w] = "idle"]
    /\ UNCHANGED <<deployment, up, process, constraints, writes, attestation, ready, flips, deaths>>
-----------------------------------------------------------------------------
Boot == Start \/ BootAttested \/ BootRedis \/ BootNeo4j \/ BootConstraints \/ BootConsumer
End == StopConsumer \/ CloseGraph \/ CloseRedis

Next ==
    \/ Boot \/ ConsumerEnds \/ Stop \/ End \/ Crash
    \/ \E s \in Services : Flip(s)
    \/ \E r \in Asked : Reply(r) \/ AskOnRead(r) \/ StoreOnRead(r)
    \/ ReadyBegin \/ CheckPostgres \/ CheckRedis \/ CheckNeo4j \/ CheckKafka \/ Ready \/ ReadyReturns
    \/ SeedConnects \/ \E w \in Writers : Merge(w) \/ MergeCreates(w)

\* Docker restarts the process; its own steps go on, and a request for the
\* report ends after 10 s at the latest.
Fairness ==
    /\ WF_vars(Boot) /\ WF_vars(End)
    /\ \A r \in Asked : WF_vars(Reply(r)) /\ WF_vars(StoreOnRead(r))

Spec == Init /\ [][Next]_vars /\ Fairness
-----------------------------------------------------------------------------
(* Properties                                                              *)

\* The variables hold what the services and the singletons can hold.
TypeOK ==
    /\ deployment \in Deployments /\ up \subseteq Services
    /\ stage \in {"down", "attest", "redis", "neo4j", "constraints", "consumer", "serving", "stopping"}
    /\ client \in BOOLEAN /\ driver \in BOOLEAN /\ consumer \in {"none", "running", "ended"}
    /\ constraints \in BOOLEAN
    /\ nodes \in Nat /\ merges \in [Writers -> {"idle", "connected", "absent"}]
    /\ snapshot \in {"none", "void", "whole"}
    /\ refreshes \in [Asked -> {"idle", "asked", "whole", "void"}]
    /\ ready \in {NoRequest} \cup
                 [at : {"postgres", "redis", "neo4j", "kafka", "model", "ok", "degraded"},
                  ok : SUBSET Stores, always : SUBSET Stores, ever : SUBSET Stores]
    /\ flips \in Nat /\ deaths \in Nat /\ writes \in Nat

\* Whatever failed while it started, a process that serves holds a Redis client
\* and a driver, and has a consumer, which works as soon as the stores do unless a
\* message has ended it.
ClientsKept == stage = "serving" => client /\ driver /\ consumer # "none"

\* An answer of readyz is true of each store at some moment of the request: one
\* that was well throughout is called ok, one that was not well at any moment is
\* not, and the whole is ok only when all are.  It tells nothing of the consumer.
ReadyTruthful ==
    ready.at \in {"ok", "degraded"} =>
      /\ ready.always \subseteq ready.ok
      /\ ready.ok \subseteq ready.ever
      /\ ready.at = "ok" => ready.ever = Stores

\* The consumer and the seed never make two nodes of one employee, although the
\* backend may run without the constraints: the seed creates them first.
NodesUnique == nodes <= 1

\* The backend comes up and serves, whatever stores and gateway are down, with
\* clients that work as soon as the stores do, and with a consumer that runs or was
\* started and ended by a message.
BootsAnyway == <>[](stage = "serving" /\ client /\ driver /\ consumer # "none")

\* A refresh asked of a gateway that is down takes the attestation away, unless
\* the gateway comes back or the process ends first.
OutageShows ==
    ("gateway" \notin up /\ \E r \in Asked : refreshes[r] = "asked")
      ~> ("gateway" \in up \/ ~Attested \/ stage \in {"down", "stopping"})
=============================================================================
