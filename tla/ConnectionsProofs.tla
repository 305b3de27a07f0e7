--------------------------- MODULE ConnectionsProofs ---------------------------
(***************************************************************************)
(* Proofs about Connections: type correctness, the clients kept through a  *)
(* start-up on which stores fail, the truth of readyz, and the uniqueness  *)
(* of nodes although the backend may run without constraints.              *)
(***************************************************************************)
EXTENDS Connections, TLAPS

ReadyStages == {"postgres", "redis", "neo4j", "kafka", "model", "ok", "degraded"}
Requests == [at : ReadyStages, ok : SUBSET Stores, always : SUBSET Stores, ever : SUBSET Stores]
-----------------------------------------------------------------------------
(* Type correctness                                                        *)

LEMMA InitType == Init => TypeOK
<1> SUFFICES ASSUME Init PROVE TypeOK
  OBVIOUS
<1>1. /\ merges \in [Writers -> {"idle", "connected", "absent"}]
      /\ refreshes \in [Asked -> {"idle", "asked", "whole", "void"}]
  BY DEF Init
<1> QED
  BY <1>1 DEF Init, TypeOK

\* The readiness request is none, or a record of its stage and of what was found.
LEMMA ReadyRecord ==
  ASSUME TypeOK
  PROVE  /\ ready = NoRequest => ready.at = "none"
         /\ ready.at # "none" => ready \in Requests
BY DEF TypeOK, NoRequest, Requests, ReadyStages

LEMMA CheckedRecord ==
  ASSUME ready \in Requests, NEW s \in Stores, NEW next \in ReadyStages, Checked(s, next)
  PROVE  ready' \in Requests
<1>1. CASE Answers(s)
  <2>1. ready' = [ready EXCEPT !.at = next, !.ok = ready.ok \cup {s}]
    BY <1>1 DEF Checked
  <2> QED
    BY <2>1 DEF Requests
<1>2. CASE ~Answers(s)
  <2>1. ready' = [ready EXCEPT !.at = next, !.ok = ready.ok]
    BY <1>2 DEF Checked
  <2> QED
    BY <2>1 DEF Requests
<1> QED
  BY <1>1, <1>2

LEMMA NextType == TypeOK /\ [Next]_vars => TypeOK'
<1> SUFFICES ASSUME TypeOK, [Next]_vars PROVE TypeOK'
  OBVIOUS
<1> USE DEF TypeOK, process, database, attestation, vars
<1>1. CASE UNCHANGED vars
  BY <1>1
<1>2. ASSUME NEW s \in Services, Flip(s) PROVE TypeOK'
  <2>1. up' \subseteq Services
    BY <1>2 DEF Flip
  <2>2. ready' \in {NoRequest} \cup Requests
    <3>1. CASE ready.at = "none"
      BY <1>2, <3>1 DEF Flip, Requests, ReadyStages
    <3>2. CASE ready.at # "none"
      <4>1. ready \in Requests
        BY <3>2, ReadyRecord
      <4>2. ready' = [ready EXCEPT !.always = @ \cap Well(up'), !.ever = @ \cup Well(up')]
        BY <1>2, <3>2 DEF Flip
      <4> QED
        BY <2>1, <4>1, <4>2 DEF Requests, Well
    <3> QED
      BY <3>1, <3>2
  <2> QED
    BY <1>2, <2>1, <2>2 DEF Flip, Requests, ReadyStages
<1>3. CASE Boot
  <2>1. CASE Start
    BY <2>1 DEF Start, Ask, Unasked, BootAsk
  <2>2. CASE BootAttested
    BY <2>2 DEF BootAttested, Store, Stored, BootAsk
  <2>3. CASE BootRedis \/ BootNeo4j \/ BootConstraints \/ BootConsumer
    BY <2>3 DEF BootRedis, Kept, AfterRedis, BootNeo4j, BootConstraints, Created, BootConsumer
  <2> QED
    BY <1>3, <2>1, <2>2, <2>3 DEF Boot
<1>11. CASE ConsumerEnds
  BY <1>11 DEF ConsumerEnds
<1>4. CASE Stop \/ End \/ Crash
  <2>1. CASE Stop
    BY <2>1 DEF Stop
  <2>6. CASE CloseGraph
    BY <2>6 DEF CloseGraph
  <2>5. CASE StopConsumer
    <3>1. merges' \in [Writers -> {"idle", "connected", "absent"}]
      BY <2>5 DEF StopConsumer
    <3> QED
      BY <2>5, <3>1 DEF StopConsumer
  <2>2. ASSUME Gone PROVE /\ refreshes' \in [Asked -> {"idle", "asked", "whole", "void"}]
                          /\ ready' = NoRequest /\ snapshot' = "none" /\ stage' = "down"
                          /\ client' = FALSE /\ driver' = FALSE /\ consumer' = "none"
    BY <2>2 DEF Gone
  <2>3. CASE CloseRedis
    BY <2>2, <2>3 DEF CloseRedis
  <2>4. CASE Crash
    <3>1. [merges EXCEPT !["consumer"] = "idle"] \in [Writers -> {"idle", "connected", "absent"}]
      OBVIOUS
    <3> QED
      BY <2>2, <2>4, <3>1 DEF Crash
  <2> QED
    BY <1>4, <2>1, <2>3, <2>4, <2>5, <2>6 DEF End
<1>5. ASSUME NEW r \in Asked, Reply(r) \/ AskOnRead(r) \/ StoreOnRead(r) PROVE TypeOK'
  BY <1>5 DEF Reply, AskOnRead, Ask, Unasked, StoreOnRead, Store, Stored
<1>6. CASE ReadyBegin
  BY <1>6 DEF ReadyBegin, Well
<1>7. CASE CheckPostgres \/ CheckRedis \/ CheckNeo4j \/ CheckKafka
  <2>1. ready \in Requests
    BY <1>7, ReadyRecord DEF CheckPostgres, CheckRedis, CheckNeo4j, CheckKafka
  <2>2. ready' \in Requests
    BY <1>7, <2>1, CheckedRecord
    DEF CheckPostgres, CheckRedis, CheckNeo4j, CheckKafka, Stores, ReadyStages
  <2>3. client' \in BOOLEAN
    BY <1>7 DEF CheckPostgres, CheckRedis, CheckNeo4j, CheckKafka
  <2>4. UNCHANGED <<deployment, up, stage, driver, consumer, database, attestation, flips, deaths>>
    BY <1>7 DEF CheckPostgres, CheckRedis, CheckNeo4j, CheckKafka
  <2> QED
    BY <2>2, <2>3, <2>4 DEF Requests, ReadyStages
<1>8. CASE Ready
  <2>1. ready \in Requests
    BY <1>8, ReadyRecord DEF Ready
  <2>2. ready' \in Requests
    BY <1>8, <2>1 DEF Ready, Requests, ReadyStages
  <2> QED
    BY <1>8, <2>2 DEF Ready, Requests, ReadyStages
<1>9. CASE ReadyReturns \/ SeedConnects
  <2>1. CASE ReadyReturns
    BY <2>1 DEF ReadyReturns
  <2>2. CASE SeedConnects
    <3>1. merges' \in [Writers -> {"idle", "connected", "absent"}]
      BY <2>2 DEF SeedConnects
    <3>2. constraints' \in BOOLEAN
      BY <2>2 DEF SeedConnects, Created
    <3> QED
      BY <2>2, <3>1, <3>2 DEF SeedConnects
  <2> QED
    BY <1>9, <2>1, <2>2
<1>10. ASSUME NEW w \in Writers, Merge(w) \/ MergeCreates(w) PROVE TypeOK'
  <2>1. nodes' \in Nat /\ writes' \in Nat
    BY <1>10 DEF Merge, MergeCreates
  <2>2. merges' \in [Writers -> {"idle", "connected", "absent"}]
    BY <1>10 DEF Merge, MergeCreates
  <2>3. UNCHANGED <<deployment, up, process, constraints, attestation, ready, flips, deaths>>
    BY <1>10 DEF Merge, MergeCreates
  <2> QED
    BY <2>1, <2>2, <2>3
<1> QED
  BY <1>1, <1>2, <1>3, <1>4, <1>5, <1>6, <1>7, <1>8, <1>9, <1>10, <1>11 DEF Next

\* Every variable holds what the services and the singletons can hold.
THEOREM TypeCorrect == Spec => []TypeOK
BY InitType, NextType, PTL DEF Spec
-----------------------------------------------------------------------------
(* Start-up: what was made before the present stage is there.              *)

ClientsInv ==
  /\ stage \in {"neo4j", "constraints", "consumer", "serving"} => client
  /\ stage \in {"constraints", "consumer", "serving"} => driver
  /\ stage = "serving" => consumer # "none"

LEMMA NextClients == ClientsInv /\ [Next]_vars => ClientsInv'
<1> SUFFICES ASSUME ClientsInv, [Next]_vars PROVE ClientsInv'
  OBVIOUS
<1> USE DEF ClientsInv, process
<1>1. CASE UNCHANGED process
  BY <1>1
<1>2. CASE Boot
  <2>1. CASE Start \/ BootAttested
    BY <2>1 DEF Start, BootAttested
  <2>2. CASE BootRedis
    BY <2>2 DEF BootRedis, Kept, AfterRedis
  <2>3. CASE BootNeo4j
    BY <2>3 DEF BootNeo4j
  <2>4. CASE BootConstraints \/ BootConsumer
    BY <2>4 DEF BootConstraints, BootConsumer
  <2> QED
    BY <1>2, <2>1, <2>2, <2>3, <2>4 DEF Boot
<1>3. CASE Stop \/ End \/ Crash
  BY <1>3 DEF Stop, End, StopConsumer, CloseGraph, CloseRedis, Crash, Gone
<1>4. CASE CheckRedis \/ ConsumerEnds
  BY <1>4 DEF CheckRedis, ConsumerEnds
<1> QED
  BY <1>1, <1>2, <1>3, <1>4
  DEF Next, vars, Flip, Reply, AskOnRead, StoreOnRead, ReadyBegin, CheckPostgres, CheckNeo4j,
      CheckKafka, Ready, ReadyReturns, SeedConnects, Merge, MergeCreates

\* A process that serves holds its clients, whichever stores failed while it
\* started, and has a consumer that runs or that a message has ended (main.py,
\* lifespan; event_consumer.py, _run).
THEOREM ClientsStay == Spec => []ClientsKept
<1>1. Init => ClientsInv
  BY DEF Init, ClientsInv
<1>2. ClientsInv => ClientsKept
  BY DEF ClientsInv, ClientsKept
<1> QED
  BY <1>1, <1>2, NextClients, PTL DEF Spec
-----------------------------------------------------------------------------
(* The graph: the seed connects, and so creates the constraints, before it *)
(* writes; until then the consumer alone creates nodes, one at a time.     *)

NodesInv ==
  /\ NodesUnique
  /\ merges["seed"] # "absent"
  /\ merges["seed"] = "connected" => constraints
  /\ merges["consumer"] = "absent" => (constraints \/ nodes = 0)

LEMMA NextNodes == TypeOK /\ NodesInv /\ [Next]_vars => NodesInv'
<1> SUFFICES ASSUME TypeOK, NodesInv, [Next]_vars PROVE NodesInv'
  OBVIOUS
<1> USE DEF NodesInv, NodesUnique
<1>0. /\ nodes \in Nat /\ nodes <= 1
      /\ merges \in [Writers -> {"idle", "connected", "absent"}] /\ constraints \in BOOLEAN
  BY DEF TypeOK
<1>1. CASE UNCHANGED <<nodes, merges, constraints>>
  BY <1>1
<1>2. CASE BootConstraints
  BY <1>0, <1>2 DEF BootConstraints, Created
<1>3. CASE StopConsumer \/ Crash
  <2>1. merges' = [merges EXCEPT !["consumer"] = "idle"]
    BY <1>3 DEF StopConsumer, Crash
  <2>2. nodes' = nodes /\ constraints' = constraints
    BY <1>3 DEF StopConsumer, Crash
  <2> QED
    BY <1>0, <2>1, <2>2 DEF Writers
<1>4. CASE SeedConnects
  <2>1. merges' = [merges EXCEPT !["seed"] = "connected"] /\ nodes' = nodes
    BY <1>4 DEF SeedConnects
  <2>2. constraints'
    <3>1. Created
      BY <1>0 DEF Created
    <3>2. constraints' = Created
      BY <1>4 DEF SeedConnects
    <3> QED
      BY <3>1, <3>2, Zenon
  <2> QED
    BY <1>0, <2>1, <2>2 DEF Writers
<1>5. ASSUME NEW w \in Writers, Merge(w) PROVE NodesInv'
  <2>1. constraints' = constraints
    BY <1>5 DEF Merge
  <2>2. CASE constraints
    BY <1>0, <1>5, <2>1, <2>2 DEF Merge, Writers
  <2>3. CASE ~constraints
    <3>1. w = "consumer"
      BY <1>5, <2>3 DEF Merge
    <3> QED
      BY <1>0, <1>5, <2>1, <2>3, <3>1 DEF Merge, Writers
  <2> QED
    BY <2>2, <2>3
<1>6. ASSUME NEW w \in Writers, MergeCreates(w) PROVE NodesInv'
  <2>1. w = "consumer"
    BY <1>6 DEF MergeCreates, Writers
  <2>2. constraints' = constraints /\ merges' = [merges EXCEPT ![w] = "idle"]
    BY <1>6 DEF MergeCreates
  <2>3. nodes' <= 1
    BY <1>0, <1>6, <2>1 DEF MergeCreates
  <2> QED
    BY <1>0, <2>1, <2>2, <2>3 DEF Writers
<1> QED
  BY <1>1, <1>2, <1>3, <1>4, <1>5, <1>6
  DEF Next, vars, database, Boot, Start, BootAttested, BootRedis, BootNeo4j, BootConsumer,
      ConsumerEnds, Stop, End, CloseGraph, CloseRedis, Flip, Reply, AskOnRead, StoreOnRead, ReadyBegin, CheckPostgres,
      CheckRedis, CheckNeo4j, CheckKafka, Ready, ReadyReturns

\* No employee gets two nodes, with or without the backend's constraints
\* (GraphService.connect, seed_neo4j_graph).
THEOREM OneNode == Spec => []NodesUnique
<1>1. Init => NodesInv
  BY DEF Init, NodesInv, NodesUnique, Writers
<1>2. NodesInv => NodesUnique
  BY DEF NodesInv
<1> QED
  BY <1>1, <1>2, NextNodes, TypeCorrect, PTL DEF Spec
-----------------------------------------------------------------------------
(* Readiness: each check is about one moment of the request.               *)

\* The stores whose check is over.
Past(at) ==
  CASE at = "postgres" -> {}
    [] at = "redis" -> {"postgres"}
    [] at = "neo4j" -> {"postgres", "redis"}
    [] at = "kafka" -> {"postgres", "redis", "neo4j"}
    [] at \in {"model", "ok", "degraded"} -> Stores

ReadyInv ==
  ready.at # "none" =>
    /\ ready.always \subseteq Well(up) /\ Well(up) \subseteq ready.ever
    /\ ready.ok \subseteq ready.ever
    /\ Past(ready.at) \cap ready.always \subseteq ready.ok
    /\ ready.at = "ok" => ready.ok = Stores

\* One check keeps what was found, and adds what it finds.
LEMMA CheckedTruly ==
  ASSUME TypeOK, ReadyInv, NEW s \in Stores, NEW next \in ReadyStages \ {"ok"},
         ready.at # "none", Past(next) = Past(ready.at) \cup {s}, Checked(s, next), up' = up
  PROVE  ReadyInv'
<1>1. ready \in Requests
  BY ReadyRecord
<1>2. /\ ready'.at = next
      /\ ready'.always = ready.always /\ ready'.ever = ready.ever
      /\ ready'.ok = IF s \in Well(up) THEN ready.ok \cup {s} ELSE ready.ok
  BY <1>1 DEF Checked, Answers, Requests
<1>3. ready'.ok \subseteq ready'.ever
  BY <1>2 DEF ReadyInv
<1>4. Past(ready'.at) \cap ready'.always \subseteq ready'.ok
  BY <1>2 DEF ReadyInv
<1> QED
  BY <1>2, <1>3, <1>4 DEF ReadyInv

LEMMA NextReady == TypeOK /\ ReadyInv /\ [Next]_vars => ReadyInv'
<1> SUFFICES ASSUME TypeOK, ReadyInv, [Next]_vars PROVE ReadyInv'
  OBVIOUS
<1>1. CASE UNCHANGED <<up, ready>>
  BY <1>1 DEF ReadyInv, Past
<1>2. ASSUME NEW s \in Services, Flip(s) PROVE ReadyInv'
  <2>1. CASE ready.at = "none"
    BY <1>2, <2>1 DEF Flip, ReadyInv
  <2>2. CASE ready.at # "none"
    <3>1. ready \in Requests
      BY <2>2, ReadyRecord
    <3>2. ready' = [ready EXCEPT !.always = @ \cap Well(up'), !.ever = @ \cup Well(up')]
      BY <1>2, <2>2 DEF Flip
    <3>3. /\ ready'.at = ready.at /\ ready'.ok = ready.ok
          /\ ready'.always = ready.always \cap Well(up') /\ ready'.ever = ready.ever \cup Well(up')
      BY <3>1, <3>2 DEF Requests
    <3> QED
      BY <2>2, <3>3 DEF ReadyInv
  <2> QED
    BY <2>1, <2>2
<1>3. CASE ready' = NoRequest
  BY <1>3 DEF ReadyInv, NoRequest
<1>4. CASE ReadyBegin
  BY <1>4 DEF ReadyBegin, ReadyInv, Past, Well
<1>5. CASE CheckPostgres
  <2>1. Past("redis") = Past("postgres") \cup {"postgres"}
    BY DEF Past
  <2> QED
    BY <1>5, <2>1, CheckedTruly DEF CheckPostgres, Stores, ReadyStages
<1>6. CASE CheckRedis
  <2>1. Past("neo4j") = Past("redis") \cup {"redis"}
    BY DEF Past
  <2> QED
    BY <1>6, <2>1, CheckedTruly DEF CheckRedis, Stores, ReadyStages
<1>7. CASE CheckNeo4j
  <2>1. Past("kafka") = Past("neo4j") \cup {"neo4j"}
    BY DEF Past
  <2> QED
    BY <1>7, <2>1, CheckedTruly DEF CheckNeo4j, Stores, ReadyStages
<1>8. CASE CheckKafka
  <2>1. Past("model") = Past("kafka") \cup {"kafka"}
    BY DEF Past, Stores
  <2> QED
    BY <1>8, <2>1, CheckedTruly DEF CheckKafka, Stores, ReadyStages
<1>9. CASE Ready
  <2>1. ready \in Requests /\ up' = up
    BY <1>9, ReadyRecord DEF Ready
  <2>2. PICK called \in BOOLEAN : ready' = [ready EXCEPT !.at =
          IF ready.ok = Stores /\ (Attested \/ called) THEN "ok" ELSE "degraded"]
    BY <1>9 DEF Ready
  <2> DEFINE at == IF ready.ok = Stores /\ (Attested \/ called) THEN "ok" ELSE "degraded"
  <2>6. ready' = [ready EXCEPT !.at = at]
    BY <2>2
  <2>7. at \in {"ok", "degraded"} /\ (at = "ok" => ready.ok = Stores)
    OBVIOUS
  <2> HIDE DEF at
  <2>3. /\ ready'.at = at /\ ready'.ok = ready.ok
        /\ ready'.always = ready.always /\ ready'.ever = ready.ever
    BY <2>1, <2>6 DEF Requests
  <2>4. Past(at) = Past("model")
    BY <2>7 DEF Past
  <2>5. ready.at = "model"
    BY <1>9 DEF Ready
  <2> QED
    BY <2>1, <2>3, <2>4, <2>5, <2>7 DEF ReadyInv
<1> QED
  BY <1>1, <1>2, <1>3, <1>4, <1>5, <1>6, <1>7, <1>8, <1>9
  DEF Next, vars, Boot, Start, BootAttested, BootRedis, BootNeo4j, BootConstraints, BootConsumer,
      ConsumerEnds, Stop, End, StopConsumer, CloseGraph, CloseRedis, Crash, Gone, Reply, AskOnRead,
      StoreOnRead,
      ReadyReturns, SeedConnects, Merge, MergeCreates

\* What readyz answers of each store was so at some moment of the request.
THEOREM ReadyTells == Spec => []ReadyTruthful
<1>1. Init => ReadyInv
  BY DEF Init, ReadyInv, NoRequest
<1>2. TypeOK /\ ReadyInv => ReadyTruthful
  <2> SUFFICES ASSUME TypeOK, ReadyInv, ready.at \in {"ok", "degraded"} PROVE ReadyTruthful
    BY DEF ReadyTruthful
  <2>1. Past(ready.at) = Stores
    BY DEF Past
  <2>2. ready.always \subseteq Stores /\ ready.ever \subseteq Stores
    BY ReadyRecord DEF Requests
  <2> QED
    BY <2>1, <2>2 DEF ReadyInv, ReadyTruthful
<1> QED
  BY <1>1, <1>2, NextReady, TypeCorrect, PTL DEF Spec
=============================================================================
