-------------------------------- MODULE Seed --------------------------------
(***************************************************************************)
(* The seed script (scripts/seed.py), run again by every deployment in a   *)
(* process of its own, beside the live consumer, which writes to the same  *)
(* PostgreSQL, Redis and Neo4j.  A sample of the feature matrix becomes    *)
(* employees with history and alerts, every synthetic account gets the     *)
(* base features of a donor, and the employees get nodes in the graph.     *)
(* Runs do not overlap.  An account and its employee are identified; those *)
(* of the sample (ACCT_) and of the event stream (ACC_) are disjoint.      *)
(***************************************************************************)
EXTENDS Integers, FiniteSets

CONSTANTS
    Sample,     \* accounts of the matrix the seed turns into employees
    Mules,      \* those of them that score above the threshold
    Accounts,   \* synthetic accounts of the event stream
    Donor,      \* per synthetic account: its donor's features, "full" or "blank"
    Enough,     \* alerts from which on the seed inserts none
    GraphLimit, \* employees a run puts in the graph
    MaxRuns,    \* bound: runs of the seed
    MaxEvents,  \* bound: events handled
    MaxFaults,  \* bound: failures and deaths of the two processes
    None

ASSUME SampleAssumption ==
    /\ IsFiniteSet(Sample) /\ IsFiniteSet(Accounts)
    /\ Mules \subseteq Sample /\ Sample \cap Accounts = {}
    /\ Cardinality(Mules) >= Enough  \* the top forty mules against a limit of ten
    /\ Donor \in [Accounts -> {"full", "blank"}]

ASSUME BoundAssumption ==
    /\ Enough \in Nat \ {0} /\ GraphLimit \in Nat \ {0}
    /\ MaxRuns \in Nat /\ MaxEvents \in Nat /\ MaxFaults \in Nat

Employees == Sample \cup Accounts
Files == {"matrix", "accounts"}

\* Scores by what the properties tell apart: none, below the threshold, alerting.
Below == 1
Alerting == 2..3
Scores == 0..3

ASSUME NoneAssumption == None \notin Scores

VARIABLES
    files,     \* which of the two artifacts are there
    employees, \* employees table
    history,   \* per employee: the score of its latest history row, 0 without one
    alerts,    \* per employee: rows of the alerts table
    features,  \* per synthetic account: None, or the base features Redis holds
    graph,     \* per employee: None, or the risk_score of its node
    systems,   \* per employee: systems its node accessed, two or more as 2
    seeder,    \* where main() is
    consumer,  \* where _handle_event is
    recent,    \* accounts in _last_score_record
    runs,      \* runs begun
    events,    \* events taken up
    faults,    \* faults so far
    completed, \* history: a run came to its end
    lost       \* history: employees that lost a write to a fault
rows == <<employees, history, alerts>>
nodes == <<graph, systems>>
live == <<consumer, recent, events>>
vars == <<files, rows, features, nodes, seeder, live, runs, faults, completed, lost>>

Idle == [at |-> "idle"]
At(stage, todo) == [at |-> stage, todo |-> todo]

Init ==
    /\ files \in SUBSET Files
    /\ employees = {}
    /\ history = [e \in Employees |-> 0] /\ alerts = [e \in Employees |-> 0]
    /\ features = [a \in Accounts |-> None]
    /\ graph = [e \in Employees |-> None] /\ systems = [e \in Employees |-> 0]
    /\ seeder = Idle /\ consumer = Idle /\ recent = {}
    /\ runs = 0 /\ events = 0 /\ faults = 0
    /\ completed = FALSE /\ lost = {}

\* The alerts table by employee and number, and its count.
AlertRows == UNION {{e} \X (1..alerts[e]) : e \in Employees}
AlertCount == Cardinality(AlertRows)
-----------------------------------------------------------------------------
(* The graph service                                                       *)

\* MERGE of the employee and the system; a new node has score 0.
Accessed(e, n) ==
    /\ graph' = [graph EXCEPT ![e] = IF @ = None THEN 0 ELSE @]
    /\ systems' = [systems EXCEPT ![e] = IF @ + n >= 2 THEN 2 ELSE @ + n]

\* MERGE of the employee, its score overwritten.
Scored(e, score) ==
    /\ graph' = [graph EXCEPT ![e] = score]
    /\ UNCHANGED systems
-----------------------------------------------------------------------------
(* The seed                                                                *)

Begin ==
    /\ seeder = Idle /\ runs < MaxRuns
    /\ runs' = runs + 1
    /\ seeder' = At("count", {})
    /\ UNCHANGED <<files, rows, features, nodes, live, faults, completed, lost>>

\* seed_redis_features reads both artifacts, or returns.
FeaturesStage == IF Files \subseteq files THEN Accounts ELSE {}

\* Fault: a run that finds alerts skips the other stores too.
AlertsSkippedAll == At("graph", {})

\* A run that inserts no alerts goes on with the features.
AlertsSkipped == At("features", FeaturesStage)

\* seed_alerts_and_employees: nothing without the matrix or with ten alerts.
CountAlerts ==
    /\ seeder.at = "count"
    /\ seeder' = IF "matrix" \in files /\ AlertCount < Enough THEN At("insert", {}) ELSE AlertsSkipped
    /\ UNCHANGED <<files, rows, features, nodes, live, runs, faults, completed, lost>>

\* Fault: the rows of each account are committed on their own.
CommittedSingly == {{e} : e \in Sample}

\* What a commit of the seed may insert: the whole sample.
Committed == {Sample}

\* The latest history row is the score with a wobble, which may cross the threshold.
Wobbled == {Below, 2}

\* Employees that are missing, six history rows each, an alert for each mule.
InsertSample ==
    /\ seeder.at = "insert"
    /\ \E S \in Committed : \E wobbled \in [S -> Wobbled] :
        /\ employees' = employees \cup S
        /\ history' = [e \in Employees |-> IF e \in S THEN wobbled[e] ELSE history[e]]
        /\ alerts' = [e \in Employees |-> IF e \in S \cap Mules THEN alerts[e] + 1 ELSE alerts[e]]
        /\ seeder' = IF Sample \subseteq employees' THEN At("features", FeaturesStage) ELSE seeder
    /\ UNCHANGED <<files, features, nodes, live, runs, faults, completed, lost>>

\* store_base_features: one HSET, with the donor of the account's hash.
StoreFeatures(a) ==
    /\ seeder.at = "features" /\ a \in seeder.todo
    /\ features' = [features EXCEPT ![a] = Donor[a]]
    /\ seeder' = [seeder EXCEPT !.todo = @ \ {a}]
    /\ UNCHANGED <<files, rows, nodes, live, runs, faults, completed, lost>>

\* seed_neo4j_graph lists employees, in the order the database likes.
ListEmployees ==
    /\ seeder.at = "features" /\ seeder.todo = {}
    /\ \E S \in SUBSET employees :
        /\ Cardinality(S) = IF Cardinality(employees) <= GraphLimit THEN Cardinality(employees)
                            ELSE GraphLimit
        /\ seeder' = At("graph", S)
    /\ UNCHANGED <<files, rows, features, nodes, live, runs, faults, completed, lost>>

\* The latest history row of an employee is read ...
LoadScore(e) ==
    /\ seeder.at = "graph" /\ e \in seeder.todo
    /\ seeder' = [at |-> "score", todo |-> seeder.todo \ {e}, emp |-> e, score |-> history[e]]
    /\ UNCHANGED <<files, rows, features, nodes, live, runs, faults, completed, lost>>

\* ... its score is written to the node ...
WriteScore ==
    /\ seeder.at = "score"
    /\ Scored(seeder.emp, seeder.score)
    /\ seeder' = [seeder EXCEPT !.at = "touch"]
    /\ UNCHANGED <<files, rows, features, live, runs, faults, completed, lost>>

\* ... and two to four accesses are added, to systems of a hash that differs in
\* every process.
TouchSystems ==
    /\ seeder.at = "touch"
    /\ Accessed(seeder.emp, 2)
    /\ seeder' = At("graph", seeder.todo)
    /\ UNCHANGED <<files, rows, features, live, runs, faults, completed, lost>>

Complete ==
    /\ seeder = At("graph", {})
    /\ seeder' = Idle
    /\ completed' = TRUE
    /\ UNCHANGED <<files, rows, features, nodes, live, runs, faults, lost>>

\* A store fails, or the process dies: nothing is caught, and the transaction
\* of the sample is rolled back.
Die ==
    /\ seeder # Idle /\ faults < MaxFaults
    /\ faults' = faults + 1
    /\ seeder' = Idle
    /\ UNCHANGED <<files, rows, features, nodes, live, runs, completed, lost>>
-----------------------------------------------------------------------------
(* The consumer                                                            *)

Handling(stage) == [consumer EXCEPT !.at = stage]

Event(a) ==
    /\ consumer = Idle /\ events < MaxEvents
    /\ events' = events + 1
    /\ consumer' = [at |-> "upsert", acct |-> a, score |-> 0]
    /\ UNCHANGED <<files, rows, features, nodes, seeder, recent, runs, faults, completed, lost>>

Upsert ==
    /\ consumer.at = "upsert"
    /\ Accessed(consumer.acct, 1)
    /\ consumer' = Handling("features")
    /\ UNCHANGED <<files, rows, features, seeder, recent, events, runs, faults, completed, lost>>

\* Without features the event ends here, and with blank ones features_for_scoring
\* raises; a score below the threshold writes nothing more.
ScoreEvent ==
    /\ consumer.at = "features"
    /\ IF features[consumer.acct] = "full"
       THEN \E s \in {Below} \cup Alerting :
              consumer' = IF s \in Alerting
                          THEN [at |-> "history", acct |-> consumer.acct, score |-> s] ELSE Idle
       ELSE consumer' = Idle
    /\ UNCHANGED <<files, rows, features, nodes, seeder, recent, events, runs, faults, completed, lost>>

\* Fault: one throttle for all employees.
ThrottledGlobally(a) == recent # {}

Throttled(a) == a \in recent

\* _maybe_record_score: skipped within a minute of the last, a commit of its own.
RecordScore ==
    /\ consumer.at = "history"
    /\ \/ Throttled(consumer.acct) /\ UNCHANGED <<history, recent>>
       \/ /\ history' = [history EXCEPT ![consumer.acct] = consumer.score]
          /\ recent' = recent \cup {consumer.acct}
    /\ consumer' = Handling("alert")
    /\ UNCHANGED <<files, employees, alerts, features, nodes, seeder, events, runs, faults, completed, lost>>

\* Its commit fails after the throttle is set, and the event is given up.
RecordFails ==
    /\ consumer.at = "history" /\ faults < MaxFaults
    /\ faults' = faults + 1
    /\ recent' = recent \cup {consumer.acct}
    /\ lost' = lost \cup {consumer.acct}
    /\ consumer' = Idle
    /\ UNCHANGED <<files, rows, features, nodes, seeder, events, runs, completed>>

\* Fault: alerts are raised for employees without a row.
EnsuredNever(a) == employees

Ensured(a) == employees \cup {a}

\* create_or_update_alert: the employee's row, and a fold or an alert's row.
RaiseAlert ==
    /\ consumer.at = "alert"
    /\ employees' = Ensured(consumer.acct)
    /\ \/ /\ alerts[consumer.acct] > 0
          /\ consumer' = Idle
          /\ UNCHANGED alerts
       \/ /\ alerts' = [alerts EXCEPT ![consumer.acct] = @ + 1]
          /\ consumer' = Handling("score")
    /\ UNCHANGED <<files, history, features, nodes, seeder, recent, events, runs, faults, completed, lost>>

ShowScore ==
    /\ consumer.at = "score"
    /\ Scored(consumer.acct, consumer.score)
    /\ consumer' = Idle
    /\ UNCHANGED <<files, rows, features, seeder, recent, events, runs, faults, completed, lost>>

\* Another failure ends the handling of the event, a graph's is passed over.
ConsumerFails ==
    /\ consumer.at \in {"upsert", "features", "alert", "score"} /\ faults < MaxFaults
    /\ faults' = faults + 1
    /\ lost' = lost \cup {consumer.acct}
    /\ consumer' = IF consumer.at = "upsert" THEN Handling("features") ELSE Idle
    /\ UNCHANGED <<files, rows, features, nodes, seeder, recent, events, runs, completed>>
-----------------------------------------------------------------------------
SeedStep ==
    \/ Begin \/ CountAlerts \/ InsertSample \/ ListEmployees \/ WriteScore \/ TouchSystems
    \/ Complete \/ Die
    \/ \E a \in Accounts : StoreFeatures(a)
    \/ \E e \in Employees : LoadScore(e)

ConsumerStep ==
    \/ Upsert \/ ScoreEvent \/ RecordScore \/ RecordFails \/ RaiseAlert \/ ShowScore \/ ConsumerFails
    \/ \E a \in Accounts : Event(a)

Next == SeedStep \/ ConsumerStep

Spec == Init /\ [][Next]_vars
-----------------------------------------------------------------------------
(* Properties                                                              *)

\* The variables hold what the stores and the two processes can hold.
SeederStates ==
    {Idle} \cup [at : {"count", "insert"}, todo : {{}}] \cup [at : {"features"}, todo : SUBSET Accounts]
           \cup [at : {"graph"}, todo : SUBSET Employees]
           \cup [at : {"score", "touch"}, todo : SUBSET Employees, emp : Employees, score : Scores]
ConsumerStates ==
    {Idle} \cup [ at : {"upsert", "features", "history", "alert", "score"},
                  acct : Accounts, score : Scores ]
TypeOK ==
    /\ files \subseteq Files /\ employees \subseteq Employees
    /\ history \in [Employees -> Scores] /\ alerts \in [Employees -> Nat]
    /\ features \in [Accounts -> {None, "full", "blank"}]
    /\ graph \in [Employees -> Scores \cup {None}] /\ systems \in [Employees -> 0..2]
    /\ seeder \in SeederStates /\ consumer \in ConsumerStates
    /\ recent \subseteq Accounts /\ lost \subseteq Accounts
    /\ runs \in Nat /\ events \in Nat /\ faults \in Nat /\ completed \in BOOLEAN

\* However often runs die and are repeated, and whatever the consumer inserts
\* between their count and their commit, the sample is in PostgreSQL as a whole or
\* not at all, and no mule of it has a second alert.
SampleOnce ==
    \A e \in Sample : alerts[e] = (IF e \in Mules /\ Sample \subseteq employees THEN 1 ELSE 0)

\* After one complete run with both artifacts the system has alerts, features of
\* every synthetic account, and employees with systems in the graph, whatever
\* died before it, was live during it or dies after it.
CompleteMeansUsable ==
    completed /\ Files \subseteq files =>
      LET shown == {e \in employees : graph[e] # None /\ systems[e] = 2}
      IN  /\ AlertCount >= Enough
          /\ \A a \in Accounts : features[a] = Donor[a]
          /\ shown # {}
          /\ Sample \subseteq employees =>
               Cardinality(shown) >= GraphLimit \/ Cardinality(shown) >= Cardinality(Sample)

\* A seed that writes the latest recorded score over a live one never puts an
\* alerted employee back to the score 0 of a node without one, unless a fault
\* took a write of the consumer: the score is recorded before the alert.
AlertedShown ==
    \A a \in Accounts \ lost :
      alerts[a] > 0 /\ (consumer.at = "score" => consumer.acct # a) => graph[a] \in Scores \ {0}

\* An employee the graph shows with a score has its row in PostgreSQL, so its
\* page can be opened, through all deaths of both processes.
ShownHaveRows == \A e \in Employees : graph[e] \notin {None, 0} => e \in employees
=============================================================================
