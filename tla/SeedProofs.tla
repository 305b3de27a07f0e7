------------------------------ MODULE SeedProofs ------------------------------
(***************************************************************************)
(* Proofs about Seed: type correctness, and what the pages rely on while   *)
(* seed runs and the live consumer write to the same stores: an employee   *)
(* the graph shows has its row, and an alerted one is shown with a score.  *)
(***************************************************************************)
EXTENDS Seed, TLAPS, FiniteSetTheorems

Loading == [at : {"score", "touch"}, todo : SUBSET Employees, emp : Employees, score : Scores]
Handled == [ at : {"upsert", "features", "history", "alert", "score"},
             acct : Accounts, score : Scores ]

\* What the stage says about the record.
LEMMA StageRecords ==
  ASSUME TypeOK
  PROVE  /\ seeder.at \in {"score", "touch"} => seeder \in Loading
         /\ seeder.at = "graph" => seeder \in [at : {"graph"}, todo : SUBSET Employees]
         /\ seeder.at = "features" => seeder \in [at : {"features"}, todo : SUBSET Accounts]
         /\ consumer.at # "idle" => consumer \in Handled
BY DEF TypeOK, SeederStates, ConsumerStates, Idle, Loading, Handled

\* The constants of a stage are states of the seed.
LEMMA StageStates ==
  /\ At("count", {}) \in SeederStates /\ At("insert", {}) \in SeederStates
  /\ \A S \in SUBSET Accounts : At("features", S) \in SeederStates
  /\ \A S \in SUBSET Employees : At("graph", S) \in SeederStates
  /\ FeaturesStage \in SUBSET Accounts
  /\ Idle \in SeederStates /\ Idle \in ConsumerStates
BY DEF At, SeederStates, ConsumerStates, FeaturesStage
-----------------------------------------------------------------------------
(* Type correctness                                                        *)

LEMMA InitType == Init => TypeOK
<1> SUFFICES ASSUME Init PROVE TypeOK
  OBVIOUS
<1>1. /\ history \in [Employees -> Scores] /\ alerts \in [Employees -> Nat]
      /\ features \in [Accounts -> {None, "full", "blank"}]
      /\ graph \in [Employees -> Scores \cup {None}] /\ systems \in [Employees -> 0..2]
  BY DEF Init, Scores
<1>2. files \subseteq Files /\ employees \subseteq Employees
  BY DEF Init
<1> QED
  BY <1>1, <1>2, StageStates DEF Init, TypeOK

LEMMA AccessedType ==
  ASSUME TypeOK, NEW e \in Employees, NEW n \in {1, 2}, Accessed(e, n)
  PROVE  graph' \in [Employees -> Scores \cup {None}] /\ systems' \in [Employees -> 0..2]
<1>1. (IF graph[e] = None THEN 0 ELSE graph[e]) \in Scores \cup {None}
  BY DEF TypeOK, Scores
<1>2. (IF systems[e] + n >= 2 THEN 2 ELSE systems[e] + n) \in 0..2
  BY DEF TypeOK
<1> QED
  BY <1>1, <1>2 DEF Accessed, TypeOK

LEMMA ScoredType ==
  ASSUME TypeOK, NEW e \in Employees, NEW score \in Scores, Scored(e, score)
  PROVE  graph' \in [Employees -> Scores \cup {None}] /\ systems' \in [Employees -> 0..2]
BY DEF Scored, TypeOK

LEMMA SeedType == TypeOK /\ SeedStep => TypeOK'
<1> SUFFICES ASSUME TypeOK, SeedStep PROVE TypeOK'
  OBVIOUS
<1> USE DEF TypeOK, rows, nodes, live
<1>1. CASE Begin
  BY <1>1, StageStates DEF Begin
<1>2. CASE CountAlerts
  BY <1>2, StageStates DEF CountAlerts, AlertsSkipped
<1>3. CASE InsertSample
  <2>1. PICK wobbled \in [Sample -> Wobbled] :
          /\ employees' = employees \cup Sample
          /\ history' = [e \in Employees |-> IF e \in Sample THEN wobbled[e] ELSE history[e]]
          /\ alerts' = [e \in Employees |-> IF e \in Sample \cap Mules THEN alerts[e] + 1 ELSE alerts[e]]
          /\ seeder' = IF Sample \subseteq employees' THEN At("features", FeaturesStage) ELSE seeder
    BY <1>3 DEF InsertSample, Committed
  <2>2. history' \in [Employees -> Scores]
    BY <2>1 DEF Wobbled, Below, Scores
  <2>3. alerts' \in [Employees -> Nat]
    BY <2>1
  <2>4. employees' \subseteq Employees
    BY <2>1 DEF Employees
  <2>5. seeder' \in SeederStates
    BY <2>1, StageStates
  <2> QED
    BY <1>3, <2>2, <2>3, <2>4, <2>5 DEF InsertSample
<1>4. ASSUME NEW a \in Accounts, StoreFeatures(a) PROVE TypeOK'
  <2>1. features' \in [Accounts -> {None, "full", "blank"}]
    BY <1>4, SampleAssumption DEF StoreFeatures
  <2>2. seeder' \in SeederStates
    <3>1. seeder' = [seeder EXCEPT !.todo = seeder.todo \ {a}]
      BY <1>4 DEF StoreFeatures
    <3>2. seeder \in [at : {"features"}, todo : SUBSET Accounts]
      BY <1>4, StageRecords DEF StoreFeatures
    <3> QED
      BY <3>1, <3>2 DEF SeederStates
  <2> QED
    BY <1>4, <2>1, <2>2 DEF StoreFeatures
<1>5. CASE ListEmployees
  BY <1>5, StageStates DEF ListEmployees
<1>6. ASSUME NEW e \in Employees, LoadScore(e) PROVE TypeOK'
  <2>1. seeder.todo \subseteq Employees
    BY <1>6, StageRecords DEF LoadScore
  <2>2. seeder' \in Loading
    BY <1>6, <2>1 DEF LoadScore, Loading
  <2> QED
    BY <1>6, <2>2 DEF LoadScore, Loading, SeederStates
<1>7. CASE WriteScore
  <2>1. seeder \in Loading
    BY <1>7, StageRecords DEF WriteScore
  <2>2. seeder' \in SeederStates
    BY <1>7, <2>1 DEF WriteScore, Loading, SeederStates
  <2> QED
    BY <1>7, <2>1, <2>2, ScoredType DEF WriteScore, Loading
<1>8. CASE TouchSystems
  <2>1. seeder \in Loading
    BY <1>8, StageRecords DEF TouchSystems
  <2>2. seeder' \in SeederStates
    BY <1>8, <2>1, StageStates DEF TouchSystems, Loading
  <2> QED
    BY <1>8, <2>1, <2>2, AccessedType DEF TouchSystems, Loading
<1>9. CASE Complete
  BY <1>9, StageStates DEF Complete
<1>10. CASE Die
  BY <1>10, StageStates DEF Die
<1> QED
  BY <1>1, <1>2, <1>3, <1>4, <1>5, <1>6, <1>7, <1>8, <1>9, <1>10 DEF SeedStep

LEMMA ConsumerType == TypeOK /\ ConsumerStep => TypeOK'
<1> SUFFICES ASSUME TypeOK, ConsumerStep PROVE TypeOK'
  OBVIOUS
<1> USE DEF TypeOK, rows, nodes, live
<1>1. ASSUME NEW a \in Accounts, Event(a) PROVE TypeOK'
  <2>1. consumer' \in Handled
    BY <1>1 DEF Event, Handled, Scores
  <2> QED
    BY <1>1, <2>1 DEF Event, Handled, ConsumerStates
<1>2. CASE consumer \in Handled
  <2>1. consumer.acct \in Accounts /\ consumer.acct \in Employees /\ consumer.score \in Scores
    BY <1>2 DEF Handled, Employees
  <2>2. \A at \in {"upsert", "features", "history", "alert", "score"} : Handling(at) \in ConsumerStates
    BY <1>2 DEF Handled, Handling, ConsumerStates
  <2>3. CASE Upsert
    BY <2>1, <2>2, <2>3, AccessedType DEF Upsert
  <2>4. CASE ScoreEvent
    <3>1. consumer' \in ConsumerStates
      <4>1. \A s \in Alerting : [at |-> "history", acct |-> consumer.acct, score |-> s] \in Handled
        BY <2>1 DEF Handled, Alerting, Scores
      <4> QED
        BY <2>4, <4>1, StageStates DEF ScoreEvent, Handled, ConsumerStates
    <3> QED
      BY <2>4, <3>1 DEF ScoreEvent
  <2>5. CASE RecordScore
    BY <2>1, <2>2, <2>5 DEF RecordScore
  <2>6. CASE RecordFails
    BY <2>1, <2>6, StageStates DEF RecordFails
  <2>7. CASE RaiseAlert
    BY <2>1, <2>2, <2>7, StageStates DEF RaiseAlert, Ensured
  <2>8. CASE ShowScore
    BY <2>1, <2>8, StageStates, ScoredType DEF ShowScore
  <2>9. CASE ConsumerFails
    BY <2>1, <2>2, <2>9, StageStates DEF ConsumerFails
  <2> QED
    BY <1>1, <2>3, <2>4, <2>5, <2>6, <2>7, <2>8, <2>9 DEF ConsumerStep
<1>3. CASE consumer \notin Handled
  BY <1>1, <1>3, StageRecords
  DEF ConsumerStep, Upsert, ScoreEvent, RecordScore, RecordFails, RaiseAlert, ShowScore, ConsumerFails
<1> QED
  BY <1>2, <1>3

LEMMA NextType == TypeOK /\ [Next]_vars => TypeOK'
<1> SUFFICES ASSUME TypeOK, [Next]_vars PROVE TypeOK'
  OBVIOUS
<1>1. CASE UNCHANGED vars
  BY <1>1 DEF TypeOK, vars, rows, nodes, live
<1> QED
  BY <1>1, SeedType, ConsumerType DEF Next

\* The variables hold what the stores and the two processes can hold, for every
\* sample, number of runs and number of faults.
THEOREM TypeCorrect == Spec => []TypeOK
BY InitType, NextType, PTL DEF Spec
-----------------------------------------------------------------------------
(* The employees the graph shows                                           *)

\* What the seed and the consumer are about to show has its row.
RowsInv ==
  /\ ShownHaveRows
  /\ seeder.at = "graph" => seeder.todo \subseteq employees
  /\ seeder.at \in {"score", "touch"} => seeder.todo \subseteq employees /\ seeder.emp \in employees
  /\ consumer.at = "score" => consumer.acct \in employees

LEMMA AccessedShows ==
  ASSUME TypeOK, NEW e \in Employees, NEW n, Accessed(e, n), NEW d \in Employees,
         graph'[d] \notin {None, 0}
  PROVE  graph'[d] = graph[d]
BY DEF Accessed, TypeOK

LEMMA SeedRows == TypeOK /\ RowsInv /\ SeedStep => RowsInv'
<1> SUFFICES ASSUME TypeOK, RowsInv, SeedStep PROVE RowsInv'
  OBVIOUS
<1> USE DEF RowsInv, ShownHaveRows, At, Idle, rows, nodes, live
<1>1. CASE Begin
  BY <1>1 DEF Begin
<1>2. CASE CountAlerts
  BY <1>2 DEF CountAlerts, AlertsSkipped
<1>3. CASE InsertSample
  BY <1>3 DEF InsertSample, Committed
<1>4. ASSUME NEW a \in Accounts, StoreFeatures(a) PROVE RowsInv'
  <2>1. seeder' = [seeder EXCEPT !.todo = seeder.todo \ {a}]
        /\ seeder \in [at : {"features"}, todo : SUBSET Accounts]
    BY <1>4, StageRecords DEF StoreFeatures
  <2>2. seeder'.at = "features"
    BY <2>1
  <2> QED
    BY <1>4, <2>2 DEF StoreFeatures
<1>5. CASE ListEmployees
  BY <1>5 DEF ListEmployees
<1>6. ASSUME NEW e \in Employees, LoadScore(e) PROVE RowsInv'
  BY <1>6 DEF LoadScore
<1>7. CASE WriteScore
  <2>1. seeder \in Loading /\ seeder.emp \in employees /\ seeder.todo \subseteq employees
    BY <1>7, StageRecords DEF WriteScore
  <2>2. seeder' = [seeder EXCEPT !.at = "touch"] /\ graph' = [graph EXCEPT ![seeder.emp] = seeder.score]
        /\ UNCHANGED <<employees, consumer>>
    BY <1>7 DEF WriteScore, Scored
  <2>3. seeder'.at = "touch" /\ seeder'.todo = seeder.todo /\ seeder'.emp = seeder.emp
    BY <2>1, <2>2 DEF Loading
  <2> QED
    BY <2>1, <2>2, <2>3 DEF TypeOK
<1>8. CASE TouchSystems
  <2>1. seeder.emp \in Employees
    BY <1>8, StageRecords DEF TouchSystems, Loading
  <2> QED
    BY <1>8, <2>1, AccessedShows DEF TouchSystems
<1>9. CASE Complete
  BY <1>9 DEF Complete
<1>10. CASE Die
  BY <1>10 DEF Die
<1> QED
  BY <1>1, <1>2, <1>3, <1>4, <1>5, <1>6, <1>7, <1>8, <1>9, <1>10 DEF SeedStep

LEMMA ConsumerRows == TypeOK /\ RowsInv /\ ConsumerStep => RowsInv'
<1> SUFFICES ASSUME TypeOK, RowsInv, ConsumerStep PROVE RowsInv'
  OBVIOUS
<1> USE DEF RowsInv, ShownHaveRows, Idle, rows, nodes, live
<1>1. ASSUME NEW a \in Accounts, Event(a) PROVE RowsInv'
  BY <1>1 DEF Event
<1>2. CASE consumer \in Handled
  <2>1. consumer.acct \in Accounts /\ consumer.acct \in Employees
    BY <1>2 DEF Handled, Employees
  <2>2. \A at \in {"upsert", "features", "history", "alert", "score"} :
          Handling(at).at = at /\ Handling(at).acct = consumer.acct
    BY <1>2 DEF Handled, Handling
  <2>3. CASE Upsert
    BY <2>1, <2>2, <2>3, AccessedShows DEF Upsert
  <2>4. CASE ScoreEvent
    BY <2>4 DEF ScoreEvent
  <2>5. CASE RecordScore
    BY <2>2, <2>5 DEF RecordScore
  <2>6. CASE RecordFails
    BY <2>6 DEF RecordFails
  <2>7. CASE RaiseAlert
    BY <2>2, <2>7 DEF RaiseAlert, Ensured
  <2>8. CASE ShowScore
    BY <2>1, <2>8 DEF ShowScore, Scored, TypeOK
  <2>9. CASE ConsumerFails
    BY <2>2, <2>9 DEF ConsumerFails
  <2> QED
    BY <1>1, <2>3, <2>4, <2>5, <2>6, <2>7, <2>8, <2>9 DEF ConsumerStep
<1>3. CASE consumer \notin Handled
  BY <1>1, <1>3, StageRecords
  DEF ConsumerStep, Upsert, ScoreEvent, RecordScore, RecordFails, RaiseAlert, ShowScore, ConsumerFails
<1> QED
  BY <1>2, <1>3

\* Whoever the graph shows with a score has a row, so the page can be opened:
\* the row is committed before either process writes a score.
THEOREM ShownExist == Spec => []ShownHaveRows
<1>1. Init => RowsInv
  BY DEF Init, RowsInv, ShownHaveRows, Idle
<1>2. TypeOK /\ RowsInv /\ [Next]_vars => RowsInv'
  BY SeedRows, ConsumerRows DEF Next, vars, rows, nodes, live, RowsInv, ShownHaveRows
<1>3. RowsInv => ShownHaveRows
  BY DEF RowsInv
<1> QED
  BY TypeCorrect, <1>1, <1>2, <1>3, PTL DEF Spec
-----------------------------------------------------------------------------
(* The alerted are shown with a score                                      *)

Positive == Scores \ {0}

\* An employee has a row only after its score was recorded, unless a write was
\* lost: what the seed reads for a listed employee is positive.
RecordedInv ==
  \A a \in Accounts \ lost :
    /\ a \in recent \cup employees => history[a] \in Positive
    /\ consumer.at \in {"alert", "score"} /\ consumer.acct = a => history[a] \in Positive
    /\ seeder.at = "score" /\ seeder.emp = a => seeder.score \in Positive

\* An event goes on after its score only when it alerts.
AlertingInv == consumer.at \in {"history", "alert", "score"} => consumer.score \in Alerting

AlertedInv == AlertedShown /\ RecordedInv /\ AlertingInv

\* An access keeps the score of a node that has one.
LEMMA AccessedKeeps ==
  ASSUME TypeOK, NEW e \in Employees, NEW n, Accessed(e, n), NEW a \in Employees,
         graph[a] \in Positive
  PROVE  graph'[a] \in Positive
BY NoneAssumption DEF Accessed, TypeOK, Positive

LEMMA SeedAlerted == TypeOK /\ RowsInv /\ AlertedInv /\ SeedStep => AlertedInv'
<1> SUFFICES ASSUME TypeOK, RowsInv, AlertedInv, SeedStep PROVE AlertedInv'
  OBVIOUS
<1> USE DEF AlertedInv, AlertedShown, RecordedInv, AlertingInv, Positive, At, Idle, rows, nodes, live
<1>0. \A a \in Accounts : a \in Employees /\ a \notin Sample
  BY SampleAssumption DEF Employees
<1>1. CASE Begin
  BY <1>1 DEF Begin
<1>2. CASE CountAlerts
  BY <1>2 DEF CountAlerts, AlertsSkipped
<1>3. CASE InsertSample
  <2>1. PICK wobbled \in [Sample -> Wobbled] :
          /\ employees' = employees \cup Sample
          /\ history' = [e \in Employees |-> IF e \in Sample THEN wobbled[e] ELSE history[e]]
          /\ alerts' = [e \in Employees |-> IF e \in Sample \cap Mules THEN alerts[e] + 1 ELSE alerts[e]]
          /\ seeder' = IF Sample \subseteq employees' THEN At("features", FeaturesStage) ELSE seeder
    BY <1>3 DEF InsertSample, Committed
  <2>2. \A a \in Accounts : history'[a] = history[a] /\ alerts'[a] = alerts[a]
                           /\ (a \in employees' <=> a \in employees)
    BY <1>0, <2>1
  <2>3. seeder'.at # "score" /\ UNCHANGED <<graph, consumer, recent, lost>>
    BY <1>3, <2>1 DEF InsertSample
  <2> QED
    BY <2>2, <2>3
<1>4. ASSUME NEW a \in Accounts, StoreFeatures(a) PROVE AlertedInv'
  <2>1. seeder' = [seeder EXCEPT !.todo = seeder.todo \ {a}]
        /\ seeder \in [at : {"features"}, todo : SUBSET Accounts]
    BY <1>4, StageRecords DEF StoreFeatures
  <2>2. seeder'.at = "features"
    BY <2>1
  <2> QED
    BY <1>4, <2>2 DEF StoreFeatures
<1>5. CASE ListEmployees
  BY <1>5 DEF ListEmployees
<1>6. ASSUME NEW e \in Employees, LoadScore(e) PROVE AlertedInv'
  <2>1. e \in employees /\ seeder'.emp = e /\ seeder'.score = history[e] /\ seeder'.at = "score"
    BY <1>6 DEF LoadScore, RowsInv
  <2> QED
    BY <1>6, <2>1 DEF LoadScore
<1>7. CASE WriteScore
  <2>1. seeder \in Loading
    BY <1>7, StageRecords DEF WriteScore
  <2>2. seeder' = [seeder EXCEPT !.at = "touch"] /\ graph' = [graph EXCEPT ![seeder.emp] = seeder.score]
        /\ UNCHANGED <<rows, consumer, recent, lost>>
    BY <1>7 DEF WriteScore, Scored
  <2>3. seeder'.at = "touch" /\ seeder.emp \in Employees
    BY <2>1, <2>2 DEF Loading
  <2>4. \A a \in Accounts : seeder.emp # a => graph'[a] = graph[a]
    BY <1>0, <2>2 DEF TypeOK
  <2>5. graph'[seeder.emp] = seeder.score
    BY <2>2, <2>3 DEF TypeOK
  <2>6. \A a \in Accounts \ lost : seeder.emp = a => seeder.score \in Positive
    BY <1>7 DEF WriteScore
  <2> QED
    BY <1>0, <2>2, <2>3, <2>4, <2>5, <2>6
<1>8. CASE TouchSystems
  <2>1. seeder.emp \in Employees
    BY <1>8, StageRecords DEF TouchSystems, Loading
  <2>2. \A a \in Accounts : graph[a] \in Positive => graph'[a] \in Positive
    BY <1>0, <1>8, <2>1, AccessedKeeps DEF TouchSystems
  <2> QED
    BY <1>8, <2>2 DEF TouchSystems
<1>9. CASE Complete
  BY <1>9 DEF Complete
<1>10. CASE Die
  BY <1>10 DEF Die
<1> QED
  BY <1>1, <1>2, <1>3, <1>4, <1>5, <1>6, <1>7, <1>8, <1>9, <1>10 DEF SeedStep

LEMMA ConsumerAlerted == TypeOK /\ AlertedInv /\ ConsumerStep => AlertedInv'
<1> SUFFICES ASSUME TypeOK, AlertedInv, ConsumerStep PROVE AlertedInv'
  OBVIOUS
<1> USE DEF AlertedInv, AlertedShown, RecordedInv, AlertingInv, Idle, rows, nodes, live
<1>0. \A a \in Accounts : a \in Employees
  BY DEF Employees
<1>1. ASSUME NEW a \in Accounts, Event(a) PROVE AlertedInv'
  BY <1>1 DEF Event
<1>2. CASE consumer \in Handled
  <2>1. consumer.acct \in Accounts /\ consumer.acct \in Employees
    BY <1>2 DEF Handled, Employees
  <2>2. \A at \in {"upsert", "features", "history", "alert", "score"} :
          /\ Handling(at).at = at /\ Handling(at).acct = consumer.acct
          /\ Handling(at).score = consumer.score
    BY <1>2 DEF Handled, Handling
  <2>3. CASE Upsert
    <3>1. \A a \in Accounts : graph[a] \in Positive => graph'[a] \in Positive
      BY <1>0, <2>1, <2>3, AccessedKeeps DEF Upsert
    <3> QED
      BY <2>2, <2>3, <3>1 DEF Upsert, Positive
  <2>4. CASE ScoreEvent
    <3>1. CASE consumer' = Idle
      BY <2>4, <3>1 DEF ScoreEvent
    <3>2. ASSUME NEW s \in Alerting, consumer' = [at |-> "history", acct |-> consumer.acct, score |-> s]
          PROVE  AlertedInv'
      BY <2>4, <3>2 DEF ScoreEvent
    <3> QED
      BY <2>4, <3>1, <3>2 DEF ScoreEvent
  <2>5. CASE RecordScore
    <3>1. CASE Throttled(consumer.acct) /\ UNCHANGED <<history, recent>>
      BY <2>2, <2>5, <3>1 DEF RecordScore, Throttled
    <3>2. CASE /\ history' = [history EXCEPT ![consumer.acct] = consumer.score]
               /\ recent' = recent \cup {consumer.acct}
      <4>1. consumer.score \in Positive
        BY <2>5 DEF RecordScore, Alerting, Positive, Scores
      <4>2. history'[consumer.acct] = consumer.score
        BY <2>1, <3>2 DEF TypeOK
      <4>3. \A a \in Accounts : a # consumer.acct => history'[a] = history[a]
        BY <1>0, <3>2 DEF TypeOK
      <4>4. /\ consumer'.at = "alert" /\ consumer'.acct = consumer.acct
            /\ consumer'.score = consumer.score
            /\ UNCHANGED <<employees, alerts, graph, seeder, lost>>
        BY <2>2, <2>5 DEF RecordScore
      <4> QED
        BY <2>5, <3>2, <4>1, <4>2, <4>3, <4>4 DEF RecordScore
    <3> QED
      BY <2>5, <3>1, <3>2 DEF RecordScore
  <2>6. CASE RecordFails
    BY <2>6 DEF RecordFails
  <2>7. CASE RaiseAlert
    <3>1. CASE consumer' = Idle /\ alerts[consumer.acct] > 0 /\ UNCHANGED alerts
      BY <2>7, <3>1 DEF RaiseAlert, Ensured
    <3>2. CASE /\ alerts' = [alerts EXCEPT ![consumer.acct] = @ + 1]
               /\ consumer' = Handling("score")
      <4>1. \A a \in Accounts : a # consumer.acct => alerts'[a] = alerts[a]
        BY <1>0, <3>2 DEF TypeOK
      <4> QED
        BY <2>2, <2>7, <3>2, <4>1 DEF RaiseAlert, Ensured
    <3> QED
      BY <2>7, <3>1, <3>2 DEF RaiseAlert
  <2>8. CASE ShowScore
    <3>1. consumer.score \in Scores \ {0}
      BY <2>8 DEF ShowScore, Alerting, Scores
    <3>2. graph'[consumer.acct] = consumer.score
      BY <2>1, <2>8 DEF ShowScore, Scored, TypeOK
    <3>3. \A a \in Accounts : a # consumer.acct => graph'[a] = graph[a]
      BY <1>0, <2>8 DEF ShowScore, Scored, TypeOK
    <3> QED
      BY <2>8, <3>1, <3>2, <3>3 DEF ShowScore
  <2>9. CASE ConsumerFails
    BY <2>2, <2>9 DEF ConsumerFails
  <2> QED
    BY <1>1, <2>3, <2>4, <2>5, <2>6, <2>7, <2>8, <2>9 DEF ConsumerStep
<1>3. CASE consumer \notin Handled
  BY <1>1, <1>3, StageRecords
  DEF ConsumerStep, Upsert, ScoreEvent, RecordScore, RecordFails, RaiseAlert, ShowScore, ConsumerFails
<1> QED
  BY <1>2, <1>3

\* A seed that overwrites the live scores of the graph never hides an alerted
\* employee, for any number of runs, events and deaths, unless the consumer lost
\* a write of that employee.
THEOREM AlertedAreShown == Spec => []AlertedShown
<1>1. Init => RowsInv /\ AlertedInv
  BY DEF Init, RowsInv, ShownHaveRows, AlertedInv, AlertedShown, RecordedInv, AlertingInv, Idle,
         Employees
<1>2. TypeOK /\ RowsInv /\ AlertedInv /\ [Next]_vars => RowsInv' /\ AlertedInv'
  <2>1. CASE UNCHANGED vars
    BY <2>1 DEF vars, rows, nodes, live, RowsInv, ShownHaveRows, AlertedInv, AlertedShown,
                RecordedInv, AlertingInv
  <2> QED
    BY <2>1, SeedRows, ConsumerRows, SeedAlerted, ConsumerAlerted DEF Next
<1>3. AlertedInv => AlertedShown
  BY DEF AlertedInv
<1> QED
  BY TypeCorrect, <1>1, <1>2, <1>3, PTL DEF Spec
-----------------------------------------------------------------------------
(* The sample is inserted once                                             *)

\* The sample's rows come together, and a run that is past its count with the
\* sample there has found its mules' alerts and inserts nothing.
SampleInv ==
  /\ SampleOnce
  /\ employees \cap Sample \in {{}, Sample}
  /\ seeder.at = "insert" => employees \cap Sample = {}

LEMMA FiniteEmployees ==
  /\ IsFiniteSet(Employees) /\ IsFiniteSet(Mules) /\ IsFiniteSet(Sample)
  /\ Cardinality(Mules) \in Nat /\ Cardinality(Sample) \in Nat
<1>1. IsFiniteSet(Employees)
  BY SampleAssumption, FS_Union DEF Employees
<1>2. IsFiniteSet(Mules)
  BY SampleAssumption, FS_Subset
<1> QED
  BY <1>1, <1>2, SampleAssumption, FS_CardinalityType

\* There are mules, since there are enough of them.
LEMMA SomeMule == \E e \in Sample : e \in Mules
<1>1. Mules # {}
  BY SampleAssumption, BoundAssumption, FS_EmptySet
<1> QED
  BY <1>1, SampleAssumption

\* The table is finite and its rows are what the employees' counts say.
LEMMA RowsFinite ==
  ASSUME TypeOK
  PROVE  /\ IsFiniteSet(AlertRows) /\ AlertCount \in Nat
         /\ \A e, n : <<e, n>> \in AlertRows <=> e \in Employees /\ n \in 1..alerts[e]
<1> DEFINE Of == [e \in Employees |-> {e} \X (1..alerts[e])]
           Parts == {{e} \X (1..alerts[e]) : e \in Employees}
<1>1. Of \in Surjection(Employees, Parts)
  BY DEF Surjection
<1>2. IsFiniteSet(Parts)
  BY <1>1, FiniteEmployees, FS_Surjection
<1>3. ASSUME NEW T \in Parts PROVE IsFiniteSet(T)
  <2>1. PICK e \in Employees : T = {e} \X (1..alerts[e])
    OBVIOUS
  <2>2. IsFiniteSet({e}) /\ IsFiniteSet(1..alerts[e])
    <3>1. alerts[e] \in Int /\ 1 \in Int
      BY DEF TypeOK
    <3> QED
      BY <3>1, FS_Singleton, FS_Interval
  <2> QED
    BY <2>1, <2>2, FS_Product
<1>4. IsFiniteSet(UNION Parts)
  BY <1>2, <1>3, FS_UNION
<1>5. IsFiniteSet(AlertRows)
  BY <1>4 DEF AlertRows
<1>6. AlertCount \in Nat
  BY <1>5, FS_CardinalityType DEF AlertCount
<1>7. \A e, n : <<e, n>> \in AlertRows <=> e \in Employees /\ n \in 1..alerts[e]
  BY DEF AlertRows
<1> QED
  BY <1>5, <1>6, <1>7

\* Rows are never deleted, so their count never falls.
LEMMA CountGrows ==
  ASSUME TypeOK, TypeOK', \A e \in Employees : alerts'[e] >= alerts[e]
  PROVE  AlertCount' >= AlertCount
<1>1. IsFiniteSet(AlertRows') /\ AlertCount' = Cardinality(AlertRows')
  <2>1. TypeOK' => IsFiniteSet(AlertRows)'
    BY RowsFinite, PTL
  <2> QED
    BY <2>1 DEF AlertCount
<1>2. AlertRows \subseteq AlertRows'
  <2>1. \A e \in Employees : 1..alerts[e] \subseteq 1..alerts'[e]
    BY DEF TypeOK
  <2> QED
    BY <2>1 DEF AlertRows
<1> QED
  BY <1>1, <1>2, FS_Subset DEF AlertCount

\* With an alert of each mule the table holds enough.
MulesAlert == \A e \in Mules : alerts[e] >= 1

LEMMA MulesEnough == TypeOK /\ MulesAlert => AlertCount >= Enough
<1> SUFFICES ASSUME TypeOK, MulesAlert PROVE AlertCount >= Enough
  OBVIOUS
<1> DEFINE firsts == Mules \X {1}
<1>1. firsts \subseteq AlertRows
  <2>1. \A e \in Mules : e \in Employees /\ 1 \in 1..alerts[e]
    BY SampleAssumption DEF Employees, TypeOK, MulesAlert
  <2> QED
    BY <2>1, RowsFinite
<1>2. Cardinality(firsts) = Cardinality(Mules)
  <2>1. IsFiniteSet({1}) /\ Cardinality({1}) = 1
    BY FS_Singleton
  <2>2. Cardinality(firsts) = Cardinality(Mules) * Cardinality({1})
    BY <2>1, FiniteEmployees, FS_Product
  <2> HIDE DEF firsts
  <2> QED
    BY <2>1, <2>2, FiniteEmployees
<1>3. Cardinality(firsts) <= Cardinality(AlertRows)
  BY <1>1, RowsFinite, FS_Subset
<1>4. Cardinality(Mules) >= Enough /\ Enough \in Nat
  BY SampleAssumption, BoundAssumption
<1> QED
  BY <1>2, <1>3, <1>4, FiniteEmployees, RowsFinite DEF AlertCount

\* What InsertSample does, in one run as in the next.
LEMMA Inserted ==
  ASSUME TypeOK, SampleInv, InsertSample
  PROVE  /\ employees' = employees \cup Sample
         /\ seeder' = At("features", FeaturesStage)
         /\ \A e \in Employees :
              alerts'[e] = IF e \in Mules THEN 1 ELSE alerts[e]
         /\ \A e \in Sample : alerts[e] = 0
<1>1. PICK wobbled \in [Sample -> Wobbled] :
        /\ employees' = employees \cup Sample
        /\ alerts' = [e \in Employees |-> IF e \in Sample \cap Mules THEN alerts[e] + 1 ELSE alerts[e]]
        /\ seeder' = IF Sample \subseteq employees' THEN At("features", FeaturesStage) ELSE seeder
  BY DEF InsertSample, Committed
<1>2. \A e \in Sample : alerts[e] = 0
  BY SomeMule DEF SampleInv, SampleOnce, InsertSample
<1> QED
  BY <1>1, <1>2, SampleAssumption

LEMMA SeedSampled == TypeOK /\ SampleInv /\ SeedStep => SampleInv'
<1> SUFFICES ASSUME TypeOK, SampleInv, SeedStep PROVE SampleInv'
  OBVIOUS
<1> USE DEF At, Idle, rows
<1>1. CASE CountAlerts
  <2>1. AlertCount >= Enough \/ ~(Sample \subseteq employees)
    <3>1. Sample \subseteq employees => \A e \in Mules : alerts[e] >= 1
      BY SampleAssumption DEF SampleInv, SampleOnce
    <3> QED
      BY <3>1, MulesEnough DEF MulesAlert
  <2>2. seeder'.at = "insert" => employees \cap Sample = {}
    BY <1>1, <2>1, RowsFinite, BoundAssumption DEF CountAlerts, AlertsSkipped, SampleInv
  <2> QED
    BY <1>1, <2>2 DEF CountAlerts, SampleInv, SampleOnce
<1>2. CASE InsertSample
  <2>1. seeder'.at # "insert"
    BY <1>2, Inserted
  <2>2. SampleOnce'
    BY <1>2, Inserted, SampleAssumption DEF SampleOnce, Employees
  <2> QED
    BY <1>2, <2>1, <2>2, Inserted DEF SampleInv
<1>3. CASE UNCHANGED <<employees, alerts>> /\ seeder'.at # "insert"
  BY <1>3 DEF SampleInv, SampleOnce
<1>4. ASSUME NEW a \in Accounts, StoreFeatures(a)
      PROVE  UNCHANGED <<employees, alerts>> /\ seeder'.at # "insert"
  <2>1. seeder' = [seeder EXCEPT !.todo = seeder.todo \ {a}]
        /\ seeder \in [at : {"features"}, todo : SUBSET Accounts]
    BY <1>4, StageRecords DEF StoreFeatures
  <2> QED
    BY <1>4, <2>1 DEF StoreFeatures
<1>5. CASE WriteScore
  <2>1. seeder' = [seeder EXCEPT !.at = "touch"] /\ seeder \in Loading
    BY <1>5, StageRecords DEF WriteScore
  <2>2. seeder'.at = "touch"
    BY <2>1 DEF Loading
  <2> QED
    BY <1>3, <1>5, <2>2 DEF WriteScore
<1>6. CASE Begin \/ ListEmployees \/ TouchSystems \/ Complete \/ Die \/ \E e \in Employees : LoadScore(e)
  BY <1>3, <1>6 DEF Begin, ListEmployees, TouchSystems, Complete, Die, LoadScore
<1> QED
  BY <1>1, <1>2, <1>3, <1>4, <1>5, <1>6 DEF SeedStep

\* The consumer writes rows of synthetic accounts only.
LEMMA ConsumerWrites ==
  ASSUME TypeOK, ConsumerStep
  PROVE  /\ UNCHANGED <<seeder, files, features, completed>>
         /\ employees \subseteq employees' /\ employees' \cap Sample = employees \cap Sample
         /\ \A e \in Sample : alerts'[e] = alerts[e]
         /\ \A e \in Employees : alerts'[e] >= alerts[e]
         /\ \A e \in Employees : alerts'[e] > 0 => alerts[e] > 0 \/ e \in employees'
<1> USE DEF rows, nodes, live
<1>1. CASE RaiseAlert
  <2>1. consumer.acct \in Accounts
    BY <1>1, StageRecords DEF RaiseAlert, Handled
  <2>2. consumer.acct \notin Sample /\ consumer.acct \in Employees
    BY <2>1, SampleAssumption DEF Employees
  <2>3. employees' = employees \cup {consumer.acct}
    BY <1>1 DEF RaiseAlert, Ensured
  <2>4. alerts' = alerts \/ alerts' = [alerts EXCEPT ![consumer.acct] = alerts[consumer.acct] + 1]
    BY <1>1 DEF RaiseAlert
  <2>5. \A e \in Employees : \/ alerts'[e] = alerts[e]
                             \/ e = consumer.acct /\ alerts'[e] = alerts[e] + 1
    BY <2>4 DEF TypeOK
  <2>6. \A e \in Employees : alerts[e] \in Nat
    BY DEF TypeOK
  <2> QED
    BY <1>1, <2>2, <2>3, <2>5, <2>6 DEF RaiseAlert, Employees
<1>2. CASE UNCHANGED <<employees, alerts, seeder, files, features, completed>>
  <2>1. \A e \in Employees : alerts[e] \in Nat
    BY DEF TypeOK
  <2> QED
    BY <1>2, <2>1
<1> QED
  BY <1>1, <1>2
  DEF ConsumerStep, Event, Upsert, ScoreEvent, RecordScore, RecordFails, ShowScore, ConsumerFails

LEMMA ConsumerSampled == TypeOK /\ SampleInv /\ ConsumerStep => SampleInv'
<1> SUFFICES ASSUME TypeOK, SampleInv, ConsumerStep PROVE SampleInv'
  OBVIOUS
<1>1. Sample \subseteq employees' <=> Sample \subseteq employees
  BY ConsumerWrites
<1>2. SampleOnce'
  BY <1>1, ConsumerWrites DEF SampleInv, SampleOnce
<1> QED
  BY <1>2, ConsumerWrites DEF SampleInv

LEMMA InitSampled == Init => SampleInv
BY SomeMule DEF Init, SampleInv, SampleOnce, Idle, Employees

LEMMA NextSampled == TypeOK /\ SampleInv /\ [Next]_vars => SampleInv'
BY SeedSampled, ConsumerSampled DEF Next, vars, rows, SampleInv, SampleOnce

\* However often the seed dies and is repeated, and whatever alerts the consumer
\* inserts between its count and its commit, the sample is there as a whole or not
\* at all, each mule of it with exactly one alert (seed_alerts_and_employees).
THEOREM SampledOnce == Spec => []SampleOnce
<1>1. SampleInv => SampleOnce
  BY DEF SampleInv
<1> QED
  BY TypeCorrect, InitSampled, NextSampled, <1>1, PTL DEF Spec
-----------------------------------------------------------------------------
(* What a complete run leaves is usable                                    *)

AtGraph == seeder.at \in {"graph", "score", "touch"}
Shown == {e \in employees : graph[e] # None /\ systems[e] = 2}
Owed == IF seeder.at = "graph" THEN seeder.todo
        ELSE IF seeder.at \in {"score", "touch"} THEN seeder.todo \cup {seeder.emp}
        ELSE {}
\* A set of employees the graph may stop at; `whole` when the sample is among
\* the rows.
Plenty(S, whole) ==
  /\ S # {}
  /\ whole => Cardinality(S) >= GraphLimit \/ Cardinality(S) >= Cardinality(Sample)
Whole == Sample \subseteq employees
Filled(done) == \A a \in done : features[a] = Donor[a]

\* Each stage of a run knows what the stages before it left, and what is shown
\* with what the run has still to show is plenty.
UsableInv ==
  /\ \A e \in Employees : alerts[e] > 0 => e \in employees
  /\ seeder.at = "touch" => graph[seeder.emp] # None
  /\ Files \subseteq files =>
       /\ seeder.at = "features" \/ AtGraph \/ completed => AlertCount >= Enough
       /\ seeder.at = "features" => Filled(Accounts \ seeder.todo)
       /\ AtGraph \/ completed => Filled(Accounts)
       /\ AtGraph => Plenty(Shown \cup Owed, Whole)
       /\ completed => Plenty(Shown, Whole) /\ seeder.at # "insert"

LEMMA PlentyMore ==
  ASSUME NEW S, NEW T, NEW whole, NEW still, Plenty(S, whole), S \subseteq T,
         T \subseteq Employees, still => whole
  PROVE  Plenty(T, still)
<1>1. IsFiniteSet(T) /\ IsFiniteSet(S)
  BY FiniteEmployees, FS_Subset
<1>2. /\ Cardinality(S) <= Cardinality(T)
      /\ Cardinality(S) \in Nat /\ Cardinality(T) \in Nat
  BY <1>1, FS_Subset, FS_CardinalityType
<1> QED
  BY <1>2, FiniteEmployees, BoundAssumption DEF Plenty

\* Enough alerts are alerts of somebody, who has a row.
LEMMA SomeEmployee ==
  ASSUME TypeOK, UsableInv, AlertCount >= Enough
  PROVE  employees # {}
<1>1. AlertRows # {}
  BY BoundAssumption, FS_EmptySet DEF AlertCount
<1>2. PICK row \in AlertRows : TRUE
  BY <1>1
<1>3. PICK e \in Employees : row \in {e} \X (1..alerts[e])
  BY DEF AlertRows
<1>4. alerts[e] > 0
  BY <1>3 DEF TypeOK
<1> QED
  BY <1>4 DEF UsableInv

\* Whom the run lists is plenty.
LEMMA ListedPlenty ==
  ASSUME TypeOK, employees # {}, NEW S \in SUBSET employees,
         Cardinality(S) = IF Cardinality(employees) <= GraphLimit THEN Cardinality(employees)
                          ELSE GraphLimit
  PROVE  Plenty(S, Whole)
<1>1. IsFiniteSet(employees) /\ IsFiniteSet(S)
  BY FiniteEmployees, FS_Subset DEF TypeOK
<1>2. Cardinality(employees) \in Nat /\ Cardinality(employees) # 0 /\ Cardinality(S) \in Nat
  BY <1>1, FS_CardinalityType, FS_EmptySet
<1>3. Cardinality(S) # 0
  BY <1>2, BoundAssumption
<1>4. S # {}
  BY <1>3, FS_EmptySet
<1>5. Whole => Cardinality(Sample) <= Cardinality(employees)
  BY <1>1, FS_Subset DEF Whole
<1> QED
  BY <1>2, <1>4, <1>5, FiniteEmployees, BoundAssumption DEF Plenty

\* Nothing that was shown is taken away again.
LEMMA ShownGrows ==
  ASSUME TypeOK, TypeOK', employees \subseteq employees',
         \/ UNCHANGED nodes
         \/ \E e \in Employees, n \in {1, 2} : Accessed(e, n)
         \/ \E e \in Employees, score \in Scores : Scored(e, score)
  PROVE  /\ Shown \subseteq Shown' /\ Shown' \subseteq Employees
         /\ \A e \in Employees : graph[e] # None => graph'[e] # None
<1>0. 0 # None /\ \A score \in Scores : score # None
  BY NoneAssumption DEF Scores
<1>1. \A e \in Employees : /\ graph[e] # None => graph'[e] # None
                           /\ systems[e] = 2 => systems'[e] = 2
  <2>1. CASE UNCHANGED nodes
    BY <2>1 DEF nodes
  <2>2. ASSUME NEW e \in Employees, NEW n \in {1, 2}, Accessed(e, n)
        PROVE  \A d \in Employees : /\ graph[d] # None => graph'[d] # None
                                    /\ systems[d] = 2 => systems'[d] = 2
    BY <1>0, <2>2 DEF Accessed, TypeOK
  <2>3. ASSUME NEW e \in Employees, NEW score \in Scores, Scored(e, score)
        PROVE  \A d \in Employees : /\ graph[d] # None => graph'[d] # None
                                    /\ systems[d] = 2 => systems'[d] = 2
    BY <1>0, <2>3 DEF Scored, TypeOK
  <2> QED
    BY <2>1, <2>2, <2>3
<1> QED
  BY <1>1 DEF Shown, TypeOK

\* A step that neither moves the run on nor touches features keeps all of it.
LEMMA RunWaits ==
  ASSUME TypeOK, TypeOK', UsableInv, UNCHANGED <<seeder, files, features, completed>>,
         Shown \subseteq Shown', Shown' \subseteq Employees, Owed \subseteq Employees,
         \A e \in Employees : graph[e] # None => graph'[e] # None,
         AlertCount' >= AlertCount, Whole' => Whole,
         \A e \in Employees : alerts'[e] > 0 => e \in employees'
  PROVE  UsableInv'
<1>1. Owed' = Owed /\ AtGraph' = AtGraph
  BY DEF Owed, AtGraph
<1>2. seeder.at = "touch" => seeder.emp \in Employees
  BY StageRecords DEF Loading
<1>3. Plenty(Shown \cup Owed, Whole) => Plenty((Shown \cup Owed)', Whole')
  BY <1>1, PlentyMore
<1>4. Plenty(Shown, Whole) => Plenty(Shown', Whole')
  BY PlentyMore
<1>5. \A S : Filled(S)' = Filled(S)
  BY DEF Filled
<1>6. AlertCount \in Nat /\ AlertCount' \in Nat /\ Enough \in Nat
  <2>1. TypeOK' => IsFiniteSet(AlertRows)'
    BY RowsFinite, PTL
  <2> QED
    BY <2>1, RowsFinite, BoundAssumption, FS_CardinalityType DEF AlertCount
<1>7. AlertCount >= Enough => AlertCount' >= Enough
  BY <1>6
<1> QED
  BY <1>1, <1>2, <1>3, <1>4, <1>5, <1>7 DEF UsableInv, Filled

LEMMA OwedEmployees == TypeOK => Owed \subseteq Employees
BY StageRecords DEF Owed, Loading

LEMMA ConsumerUsable == TypeOK /\ TypeOK' /\ UsableInv /\ ConsumerStep => UsableInv'
<1> SUFFICES ASSUME TypeOK, TypeOK', UsableInv, ConsumerStep PROVE UsableInv'
  OBVIOUS
<1>1. \/ UNCHANGED nodes
      \/ \E e \in Employees, n \in {1, 2} : Accessed(e, n)
      \/ \E e \in Employees, score \in Scores : Scored(e, score)
  <2>1. consumer.at # "idle" => consumer.acct \in Employees /\ consumer.score \in Scores
    BY StageRecords DEF Handled, Employees
  <2>2. CASE Upsert
    BY <2>1, <2>2 DEF Upsert
  <2>3. CASE ShowScore
    BY <2>1, <2>3 DEF ShowScore
  <2> QED
    BY <2>2, <2>3
    DEF ConsumerStep, Event, ScoreEvent, RecordScore, RecordFails, RaiseAlert, ConsumerFails, nodes
<1>2. /\ Shown \subseteq Shown' /\ Shown' \subseteq Employees
      /\ \A e \in Employees : graph[e] # None => graph'[e] # None
  BY <1>1, ConsumerWrites, ShownGrows
<1>3. AlertCount' >= AlertCount
  BY ConsumerWrites, CountGrows
<1>4. \A e \in Employees : alerts'[e] > 0 => e \in employees'
  BY ConsumerWrites DEF UsableInv
<1>5. Whole' => Whole
  BY ConsumerWrites DEF Whole
<1> QED
  BY <1>2, <1>3, <1>4, <1>5, ConsumerWrites, OwedEmployees, RunWaits

LEMMA SeedUsable ==
  TypeOK /\ TypeOK' /\ RowsInv /\ SampleInv /\ UsableInv /\ SeedStep => UsableInv'
<1> SUFFICES ASSUME TypeOK, TypeOK', RowsInv, SampleInv, UsableInv, SeedStep PROVE UsableInv'
  OBVIOUS
<1> USE DEF At, Idle, rows, nodes
<1>0. AlertCount \in Nat /\ Enough \in Nat /\ GraphLimit \in Nat
  BY RowsFinite, BoundAssumption
<1>1. CASE Begin \/ Die
  <2>1. UNCHANGED <<employees, alerts, graph, systems, features, files, completed>>
        /\ seeder'.at \in {"count", "idle"}
    BY <1>1 DEF Begin, Die
  <2> QED
    BY <2>1 DEF UsableInv, AtGraph, Filled, AlertCount, AlertRows, Shown, Whole
<1>2. CASE CountAlerts
  <2>1. UNCHANGED <<employees, alerts, graph, systems, features, files, completed>>
    BY <1>2 DEF CountAlerts
  <2>2. Files \subseteq files =>
          \/ seeder' = At("insert", {}) /\ ~(AlertCount >= Enough)
          \/ seeder' = At("features", Accounts) /\ AlertCount >= Enough
    BY <1>0, <1>2 DEF CountAlerts, AlertsSkipped, FeaturesStage, Files
  <2>3. seeder'.at # "touch"
    BY <1>2 DEF CountAlerts, AlertsSkipped
  <2> QED
    BY <2>1, <2>2, <2>3 DEF UsableInv, AtGraph, Filled, AlertCount, AlertRows, Shown, Whole
<1>3. CASE InsertSample
  <2>1. UNCHANGED <<graph, systems, features, files, completed>> /\ seeder.at = "insert"
    BY <1>3 DEF InsertSample
  <2>2. AlertCount' >= Enough
    <3>1. MulesAlert'
      BY <1>3, Inserted, SampleAssumption DEF Employees, MulesAlert
    <3>2. TypeOK' /\ MulesAlert' => (AlertCount >= Enough)'
      BY MulesEnough, PTL
    <3> QED
      BY <3>1, <3>2
  <2>3. \A e \in Employees : alerts'[e] > 0 => e \in employees'
    BY <1>3, Inserted, SampleAssumption DEF UsableInv
  <2>4. Files \subseteq files => ~completed /\ seeder' = At("features", Accounts)
    BY <1>3, <2>1, Inserted DEF UsableInv, FeaturesStage
  <2>5. seeder'.at = "features"
    BY <1>3, Inserted
  <2> QED
    BY <2>1, <2>2, <2>3, <2>4, <2>5 DEF UsableInv, AtGraph, Filled
<1>4. ASSUME NEW a \in Accounts, StoreFeatures(a) PROVE UsableInv'
  <2>1. /\ UNCHANGED <<employees, alerts, graph, systems, files, completed>>
        /\ seeder.at = "features"
        /\ features' = [features EXCEPT ![a] = Donor[a]]
    BY <1>4 DEF StoreFeatures
  <2>2. seeder' = [seeder EXCEPT !.todo = seeder.todo \ {a}]
        /\ seeder \in [at : {"features"}, todo : SUBSET Accounts]
    BY <1>4, StageRecords DEF StoreFeatures
  <2>3. seeder'.at = "features" /\ seeder'.todo = seeder.todo \ {a}
    BY <2>2
  <2>4. \A b \in Accounts : b = a \/ features[b] = Donor[b] => features'[b] = Donor[b]
    BY <2>1 DEF TypeOK
  <2> QED
    BY <2>1, <2>3, <2>4 DEF UsableInv, AtGraph, Filled, AlertCount, AlertRows, Shown, Whole
<1>5. CASE ListEmployees
  <2>1. /\ UNCHANGED <<employees, alerts, graph, systems, features, files, completed>>
        /\ seeder.at = "features" /\ seeder.todo = {}
    BY <1>5 DEF ListEmployees
  <2>2. PICK S \in SUBSET employees :
          /\ Cardinality(S) = IF Cardinality(employees) <= GraphLimit THEN Cardinality(employees)
                              ELSE GraphLimit
          /\ seeder' = At("graph", S)
    BY <1>5 DEF ListEmployees
  <2>3. Owed' = S /\ seeder'.at = "graph"
    BY <2>2 DEF Owed
  <2>4. Shown' = Shown /\ Whole' = Whole /\ AlertCount' = AlertCount
    BY <2>1 DEF Shown, Whole, AlertCount, AlertRows
  <2>5. Files \subseteq files => Plenty(Shown' \cup Owed', Whole')
    <3>1. Files \subseteq files => employees # {}
      BY <2>1, SomeEmployee DEF UsableInv
    <3>2. Files \subseteq files => Plenty(S, Whole)
      BY <2>2, <3>1, ListedPlenty
    <3>3. S \cup Shown \subseteq Employees
      BY DEF TypeOK, Shown
    <3> QED
      BY <2>3, <2>4, <3>2, <3>3, PlentyMore
  <2> QED
    BY <2>1, <2>3, <2>4, <2>5 DEF UsableInv, AtGraph, Filled
<1>6. CASE \E e \in Employees : LoadScore(e)
  <2>1. /\ UNCHANGED <<employees, alerts, graph, systems, features, files, completed>>
        /\ seeder.at = "graph" /\ seeder'.at = "score" /\ Owed' = Owed
    BY <1>6 DEF LoadScore, Owed
  <2>2. Shown' = Shown /\ Whole' = Whole /\ AlertCount' = AlertCount
    BY <2>1 DEF Shown, Whole, AlertCount, AlertRows
  <2> QED
    BY <2>1, <2>2 DEF UsableInv, AtGraph, Filled
<1>7. CASE WriteScore
  <2>1. seeder \in Loading /\ seeder.at = "score"
    BY <1>7, StageRecords DEF WriteScore
  <2>2. /\ UNCHANGED <<employees, alerts, features, files, completed>>
        /\ Scored(seeder.emp, seeder.score)
        /\ seeder' = [seeder EXCEPT !.at = "touch"]
    BY <1>7 DEF WriteScore
  <2>3. seeder'.at = "touch" /\ seeder'.emp = seeder.emp /\ seeder'.todo = seeder.todo
    BY <2>1, <2>2 DEF Loading
  <2>4. seeder.emp \in Employees /\ seeder.score \in Scores
    BY <2>1 DEF Loading
  <2>5. graph'[seeder.emp] # None
    BY <2>2, <2>4, NoneAssumption DEF Scored, TypeOK
  <2>6. Shown \subseteq Shown' /\ Shown' \subseteq Employees
    BY <2>2, <2>4, ShownGrows
  <2>7. Owed' = Owed /\ Whole' = Whole /\ AlertCount' = AlertCount
    BY <2>1, <2>2, <2>3 DEF Owed, Whole, AlertCount, AlertRows
  <2>8. /\ Plenty(Shown \cup Owed, Whole) => Plenty(Shown' \cup Owed', Whole')
        /\ Plenty(Shown, Whole) => Plenty(Shown', Whole')
    BY <2>6, <2>7, OwedEmployees, PlentyMore
  <2> QED
    BY <2>1, <2>2, <2>3, <2>5, <2>7, <2>8 DEF UsableInv, AtGraph, Filled
<1>8. CASE TouchSystems
  <2>1. seeder \in Loading /\ seeder.at = "touch" /\ seeder.emp \in employees
    BY <1>8, StageRecords DEF TouchSystems, RowsInv
  <2>2. /\ UNCHANGED <<employees, alerts, features, files, completed>>
        /\ Accessed(seeder.emp, 2) /\ seeder' = At("graph", seeder.todo)
    BY <1>8 DEF TouchSystems
  <2>3. seeder.emp \in Employees /\ Owed = seeder.todo \cup {seeder.emp} /\ Owed' = seeder.todo
    BY <2>1, <2>2 DEF Loading, Owed
  <2>4. Shown \subseteq Shown' /\ Shown' \subseteq Employees
    BY <2>2, <2>3, ShownGrows
  <2>5. seeder.emp \in Shown'
    <3>1. graph'[seeder.emp] # None
      BY <2>2, <2>3, NoneAssumption DEF Accessed, TypeOK, Scores
    <3>2. systems'[seeder.emp] = 2
      BY <2>2, <2>3 DEF Accessed, TypeOK
    <3> QED
      BY <2>1, <2>2, <3>1, <3>2 DEF Shown
  <2>6. Whole' = Whole /\ AlertCount' = AlertCount
    BY <2>2 DEF Whole, AlertCount, AlertRows
  <2>7. /\ Plenty(Shown \cup Owed, Whole) => Plenty(Shown' \cup Owed', Whole')
        /\ Plenty(Shown, Whole) => Plenty(Shown', Whole')
    BY <2>3, <2>4, <2>5, <2>6, OwedEmployees, PlentyMore
  <2> QED
    BY <2>1, <2>2, <2>6, <2>7 DEF UsableInv, AtGraph, Filled
<1>9. CASE Complete
  <2>1. /\ UNCHANGED <<employees, alerts, graph, systems, features, files>>
        /\ seeder.at = "graph" /\ Owed = {} /\ seeder'.at = "idle"
    BY <1>9 DEF Complete, Owed
  <2>2. Shown' = Shown /\ Whole' = Whole /\ AlertCount' = AlertCount /\ Shown \cup Owed = Shown
    BY <2>1 DEF Shown, Whole, AlertCount, AlertRows
  <2> QED
    BY <2>1, <2>2 DEF UsableInv, AtGraph, Filled
<1> QED
  BY <1>1, <1>2, <1>3, <1>4, <1>5, <1>6, <1>7, <1>8, <1>9 DEF SeedStep

\* After one complete run with both artifacts the system can be used, whatever
\* the runs that died before it left behind and whatever the consumer and later,
\* broken runs do (main, seed_redis_features, seed_neo4j_graph).
THEOREM CompleteRunsSuffice == Spec => []CompleteMeansUsable
<1>1. Init => RowsInv /\ SampleInv /\ UsableInv
  BY InitSampled
  DEF Init, RowsInv, ShownHaveRows, UsableInv, Idle, AtGraph, Employees
<1>2. TypeOK /\ TypeOK' /\ RowsInv /\ SampleInv /\ UsableInv /\ [Next]_vars
        => (RowsInv /\ SampleInv /\ UsableInv)'
  <2>1. CASE UNCHANGED vars
    BY <2>1, NextSampled
    DEF vars, rows, nodes, live, RowsInv, ShownHaveRows, UsableInv, AtGraph, Filled, Shown, Owed,
        Whole, AlertCount, AlertRows
  <2> QED
    BY <2>1, SeedRows, ConsumerRows, NextSampled, SeedUsable, ConsumerUsable DEF Next
<1>3. UsableInv => CompleteMeansUsable
  BY DEF UsableInv, CompleteMeansUsable, Plenty, Shown, Whole, Filled
<1> QED
  BY TypeCorrect, <1>1, <1>2, <1>3, PTL DEF Spec
=============================================================================
