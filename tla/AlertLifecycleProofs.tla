------------------------ MODULE AlertLifecycleProofs ------------------------
(***************************************************************************)
(* Proofs about AlertLifecycle, for every value of its constants.          *)
(***************************************************************************)
EXTENDS AlertLifecycle, TLAPS, SequenceTheorems, FiniteSetTheorems

\* The facts about Append and about rebuilding a table that the steps use.
LEMMA AppendRow ==
  ASSUME NEW S, NEW q \in Seq(S), NEW r \in S
  PROVE  /\ Append(q, r) \in Seq(S)
         /\ DOMAIN Append(q, r) = 1 .. (Len(q) + 1)
         /\ DOMAIN q = 1 .. Len(q) /\ Len(q) \in Nat
         /\ \A i \in DOMAIN q : Append(q, r)[i] = q[i]
         /\ Append(q, r)[Len(q) + 1] = r
BY AppendProperties, LenProperties

LEMMA RebuiltTable ==
  ASSUME NEW S, NEW q \in Seq(S), NEW f, f \in [DOMAIN q -> S]
  PROVE  f \in Seq(S)
BY LenProperties, IsASeq

\* A triage action always names a status, and only "reopen" names "open".
LEMMA StatusOfAction ==
  ASSUME NEW act \in Actions
  PROVE  /\ map_status[act] \in Status
         /\ (map_status[act] = "open") <=> (act = "reopen")
         /\ (map_status[act] = "investigating") <=> (act = "investigate")
         /\ (map_status[act] = "escalated") <=> (act = "escalate")
<1>1. act \in {"dismiss", "investigate", "escalate", "reopen"}
  BY ActionsAssumption
<1> QED
  BY <1>1 DEF map_status, Status

-----------------------------------------------------------------------------
(* Type correctness. *)

\* The seeded table: rows of distinct employees, none from the future.
LEMMA SeededTable ==
  ASSUME Init
  PROVE  /\ alerts \in Seq(Alert) /\ employees \subseteq Employees
         /\ \A i \in DOMAIN alerts :
              /\ alerts[i].emp \in employees
              /\ alerts[i].owner = Unassigned /\ alerts[i].status = "open"
              /\ alerts[i].at <= now /\ alerts[i].seen <= now
              /\ \A j \in DOMAIN alerts : alerts[i].emp = alerts[j].emp => i = j
<1>1. PICK n \in 0 .. MaxAlerts :
        \E e \in [1 .. n -> Employees], s \in [1 .. n -> Scores],
           t \in [1 .. n -> 0 .. Start] : Seeded(n, e, s, t)
  BY DEF Init
<1>2. PICK e \in [1 .. n -> Employees], s \in [1 .. n -> Scores],
           t \in [1 .. n -> 0 .. Start] : Seeded(n, e, s, t)
  BY <1>1
<1>3. n \in Nat
  BY BoundsAssumption
<1>4. \A i \in 1 .. n : SeedRow(e[i], s[i], t[i]) \in Alert
  BY StartAssumption DEF SeedRow, Alert, Status
<1>5. alerts \in Seq(Alert) /\ DOMAIN alerts = 1 .. n
  BY <1>2, <1>3, <1>4, IsASeq DEF Seeded
<1>6. \A i \in 1 .. n : alerts[i] = SeedRow(e[i], s[i], t[i])
  BY <1>2 DEF Seeded
<1>7. now = Start
  BY DEF Init
<1> QED
  BY <1>2, <1>5, <1>6, <1>7, StartAssumption DEF Seeded, SeedRow

LEMMA InitType == Init => TypeOK
<1> SUFFICES ASSUME Init PROVE TypeOK
  OBVIOUS
<1>1. now \in Nat /\ faults \in Nat /\ audit \subseteq AuditLog /\ announced \subseteq Nat
  BY StartAssumption DEF Init
<1>2. consumer \in ConsumerState /\ request \in [Analysts -> RequestState]
  BY DEF Init, ConsumerState, RequestState
<1> QED
  BY <1>1, <1>2, SeededTable DEF TypeOK

LEMMA NextType == TypeOK /\ [Next]_vars => TypeOK'
<1> SUFFICES ASSUME TypeOK, [Next]_vars PROVE TypeOK'
  OBVIOUS
<1> USE DEF TypeOK
<1>0. DOMAIN alerts = 1 .. Len(alerts) /\ Len(alerts) \in Nat
       /\ \A i \in DOMAIN alerts : alerts[i] \in Alert
  BY LenProperties
<1>1. ASSUME NEW e \in Employees, NEW s \in Scores, ConsumerFind(e, s)
      PROVE  TypeOK'
  <2>1. PICK i \in find_existing_open_alert(e) :
          consumer' = [pc |-> "found", emp |-> e, score |-> s, row |-> i,
                       loaded |-> IF i = 0 THEN 0 ELSE alerts[i].score]
    BY <1>1 DEF ConsumerFind
  <2>2. i = 0 \/ i \in DOMAIN alerts
    BY DEF find_existing_open_alert, OpenOf
  <2>3. consumer' \in ConsumerState
    BY <2>1, <2>2, <1>0 DEF ConsumerState, Alert
  <2> QED
    BY <1>1, <2>3 DEF ConsumerFind
<1>2. ASSUME ConsumerFold PROVE TypeOK'
  <2>1. consumer \in [pc : {"found"}, emp : Employees, score : Scores, row : Nat,
                      loaded : Scores \union {0}]
    BY <1>2 DEF ConsumerFold, ConsumerState, ConsumerIdle
  <2>2. ASSUME NEW i \in DOMAIN alerts PROVE Folded(alerts[i], consumer) \in Alert
    <3>1. alerts[i] \in Alert /\ now \in Nat
      BY <1>0
    <3>2. consumer.score \in Scores /\ consumer.loaded \in Scores \union {0}
      BY <2>1
    <3> QED
      BY <3>1, <3>2 DEF Folded, Alert
  <2>3. alerts' \in Seq(Alert)
    BY <1>0, <1>2, <2>2, RebuiltTable DEF ConsumerFold
  <2>4. consumer' \in ConsumerState
    BY <1>2, <2>1 DEF ConsumerFold, ConsumerState
  <2> QED
    BY <1>2, <2>1, <2>3, <2>4 DEF ConsumerFold, EnsureEmployee
<1>3. ASSUME ConsumerInsert PROVE TypeOK'
  <2>1. consumer \in [pc : {"found"}, emp : Employees, score : Scores, row : Nat,
                      loaded : Scores \union {0}]
    BY <1>3 DEF ConsumerInsert, ConsumerState, ConsumerIdle
  <2>2. [emp |-> consumer.emp, score |-> consumer.score, status |-> "open",
         source |-> "replay", at |-> now, seen |-> now, owner |-> Unassigned] \in Alert
    BY <2>1 DEF Alert, Status
  <2>3. alerts' \in Seq(Alert)
    BY <1>3, <2>2, AppendRow DEF ConsumerInsert
  <2>4. consumer' \in ConsumerState
    BY <1>0, <1>3 DEF ConsumerInsert, ConsumerState
  <2> QED
    BY <1>3, <2>1, <2>3, <2>4 DEF ConsumerInsert, EnsureEmployee
<1>4. ASSUME ConsumerBroadcast PROVE TypeOK'
  <2>1. consumer.row \in Nat
    BY <1>4 DEF ConsumerBroadcast, ConsumerState, ConsumerIdle
  <2> QED
    BY <1>4, <2>1 DEF ConsumerBroadcast, Announce, ConsumerState
<1>5. ASSUME ConsumerFail PROVE TypeOK'
  BY <1>5 DEF ConsumerFail, ConsumerState
<1>6. ASSUME NEW a \in Analysts, NEW i \in DOMAIN alerts, NEW act \in Actions,
             TriageLoad(a, i, act)
      PROVE  TypeOK'
  <2>1. [pc |-> "loaded", id |-> i, action |-> act,
         status |-> alerts[i].status, owner |-> alerts[i].owner] \in RequestState
    BY <1>0 DEF RequestState, Alert
  <2> QED
    BY <1>6, <2>1 DEF TriageLoad
<1>7. ASSUME NEW a \in Analysts, TriageCommit(a) PROVE TypeOK'
  <2>1. request[a] \in [pc : {"loaded"}, id : Nat, action : Actions, status : Status,
                        owner : Analysts \union {Unassigned}]
    BY <1>7 DEF TriageCommit, RequestState, RequestIdle
  <2>2. map_status[request[a].action] \in Status
    BY <2>1, StatusOfAction
  <2>3. ASSUME NEW i \in DOMAIN alerts PROVE Triaged(alerts[i], request[a], a) \in Alert
    <3> DEFINE st == IF map_status[request[a].action] # request[a].status
                     THEN map_status[request[a].action] ELSE alerts[i].status
               ow == IF request[a].action = "investigate" /\ request[a].owner # a
                     THEN a ELSE alerts[i].owner
    <3>1. alerts[i] \in Alert
      BY <1>0
    <3>2. st \in Status /\ ow \in Analysts \union {Unassigned}
      BY <2>2, <3>1 DEF Alert
    <3>3. Triaged(alerts[i], request[a], a) =
            [[alerts[i] EXCEPT !.status = st] EXCEPT !.owner = ow]
      BY <3>1 DEF Triaged, Alert
    <3> HIDE DEF st, ow
    <3> QED
      BY <3>1, <3>2, <3>3 DEF Alert
  <2>4. alerts' \in Seq(Alert)
    BY <1>0, <1>7, <2>3, RebuiltTable DEF TriageCommit
  <2>5. audit' \subseteq AuditLog
    BY <1>7, <2>1 DEF TriageCommit, AuditLog
  <2>6. request' \in [Analysts -> RequestState]
    BY <1>7 DEF TriageCommit, RequestState
  <2> QED
    BY <1>7, <2>4, <2>5, <2>6 DEF TriageCommit
<1>8. ASSUME NEW a \in Analysts, NEW ids \in (SUBSET DOMAIN alerts) \ {{}},
             NEW act \in Actions, BulkTriage(a, ids, act)
      PROVE  TypeOK'
  <2>1. map_status[act] \in Status
    BY StatusOfAction
  <2>5. \A i \in DOMAIN alerts : BulkTriaged(alerts[i], a, act) \in Alert
    BY <1>0, <2>1 DEF BulkTriaged, Alert
  <2>2. alerts' \in [DOMAIN alerts -> Alert]
    BY <1>0, <1>8, <2>5 DEF BulkTriage
  <2>3. alerts' \in Seq(Alert)
    BY <2>2, RebuiltTable
  <2>4. audit' \subseteq AuditLog
    <3>1. \A i \in ids : i \in Nat
      BY <1>0
    <3>2. \A i \in ids : [id |-> i, actor |-> a, action |-> act] \in AuditLog
      BY <3>1 DEF AuditLog
    <3>3. audit \subseteq AuditLog
      OBVIOUS
    <3> QED
      BY <1>8, <3>2, <3>3 DEF BulkTriage
  <2> QED
    BY <1>8, <2>3, <2>4 DEF BulkTriage
<1>9. ASSUME ReplayReset PROVE TypeOK'
  <2>0. \A i \in DOMAIN alerts : [alerts[i] EXCEPT !.status = "dismissed"] \in Alert
    BY <1>0 DEF Alert, Status
  <2>1. alerts' \in [DOMAIN alerts -> Alert]
    BY <1>0, <1>9, <2>0 DEF ReplayReset
  <2>2. alerts' \in Seq(Alert)
    BY <2>1, RebuiltTable
  <2> QED
    BY <1>9, <2>2 DEF ReplayReset
<1>10. ASSUME Crash PROVE TypeOK'
  BY <1>10 DEF Crash, ConsumerState, RequestState
<1>11. ASSUME Tick PROVE TypeOK'
  BY <1>11 DEF Tick
<1>12. CASE UNCHANGED vars
  BY <1>12 DEF vars
<1>13. ASSUME RefreshFails PROVE TypeOK'
  BY <1>13 DEF RefreshFails, ConsumerState
<1> QED
  BY <1>1, <1>2, <1>3, <1>4, <1>5, <1>6, <1>7, <1>8, <1>9, <1>10, <1>11, <1>12, <1>13
  DEF Next

\* Every table, request and consumer state stays well typed: in particular a
\* handler never writes a status outside the four, nor assigns an alert to
\* anyone but an analyst (services/alert_service.py, api/alerts.py).
THEOREM TypeCorrect == Spec => []TypeOK
BY InitType, NextType, PTL DEF Spec
-----------------------------------------------------------------------------
(* The ladder of open alerts. *)

\* The facts every step below uses about a well-typed table.
LEMMA RowsOf ==
  ASSUME NEW q \in Seq(Alert)
  PROVE  /\ DOMAIN q = 1 .. Len(q) /\ Len(q) \in Nat
         /\ \A i \in DOMAIN q : /\ i \in Nat \ {0} /\ q[i] \in Alert
                               /\ q[i].at \in Nat /\ q[i].seen \in Nat
                               /\ q[i].score \in Nat
<1>1. DOMAIN q = 1 .. Len(q) /\ Len(q) \in Nat
  BY LenProperties
<1>2. ASSUME NEW i \in DOMAIN q
      PROVE  /\ i \in Nat \ {0} /\ q[i] \in Alert
             /\ q[i].at \in Nat /\ q[i].seen \in Nat
             /\ q[i].score \in Nat
  <2>1. i \in Nat \ {0} /\ q[i] \in Alert
    BY <1>1
  <2>2. q[i].at \in Nat /\ q[i].seen \in Nat /\ q[i].score \in Scores
    BY <2>1 DEF Alert
  <2> QED
    BY <2>1, <2>2, ScoresAssumption
<1> QED
  BY <1>1, <1>2

LEMMA Rows ==
  ASSUME alerts \in Seq(Alert)
  PROVE  /\ DOMAIN alerts = 1 .. Len(alerts) /\ Len(alerts) \in Nat
         /\ \A i \in DOMAIN alerts :
              /\ i \in Nat \ {0} /\ alerts[i] \in Alert
              /\ alerts[i].at \in Nat /\ alerts[i].seen \in Nat
              /\ alerts[i].score \in Nat
BY RowsOf

\* Steps that open nothing - triage, bulk triage, a reset, time, the end of a
\* handler - can only shrink what the ladder and the consumer talk about.
LEMMA OpeningNothing ==
  ASSUME TypeOK, LadderInv, TypeOK',
         DOMAIN alerts' = DOMAIN alerts,
         \A i \in DOMAIN alerts :
           /\ alerts'[i].emp = alerts[i].emp /\ alerts'[i].score = alerts[i].score
           /\ alerts'[i].at = alerts[i].at /\ alerts'[i].seen = alerts[i].seen
           /\ alerts'[i].status = "open" => alerts[i].status = "open",
         now' >= now,
         consumer' = consumer \/ consumer'.pc # "found"
  PROVE  LadderInv'
<1>1. \A i \in DOMAIN alerts : Recent(i)' => Recent(i)
  BY Rows, WindowAssumption DEF TypeOK, Recent
<1>2. OpenLadder'
  BY <1>1, Rows DEF LadderInv, OpenLadder, TypeOK
<1>3. TableOrdered'
  BY Rows DEF LadderInv, TableOrdered, TypeOK
<1>4. ConsumerKnows'
  BY <1>1 DEF LadderInv, ConsumerKnows, OpenOf
<1> QED
  BY <1>2, <1>3, <1>4 DEF LadderInv

LEMMA InitLadder == Init => LadderInv
<1> SUFFICES ASSUME Init PROVE LadderInv
  OBVIOUS
<1>1. OpenLadder
  BY SeededTable, Rows DEF OpenLadder
<1>2. TableOrdered
  BY SeededTable, Rows DEF TableOrdered
<1>3. ConsumerKnows
  BY DEF Init, ConsumerIdle, ConsumerKnows
<1> QED
  BY <1>1, <1>2, <1>3 DEF LadderInv

\* The SELECT: the newest open alert dominates the other open ones, because
\* the ladder holds when it is read.
LEMMA FindLadder ==
  ASSUME TypeOK, LadderInv, NEW e \in Employees, NEW s \in Scores, ConsumerFind(e, s)
  PROVE  LadderInv'
<1>1. PICK r \in find_existing_open_alert(e) :
        consumer' = [pc |-> "found", emp |-> e, score |-> s, row |-> r,
                     loaded |-> IF r = 0 THEN 0 ELSE alerts[r].score]
  BY DEF ConsumerFind
<1>2. UNCHANGED <<alerts, now>>
  BY DEF ConsumerFind
<1>3. OpenLadder' /\ TableOrdered'
  BY <1>2 DEF LadderInv, OpenLadder, TableOrdered, Recent
<1>4. CASE r = 0
  <2>1. {i \in OpenOf(e) : Recent(i)} = {}
    BY <1>4, Rows DEF find_existing_open_alert, OpenOf, TypeOK
  <2>2. ConsumerKnows'
    BY <1>1, <1>2, <1>4, <2>1 DEF ConsumerKnows, OpenOf, Recent
  <2> QED
    BY <1>3, <2>2 DEF LadderInv
<1>5. CASE r # 0
  <2>1. /\ r \in DOMAIN alerts /\ alerts[r].emp = e /\ alerts[r].status = "open"
        /\ Recent(r)
        /\ \A j \in OpenOf(e) : Recent(j) => Later(r, j)
    BY <1>5 DEF find_existing_open_alert, OpenOf
  <2>2. ASSUME NEW i \in OpenOf(e), Recent(i), i # r
        PROVE  i < r /\ alerts[i].score + Delta <= alerts[r].score
    <3>1. i \in DOMAIN alerts /\ alerts[i].emp = e /\ alerts[i].status = "open"
      BY <2>2 DEF OpenOf
    <3>2. Later(r, i)
      BY <2>1, <2>2
    <3>n. /\ i \in Nat /\ r \in Nat
          /\ alerts[i].at \in Nat /\ alerts[r].at \in Nat
      BY <2>1, <3>1, Rows DEF TypeOK
    <3>o. r < i => alerts[r].at <= alerts[i].at
      BY <2>1, <3>1 DEF LadderInv, TableOrdered
    <3>3. i < r
      BY <2>2, <3>2, <3>n, <3>o DEF Later
    <3>5. OpenLadder
      BY DEF LadderInv
    <3>6. alerts[r].score >= alerts[i].score + Delta
      BY <2>1, <2>2, <3>1, <3>3, <3>5 DEF OpenLadder
    <3>7. alerts[r].score \in Nat /\ alerts[i].score \in Nat /\ Delta \in Nat
      BY <2>1, <3>1, Rows, DeltaAssumption DEF TypeOK
    <3>4. alerts[i].score + Delta <= alerts[r].score
      BY <3>6, <3>7
    <3> QED
      BY <3>3, <3>4
  <2>3. r \in Nat
    BY <2>1, Rows DEF TypeOK
  <2>4. ConsumerKnows'
    <3>1. consumer'.row = r /\ consumer'.emp = e /\ consumer'.loaded = alerts[r].score
      BY <1>1, <1>5
    <3>2. OpenOf(consumer.emp)' = OpenOf(e)
      BY <1>2, <3>1 DEF OpenOf
    <3>3. \A i : Recent(i)' <=> Recent(i)
      BY <1>2 DEF Recent
    <3>4. \A i \in OpenOf(e) : i \in Nat
      BY Rows DEF TypeOK, OpenOf
    <3> QED
      BY <1>2, <1>5, <2>1, <2>2, <2>3, <3>1, <3>2, <3>3, <3>4 DEF ConsumerKnows
  <2> QED
    BY <1>3, <2>4 DEF LadderInv
<1> QED
  BY <1>4, <1>5

\* The UPDATE of a duplicate raises only the newest open alert, or one that
\* was triaged meanwhile and no longer counts.
LEMMA FoldLadder ==
  ASSUME TypeOK, TypeOK', LadderInv, ConsumerFold
  PROVE  LadderInv'
<1> DEFINE c == consumer
           r == consumer.row
<1>1. c \in [pc : {"found"}, emp : Employees, score : Scores, row : Nat,
            loaded : Scores \union {0}]
  BY DEF TypeOK, ConsumerFold, ConsumerState, ConsumerIdle
<1>2. /\ r \in DOMAIN alerts /\ alerts[r].emp = c.emp /\ alerts[r].score = c.loaded
      /\ c.score \in Nat
  BY <1>1, ScoresAssumption DEF ConsumerFold, IsDuplicate, LadderInv, ConsumerKnows
<1>3. /\ DOMAIN alerts' = DOMAIN alerts
      /\ alerts'[r] = Folded(alerts[r], c)
      /\ \A i \in DOMAIN alerts : i # r => alerts'[i] = alerts[i]
      /\ now' = now /\ consumer'.pc = "saved"
  BY <1>2 DEF ConsumerFold
<1>4. /\ alerts'[r].emp = alerts[r].emp /\ alerts'[r].status = alerts[r].status
      /\ alerts'[r].at = alerts[r].at /\ alerts'[r].seen = now
      /\ alerts'[r].score >= alerts[r].score
  <2>1. alerts[r] \in Alert /\ alerts[r].score \in Nat
    BY <1>2, Rows DEF TypeOK
  <2>2. CASE c.score > c.loaded
    BY <1>2, <1>3, <2>1, <2>2 DEF Folded, Alert
  <2>3. CASE ~(c.score > c.loaded)
    BY <1>2, <1>3, <2>1, <2>3 DEF Folded, Alert
  <2> QED
    BY <2>2, <2>3
<1>5. TableOrdered'
  <2>1. \A i \in DOMAIN alerts : /\ alerts'[i].emp = alerts[i].emp
                                 /\ alerts'[i].at = alerts[i].at
                                 /\ alerts'[i].seen = alerts[i].seen \/ alerts'[i].seen = now
    BY <1>3, <1>4
  <2>2. now \in Nat
    BY DEF TypeOK
  <2> QED
    BY <1>3, <2>1, <2>2 DEF LadderInv, TableOrdered
<1>6. OpenLadder'
  <2> SUFFICES ASSUME NEW i \in DOMAIN alerts, NEW j \in DOMAIN alerts,
                      i < j, alerts[i].emp = alerts[j].emp,
                      alerts[i].status = "open", alerts[j].status = "open",
                      Recent(i)
               PROVE  alerts'[j].score >= alerts'[i].score + Delta
    BY <1>3, <1>4 DEF OpenLadder, Recent
  <2>1. Recent(j)
    <3>1. alerts[i].at <= alerts[j].at
      BY DEF LadderInv, TableOrdered
    <3>2. alerts[i].at \in Nat /\ alerts[j].at \in Nat /\ now \in Nat
      BY Rows DEF TypeOK
    <3> QED
      BY <3>1, <3>2, WindowAssumption DEF Recent
  <2>2. alerts[j].score >= alerts[i].score + Delta
    BY DEF LadderInv, OpenLadder
  <2>3. i # r
    <3> SUFFICES ASSUME i = r PROVE FALSE
      OBVIOUS
    <3>1. j \in OpenOf(c.emp)
      BY <1>2 DEF OpenOf
    <3>2. j <= r
      BY <1>1, <2>1, <3>1 DEF LadderInv, ConsumerKnows
    <3> QED
      BY <3>2, Rows DEF TypeOK
  <2>4. alerts[i].score \in Nat /\ alerts[j].score \in Nat /\ alerts'[j].score \in Nat
    BY <1>3, RowsOf DEF TypeOK
  <2>5. alerts'[i].score = alerts[i].score /\ alerts'[j].score >= alerts[j].score
    BY <1>3, <1>4, <2>3, <2>4
  <2> QED
    BY <2>2, <2>4, <2>5, DeltaAssumption
<1>7. ConsumerKnows'
  BY <1>3 DEF ConsumerKnows
<1> QED
  BY <1>5, <1>6, <1>7 DEF LadderInv

\* The INSERT climbs above every alert of the employee that is still open.
LEMMA InsertLadder ==
  ASSUME TypeOK, TypeOK', LadderInv, ConsumerInsert
  PROVE  /\ LadderInv'
         /\ \A i \in OpenOf(consumer.emp) : Recent(i) =>
              consumer.score >= alerts[i].score + Delta
<1> DEFINE c == consumer
           n == Len(alerts) + 1
           new == [emp |-> c.emp, score |-> c.score, status |-> "open",
                   source |-> "replay", at |-> now, seen |-> now, owner |-> Unassigned]
<1>1. c \in [pc : {"found"}, emp : Employees, score : Scores, row : Nat,
            loaded : Scores \union {0}]
  BY DEF TypeOK, ConsumerInsert, ConsumerState, ConsumerIdle
<1>2. c.score \in Nat /\ c.loaded \in Nat
  <2>1. c.score \in Scores
    BY <1>1
  <2>2. c.loaded \in Scores \/ c.loaded = 0
    BY <1>1
  <2>3. \A x \in Scores : x \in Nat
    BY ScoresAssumption
  <2> HIDE DEF c
  <2> QED
    BY <2>1, <2>2, <2>3
<1>3. new \in Alert
  BY <1>1 DEF TypeOK, Alert, Status
<1>4. /\ DOMAIN alerts' = DOMAIN alerts \union {n} /\ n \notin DOMAIN alerts
      /\ alerts'[n] = new
      /\ \A i \in DOMAIN alerts : alerts'[i] = alerts[i] /\ i < n
      /\ now' = now /\ consumer'.pc = "saved"
  <2>1. /\ DOMAIN alerts' = 1 .. n /\ alerts'[n] = new
        /\ \A i \in DOMAIN alerts : alerts'[i] = alerts[i]
    BY <1>3, AppendRow DEF TypeOK, ConsumerInsert
  <2>2. DOMAIN alerts = 1 .. Len(alerts) /\ Len(alerts) \in Nat
    BY Rows DEF TypeOK
  <2> QED
    BY <2>1, <2>2 DEF ConsumerInsert
<1>5. ASSUME NEW i \in OpenOf(c.emp), Recent(i) PROVE c.score >= alerts[i].score + Delta
  <2>1. /\ c.row # 0
        /\ alerts[c.row].score = c.loaded
        /\ i # c.row => alerts[i].score + Delta <= c.loaded
    BY <1>1, <1>5 DEF LadderInv, ConsumerKnows
  <2>2. c.score >= c.loaded + Delta
    BY <1>2, <2>1, DeltaAssumption DEF ConsumerInsert, IsDuplicate
  <2>3. alerts[i].score \in Nat
    BY Rows DEF TypeOK, OpenOf
  <2> QED
    BY <1>2, <2>1, <2>2, <2>3, DeltaAssumption
<1>6. OpenLadder'
  <2> SUFFICES ASSUME NEW i \in DOMAIN alerts', NEW j \in DOMAIN alerts',
                      i < j, alerts'[i].emp = alerts'[j].emp,
                      alerts'[i].status = "open", alerts'[j].status = "open",
                      Recent(i)'
               PROVE  alerts'[j].score >= alerts'[i].score + Delta
    BY DEF OpenLadder
  <2>1. i \in DOMAIN alerts /\ i \in Nat
    BY <1>4, Rows DEF TypeOK
  <2>2. Recent(i)
    BY <1>4, <2>1 DEF Recent
  <2>3. CASE j \in DOMAIN alerts
    BY <1>4, <2>1, <2>2, <2>3 DEF LadderInv, OpenLadder
  <2>4. CASE j = n
    <3>1. i \in OpenOf(c.emp)
      BY <1>4, <2>1, <2>4 DEF OpenOf
    <3> QED
      BY <1>4, <1>5, <2>1, <2>2, <2>4, <3>1
  <2> QED
    BY <1>4, <2>3, <2>4
<1>7. TableOrdered'
  <2>1. ASSUME NEW i \in DOMAIN alerts'
        PROVE  alerts'[i].at <= now /\ alerts'[i].seen <= now
    BY <1>4, Rows DEF LadderInv, TableOrdered, TypeOK
  <2>2. ASSUME NEW i \in DOMAIN alerts', NEW j \in DOMAIN alerts', i < j,
               alerts'[i].emp = alerts'[j].emp
        PROVE  alerts'[i].at <= alerts'[j].at
    <3>1. i \in DOMAIN alerts
      BY <1>4, <2>2, Rows DEF TypeOK
    <3>2. CASE j \in DOMAIN alerts
      BY <1>4, <2>2, <3>1, <3>2 DEF LadderInv, TableOrdered
    <3>3. CASE j = n
      BY <1>4, <2>1, <3>3
    <3> QED
      BY <1>4, <3>2, <3>3
  <2> QED
    BY <1>4, <2>1, <2>2 DEF TableOrdered
<1>8. ConsumerKnows'
  BY <1>4 DEF ConsumerKnows
<1> QED
  BY <1>5, <1>6, <1>7, <1>8 DEF LadderInv

(* With the UI's actions nothing reopens an alert, and each step keeps the   *)
(* ladder; a reopen would put back an alert the consumer never compared.     *)
LEMMA NextLadder ==
  ASSUME "reopen" \notin Actions, TypeOK, LadderInv, [Next]_vars
  PROVE  LadderInv'
<1>0. TypeOK'
  BY NextType
<1>1. ASSUME NEW e \in Employees, NEW s \in Scores, ConsumerFind(e, s)
      PROVE  LadderInv'
  BY <1>1, FindLadder
<1>2. CASE ConsumerFold
  BY <1>0, <1>2, FoldLadder
<1>3. CASE ConsumerInsert
  BY <1>0, <1>3, InsertLadder
<1>4. CASE ConsumerBroadcast \/ ConsumerFail \/ RefreshFails \/ Crash
  <2>1. UNCHANGED <<alerts, now>> /\ consumer'.pc # "found"
    BY <1>4 DEF ConsumerBroadcast, ConsumerFail, RefreshFails, Crash, ConsumerIdle
  <2>2. now' >= now
    BY <2>1 DEF TypeOK
  <2> QED
    BY <1>0, <2>1, <2>2, OpeningNothing
<1>5. CASE (\E a \in Analysts, i \in DOMAIN alerts, act \in Actions : TriageLoad(a, i, act))
           \/ UNCHANGED vars
  <2>1. UNCHANGED <<alerts, now, consumer>>
    BY <1>5 DEF TriageLoad, vars
  <2>2. now' >= now
    BY <2>1 DEF TypeOK
  <2> QED
    BY <1>0, <2>1, <2>2, OpeningNothing
<1>6. ASSUME NEW a \in Analysts, TriageCommit(a) PROVE LadderInv'
  <2>1. request[a] \in [pc : {"loaded"}, id : Nat, action : Actions, status : Status,
                        owner : Analysts \union {Unassigned}]
    BY <1>6 DEF TriageCommit, TypeOK, RequestState, RequestIdle
  <2>2. map_status[request[a].action] # "open"
    BY <2>1, StatusOfAction
  <2>3. \A i \in DOMAIN alerts : alerts[i] \in Alert
    BY Rows DEF TypeOK
  <2>4. ASSUME NEW row \in Alert
        PROVE  LET new == Triaged(row, request[a], a)
               IN /\ new.emp = row.emp /\ new.score = row.score
                  /\ new.at = row.at /\ new.seen = row.seen
                  /\ new.status = "open" => row.status = "open"
    BY <2>2 DEF Triaged, Alert
  <2>5. /\ DOMAIN alerts' = DOMAIN alerts /\ UNCHANGED <<now, consumer>>
        /\ \A i \in DOMAIN alerts :
             alerts'[i] = IF i = request[a].id THEN Triaged(alerts[i], request[a], a)
                          ELSE alerts[i]
    BY <1>6 DEF TriageCommit
  <2>6. now' >= now
    BY <2>5 DEF TypeOK
  <2> QED
    BY <1>0, <2>3, <2>4, <2>5, <2>6, OpeningNothing
<1>7. ASSUME NEW a \in Analysts, NEW ids \in (SUBSET DOMAIN alerts) \ {{}},
             NEW act \in Actions, BulkTriage(a, ids, act)
      PROVE  LadderInv'
  <2>1. map_status[act] # "open"
    BY StatusOfAction
  <2>2. \A i \in DOMAIN alerts : alerts[i] \in Alert
    BY Rows DEF TypeOK
  <2>3. ASSUME NEW row \in Alert
        PROVE  LET new == BulkTriaged(row, a, act)
               IN /\ new.emp = row.emp /\ new.score = row.score
                  /\ new.at = row.at /\ new.seen = row.seen
                  /\ new.status = "open" => row.status = "open"
    BY <2>1 DEF BulkTriaged, Alert
  <2>4. /\ DOMAIN alerts' = DOMAIN alerts /\ UNCHANGED <<now, consumer>>
        /\ \A i \in DOMAIN alerts :
             alerts'[i] = IF i \in ids THEN BulkTriaged(alerts[i], a, act) ELSE alerts[i]
    BY <1>7 DEF BulkTriage
  <2>5. now' >= now
    BY <2>4 DEF TypeOK
  <2> QED
    BY <1>0, <2>2, <2>3, <2>4, <2>5, OpeningNothing
<1>8. CASE ReplayReset
  <2>1. \A i \in DOMAIN alerts : alerts[i] \in Alert
    BY Rows DEF TypeOK
  <2>2. /\ DOMAIN alerts' = DOMAIN alerts /\ UNCHANGED <<now, consumer>>
        /\ \A i \in DOMAIN alerts :
             alerts'[i] = alerts[i] \/ alerts'[i] = [alerts[i] EXCEPT !.status = "dismissed"]
    BY <1>8 DEF ReplayReset
  <2>3. now' >= now
    BY <2>2 DEF TypeOK
  <2>4. \A i \in DOMAIN alerts :
           /\ alerts'[i].emp = alerts[i].emp /\ alerts'[i].score = alerts[i].score
           /\ alerts'[i].at = alerts[i].at /\ alerts'[i].seen = alerts[i].seen
           /\ alerts'[i].status = "open" => alerts[i].status = "open"
    BY <2>1, <2>2 DEF Alert
  <2> QED
    BY <1>0, <2>2, <2>3, <2>4, OpeningNothing
<1>9. CASE Tick
  <2>1. UNCHANGED <<alerts, consumer>> /\ now' >= now
    BY <1>9 DEF Tick, TypeOK
  <2> QED
    BY <1>0, <2>1, OpeningNothing
<1> QED
  BY <1>1, <1>2, <1>3, <1>4, <1>5, <1>6, <1>7, <1>8, <1>9 DEF Next

\* Without "reopen" an employee's open alerts of the window always form a
\* ladder of steps of at least ALERT_DEDUP_DELTA (create_or_update_alert).
THEOREM LadderHolds ==
  ASSUME "reopen" \notin Actions
  PROVE  Spec => []OpenLadder
<1>1. Init => TypeOK /\ LadderInv
  BY InitType, InitLadder
<1>2. TypeOK /\ LadderInv /\ [Next]_vars => TypeOK' /\ LadderInv'
  BY NextType, NextLadder
<1>3. LadderInv => OpenLadder
  BY DEF LadderInv
<1> QED
  BY <1>1, <1>2, <1>3, PTL DEF Spec
-----------------------------------------------------------------------------
(* The interleaved handlers implement the atomic alert book. *)

\* A rebuilt table whose rows differ from the old ones in status and owner
\* only is a triage step of the book.
LEMMA TriageSimulates ==
  ASSUME TypeOK, TypeOK', DOMAIN alerts' = DOMAIN alerts, UNCHANGED now,
         \A i \in DOMAIN alerts :
           alerts'[i] = [alerts[i] EXCEPT !.status = alerts'[i].status,
                                          !.owner = alerts'[i].owner]
  PROVE  Book!Triage
BY DEF Book!Triage, TypeOK, Book!BookRow, Alert, Status, Book!Unassigned, Unassigned

\* Rewriting status and owner of a row is all a triage does to it.
LEMMA TriagedRow ==
  ASSUME NEW row \in Alert, NEW st, NEW ow, NEW new,
         new = [row EXCEPT !.status = st, !.owner = ow]
  PROVE  new = [row EXCEPT !.status = new.status, !.owner = new.owner]
BY DEF Alert

LEMMA StepSimulates ==
  ASSUME "reopen" \notin Actions, TypeOK, LadderInv, [Next]_vars
  PROVE  [Book!BookNext]_(Book!bookVars)
<1> USE DEF Book!bookVars
<1>0. TypeOK'
  BY NextType
<1>1. CASE \E e \in Employees, s \in Scores : ConsumerFind(e, s)
  BY <1>1 DEF ConsumerFind
<1>2. CASE ConsumerFold
  <2>1. consumer \in [pc : {"found"}, emp : Employees, score : Scores, row : Nat,
                      loaded : Scores \union {0}]
    BY <1>2 DEF TypeOK, ConsumerFold, ConsumerState, ConsumerIdle
  <2>2. /\ consumer.row \in DOMAIN alerts
        /\ alerts[consumer.row].emp = consumer.emp
        /\ alerts[consumer.row].score = consumer.loaded
        /\ consumer.score < consumer.loaded + Delta
    BY <1>2, <2>1 DEF ConsumerFold, IsDuplicate, LadderInv, ConsumerKnows
  <2>3. Folded(alerts[consumer.row], consumer) =
          Book!Touched(alerts[consumer.row], consumer.score)
    BY <2>2 DEF Folded, Book!Touched
  <2>4. Book!Fold(consumer.emp, consumer.score)
    BY <1>2, <2>2, <2>3 DEF Book!Fold, ConsumerFold
  <2> QED
    BY <2>1, <2>4 DEF Book!BookNext
<1>3. CASE ConsumerInsert
  <2>1. consumer.emp \in Employees /\ consumer.score \in Scores
    BY <1>3 DEF TypeOK, ConsumerInsert, ConsumerState, ConsumerIdle
  <2>2. Book!Raise(consumer.emp, consumer.score)
    BY <1>0, <1>3, InsertLadder
    DEF Book!Raise, Book!OpenRecent, ConsumerInsert, OpenOf, Recent,
        Book!Unassigned, Unassigned
  <2> QED
    BY <2>1, <2>2 DEF Book!BookNext
<1>4. CASE ConsumerBroadcast \/ ConsumerFail \/ RefreshFails \/ Crash
  BY <1>4 DEF ConsumerBroadcast, ConsumerFail, RefreshFails, Crash
<1>5. CASE (\E a \in Analysts, i \in DOMAIN alerts, act \in Actions : TriageLoad(a, i, act))
           \/ UNCHANGED vars
  BY <1>5 DEF TriageLoad, vars
<1>6. ASSUME NEW a \in Analysts, TriageCommit(a) PROVE Book!Triage
  <2>1. \A i \in DOMAIN alerts : alerts[i] \in Alert
    BY Rows DEF TypeOK
  <2>2. /\ DOMAIN alerts' = DOMAIN alerts /\ UNCHANGED now
        /\ \A i \in DOMAIN alerts :
             alerts'[i] = IF i = request[a].id THEN Triaged(alerts[i], request[a], a)
                          ELSE alerts[i]
    BY <1>6 DEF TriageCommit
  <2>3. ASSUME NEW i \in DOMAIN alerts
        PROVE  alerts'[i] = [alerts[i] EXCEPT !.status = alerts'[i].status,
                                              !.owner = alerts'[i].owner]
    <3>1. CASE i = request[a].id
      <4>1. alerts'[i] = Triaged(alerts[i], request[a], a)
        BY <2>2, <3>1
      <4> QED
        BY <2>1, <4>1, TriagedRow DEF Triaged
    <3>2. CASE i # request[a].id
      BY <2>1, <2>2, <3>2 DEF Alert
    <3> QED
      BY <3>1, <3>2
  <2> QED
    BY <1>0, <2>2, <2>3, TriageSimulates
<1>7. ASSUME NEW a \in Analysts, NEW ids \in (SUBSET DOMAIN alerts) \ {{}},
             NEW act \in Actions, BulkTriage(a, ids, act)
      PROVE  Book!Triage
  <2>1. \A i \in DOMAIN alerts : alerts[i] \in Alert
    BY Rows DEF TypeOK
  <2>2. /\ DOMAIN alerts' = DOMAIN alerts /\ UNCHANGED now
        /\ \A i \in DOMAIN alerts :
             alerts'[i] = IF i \in ids THEN BulkTriaged(alerts[i], a, act) ELSE alerts[i]
    BY <1>7 DEF BulkTriage
  <2>3. ASSUME NEW i \in DOMAIN alerts
        PROVE  alerts'[i] = [alerts[i] EXCEPT !.status = alerts'[i].status,
                                              !.owner = alerts'[i].owner]
    <3>1. CASE i \in ids
      <4>1. alerts'[i] = BulkTriaged(alerts[i], a, act)
        BY <2>2, <3>1
      <4> QED
        BY <2>1, <4>1, TriagedRow DEF BulkTriaged
    <3>2. CASE i \notin ids
      BY <2>1, <2>2, <3>2 DEF Alert
    <3> QED
      BY <3>1, <3>2
  <2> QED
    BY <1>0, <2>2, <2>3, TriageSimulates
<1>8. CASE ReplayReset
  <2>1. \A i \in DOMAIN alerts : alerts[i] \in Alert
    BY Rows DEF TypeOK
  <2>2. /\ DOMAIN alerts' = DOMAIN alerts /\ UNCHANGED now
        /\ \A i \in DOMAIN alerts :
             alerts'[i] = alerts[i] \/ alerts'[i] = [alerts[i] EXCEPT !.status = "dismissed"]
    BY <1>8 DEF ReplayReset
  <2>3. \A i \in DOMAIN alerts :
          alerts'[i] = [alerts[i] EXCEPT !.status = alerts'[i].status,
                                         !.owner = alerts'[i].owner]
    BY <2>1, <2>2 DEF Alert
  <2>4. Book!Triage
    BY <1>0, <2>2, <2>3, TriageSimulates
  <2> QED
    BY <2>4 DEF Book!BookNext
<1>9. CASE Tick
  <2>1. Book!TimePasses
    BY <1>9 DEF Tick, Book!TimePasses, TypeOK
  <2> QED
    BY <2>1 DEF Book!BookNext
<1> QED
  BY <1>1, <1>2, <1>3, <1>4, <1>5, <1>6, <1>7, <1>8, <1>9 DEF Next, Book!BookNext

LEMMA InitSimulates == Init => Book!BookInit
BY InitType, SeededTable
DEF TypeOK, Book!BookInit, Book!BookRow, Alert, Status, Book!Unassigned, Unassigned

\* Without "reopen", what the consumer, triage and reset do step by step to the
\* alerts table is what the atomic book promises: every event climbs or folds.
THEOREM Implements ==
  ASSUME "reopen" \notin Actions
  PROVE  Spec => ImplementsBook
<1>1. Init => TypeOK /\ LadderInv /\ Book!BookInit
  BY InitType, InitLadder, InitSimulates
<1>2. TypeOK /\ LadderInv /\ [Next]_vars => TypeOK' /\ LadderInv'
  BY NextType, NextLadder
<1>3. TypeOK /\ LadderInv /\ [Next]_vars => [Book!BookNext]_(Book!bookVars)
  BY StepSimulates
<1> QED
  BY <1>1, <1>2, <1>3, PTL DEF Spec, ImplementsBook, Book!BookSpec

-----------------------------------------------------------------------------
(* Scores and last_seen_at, whatever is reopened. *)

\* No row was seen in the future, and the score the consumer loaded is still the
\* row's: triage, reopening included, leaves scores alone, and the consumer, which
\* writes them, handles one event at a time.
ReadCurrent ==
  /\ \A i \in DOMAIN alerts : alerts[i].seen <= now
  /\ consumer.pc = "found" /\ consumer.row # 0 =>
       consumer.row \in DOMAIN alerts /\ alerts[consumer.row].score = consumer.loaded

\* A step that leaves scores, last_seen_at and what the consumer read alone.
ScoresKept ==
  /\ DOMAIN alerts' = DOMAIN alerts
  /\ \A i \in DOMAIN alerts : /\ alerts'[i].score = alerts[i].score
                              /\ alerts'[i].seen = alerts[i].seen
  /\ now' >= now
  /\ consumer' = consumer \/ consumer'.pc # "found"

LEMMA KeptRises ==
  ASSUME TypeOK, TypeOK', ReadCurrent, ScoresKept
  PROVE  ReadCurrent' /\ RowsRise
<1>1. \A i \in DOMAIN alerts : alerts[i].score \in Nat /\ alerts[i].seen \in Nat
  BY Rows DEF TypeOK
<1>2. now \in Nat /\ now' \in Nat
  BY DEF TypeOK
<1> QED
  BY <1>1, <1>2 DEF ReadCurrent, ScoresKept, RowsRise

\* Every action but the consumer's SELECT, UPDATE and INSERT keeps the scores.
LEMMA OthersKeep ==
  ASSUME TypeOK, [Next]_vars, ~ConsumerFold, ~ConsumerInsert,
         ~\E e \in Employees, s \in Scores : ConsumerFind(e, s)
  PROVE  ScoresKept
<1>0. /\ \A i \in DOMAIN alerts : alerts[i] \in Alert
      /\ now \in Nat /\ now >= now
  BY Rows DEF TypeOK
<1>1. CASE ConsumerBroadcast \/ ConsumerFail \/ RefreshFails \/ Crash
  BY <1>0, <1>1
  DEF ConsumerBroadcast, ConsumerFail, RefreshFails, Crash, ConsumerIdle, ScoresKept
<1>2. CASE \/ \E a \in Analysts, i \in DOMAIN alerts, act \in Actions : TriageLoad(a, i, act)
           \/ Tick \/ UNCHANGED vars
  BY <1>0, <1>2 DEF TriageLoad, Tick, vars, ScoresKept
<1>3. ASSUME NEW a \in Analysts, TriageCommit(a) PROVE ScoresKept
  <2>1. /\ DOMAIN alerts' = DOMAIN alerts /\ UNCHANGED <<now, consumer>>
        /\ \A i \in DOMAIN alerts :
             alerts'[i] = alerts[i] \/ alerts'[i] = Triaged(alerts[i], request[a], a)
    BY <1>3 DEF TriageCommit
  <2>2. \A row \in Alert : /\ Triaged(row, request[a], a).score = row.score
                           /\ Triaged(row, request[a], a).seen = row.seen
    BY DEF Triaged, Alert
  <2> QED
    BY <1>0, <2>1, <2>2 DEF ScoresKept
<1>4. ASSUME NEW a \in Analysts, NEW ids \in SUBSET DOMAIN alerts, NEW act \in Actions,
             BulkTriage(a, ids, act)
      PROVE  ScoresKept
  <2>1. /\ DOMAIN alerts' = DOMAIN alerts /\ UNCHANGED <<now, consumer>>
        /\ \A i \in DOMAIN alerts :
             alerts'[i] = alerts[i] \/ alerts'[i] = BulkTriaged(alerts[i], a, act)
    BY <1>4 DEF BulkTriage
  <2>2. \A row \in Alert : /\ BulkTriaged(row, a, act).score = row.score
                           /\ BulkTriaged(row, a, act).seen = row.seen
    BY DEF BulkTriaged, Alert
  <2> QED
    BY <1>0, <2>1, <2>2 DEF ScoresKept
<1>5. CASE ReplayReset
  <2>1. /\ DOMAIN alerts' = DOMAIN alerts /\ UNCHANGED <<now, consumer>>
        /\ \A i \in DOMAIN alerts :
             alerts'[i] = alerts[i] \/ alerts'[i] = [alerts[i] EXCEPT !.status = "dismissed"]
    BY <1>5 DEF ReplayReset
  <2> QED
    BY <1>0, <2>1 DEF ScoresKept, Alert
<1> QED
  BY <1>1, <1>2, <1>3, <1>4, <1>5 DEF Next

LEMMA FindReads ==
  ASSUME TypeOK, ReadCurrent, NEW e \in Employees, NEW s \in Scores, ConsumerFind(e, s)
  PROVE  ReadCurrent' /\ RowsRise
<1>1. UNCHANGED <<alerts, now>>
  BY DEF ConsumerFind
<1>2. PICK r \in find_existing_open_alert(e) :
        consumer' = [pc |-> "found", emp |-> e, score |-> s, row |-> r,
                     loaded |-> IF r = 0 THEN 0 ELSE alerts[r].score]
  BY DEF ConsumerFind
<1>3. r # 0 => r \in DOMAIN alerts
  BY DEF find_existing_open_alert, OpenOf
<1>4. ReadCurrent'
  BY <1>1, <1>2, <1>3 DEF ReadCurrent
<1>5. RowsRise
  BY <1>1, Rows DEF TypeOK, RowsRise
<1> QED
  BY <1>4, <1>5

LEMMA FoldRises ==
  ASSUME TypeOK, ReadCurrent, ConsumerFold
  PROVE  ReadCurrent' /\ RowsRise
<1> DEFINE r == consumer.row
<1>1. consumer \in [pc : {"found"}, emp : Employees, score : Scores, row : Nat,
                    loaded : Scores \union {0}]
  BY DEF TypeOK, ConsumerFold, ConsumerState, ConsumerIdle
<1>2. /\ r \in DOMAIN alerts /\ alerts[r].score = consumer.loaded
      /\ alerts[r] \in Alert /\ alerts[r].score \in Nat /\ alerts[r].seen \in Nat
      /\ alerts[r].seen <= now /\ consumer.score \in Nat
  BY <1>1, Rows, ScoresAssumption DEF TypeOK, ConsumerFold, IsDuplicate, ReadCurrent
<1>3. /\ DOMAIN alerts' = DOMAIN alerts
      /\ alerts'[r] = Folded(alerts[r], consumer)
      /\ \A i \in DOMAIN alerts : i # r => alerts'[i] = alerts[i]
      /\ now' = now /\ consumer'.pc = "saved"
  BY <1>2 DEF ConsumerFold
<1>4. alerts'[r].seen = now /\ alerts'[r].score >= alerts[r].score
  <2>1. CASE consumer.score > consumer.loaded
    BY <1>2, <1>3, <2>1 DEF Folded, Alert
  <2>2. CASE ~(consumer.score > consumer.loaded)
    BY <1>2, <1>3, <2>2 DEF Folded, Alert
  <2> QED
    BY <2>1, <2>2
<1>5. now \in Nat /\ now <= now
  BY DEF TypeOK
<1>6. ReadCurrent'
  BY <1>3, <1>4, <1>5 DEF ReadCurrent
<1>7. \A i \in DOMAIN alerts : alerts[i].score \in Nat /\ alerts[i].seen \in Nat
  BY Rows DEF TypeOK
<1>8. RowsRise
  BY <1>2, <1>3, <1>4, <1>7 DEF RowsRise
<1> QED
  BY <1>6, <1>8

LEMMA InsertRises ==
  ASSUME TypeOK, ReadCurrent, ConsumerInsert
  PROVE  ReadCurrent' /\ RowsRise
<1> DEFINE new == [emp |-> consumer.emp, score |-> consumer.score, status |-> "open",
                   source |-> "replay", at |-> now, seen |-> now, owner |-> Unassigned]
<1>1. consumer.emp \in Employees /\ consumer.score \in Scores /\ now \in Nat
  BY DEF TypeOK, ConsumerInsert, ConsumerState, ConsumerIdle
<1>2. new \in Alert
  BY <1>1 DEF Alert, Status
<1>3. PICK n \in Nat : n = Len(alerts) + 1
  BY Rows DEF TypeOK
<1>4. /\ DOMAIN alerts' = 1 .. n /\ alerts'[n] = new
      /\ DOMAIN alerts = 1 .. Len(alerts) /\ Len(alerts) \in Nat
      /\ \A i \in DOMAIN alerts : alerts'[i] = alerts[i]
  BY <1>2, <1>3, AppendRow DEF TypeOK, ConsumerInsert
<1>5. DOMAIN alerts' = DOMAIN alerts \union {n}
  BY <1>3, <1>4
<1>6. now' = now /\ consumer'.pc = "saved"
  BY DEF ConsumerInsert
<1>7. ReadCurrent'
  BY <1>1, <1>4, <1>5, <1>6 DEF ReadCurrent
<1>8. RowsRise
  BY <1>4, Rows DEF TypeOK, RowsRise
<1> QED
  BY <1>7, <1>8

LEMMA NextRises ==
  ASSUME TypeOK, ReadCurrent, [Next]_vars
  PROVE  ReadCurrent' /\ RowsRise
<1>1. TypeOK'
  BY NextType
<1>2. CASE ConsumerFold
  BY <1>2, FoldRises
<1>3. CASE ConsumerInsert
  BY <1>3, InsertRises
<1>4. CASE \E e \in Employees, s \in Scores : ConsumerFind(e, s)
  BY <1>4, FindReads
<1>5. CASE /\ ~ConsumerFold /\ ~ConsumerInsert
           /\ ~\E e \in Employees, s \in Scores : ConsumerFind(e, s)
  BY <1>1, <1>5, OthersKeep, KeptRises
<1> QED
  BY <1>2, <1>3, <1>4, <1>5

LEMMA InitRises == Init => ReadCurrent
<1> SUFFICES ASSUME Init PROVE ReadCurrent
  OBVIOUS
<1>1. consumer.pc = "idle"
  BY DEF Init, ConsumerIdle
<1> QED
  BY <1>1, SeededTable DEF ReadCurrent

\* An alert's score and its last_seen_at never go back, "reopen" or not: the
\* consumer's read-then-write of max(score) loses no update, whoever else writes
\* the row in between (create_or_update_alert).
THEOREM ScoresRise == Spec => ScoresOnlyRise
<1>1. Init => TypeOK /\ ReadCurrent
  BY InitType, InitRises
<1>2. TypeOK /\ ReadCurrent /\ [Next]_vars => TypeOK' /\ ReadCurrent' /\ [RowsRise]_vars
  BY NextType, NextRises
<1> QED
  BY <1>1, <1>2, PTL DEF Spec, ScoresOnlyRise
-----------------------------------------------------------------------------
(* Triage. *)

\* Only a reopening makes a triaged alert open again: of the actions, "reopen"
\* alone writes the status "open".
LEMMA StepSticks ==
  ASSUME TypeOK, [Next]_vars, NEW i \in DOMAIN alerts
  PROVE  StaysTriaged(i)
<1> SUFFICES ASSUME alerts[i].status # "open"
             PROVE  alerts'[i].status # "open" \/ Reopened(i)'
  BY DEF StaysTriaged
<1>0. alerts[i] \in Alert
  BY Rows DEF TypeOK
<1>1. CASE ConsumerFold
  BY <1>0, <1>1 DEF ConsumerFold, Folded, Alert
<1>2. CASE ConsumerInsert
  <2>1. consumer \in [pc : {"found"}, emp : Employees, score : Scores, row : Nat,
                      loaded : Scores \union {0}]
    BY <1>2 DEF TypeOK, ConsumerInsert, ConsumerState, ConsumerIdle
  <2>2. [emp |-> consumer.emp, score |-> consumer.score, status |-> "open",
         source |-> "replay", at |-> now, seen |-> now, owner |-> Unassigned] \in Alert
    BY <2>1 DEF TypeOK, Alert, Status
  <2> QED
    BY <1>2, <2>2, AppendRow DEF ConsumerInsert, TypeOK
<1>3. ASSUME NEW a \in Analysts, TriageCommit(a) 
      PROVE  alerts'[i].status # "open" \/ Reopened(i)'
  <2>1. request[a] \in [pc : {"loaded"}, id : Nat, action : Actions, status : Status,
                        owner : Analysts \union {Unassigned}]
    BY <1>3 DEF TriageCommit, TypeOK, RequestState, RequestIdle
  <2>2. CASE request[a].action = "reopen" /\ request[a].id = i
    BY <1>3, <2>2 DEF TriageCommit, Reopened
  <2>3. CASE request[a].id # i
    BY <1>0, <1>3, <2>3 DEF TriageCommit
  <2>4. CASE request[a].action # "reopen"
    <3>1. map_status[request[a].action] # "open"
      BY <2>1, <2>4, StatusOfAction
    <3> QED
      BY <1>0, <1>3, <3>1 DEF TriageCommit, Triaged, Alert
  <2> QED
    BY <2>2, <2>3, <2>4
<1>4. ASSUME NEW a \in Analysts, NEW ids \in (SUBSET DOMAIN alerts) \ {{}},
             NEW act \in Actions, BulkTriage(a, ids, act)
      PROVE  alerts'[i].status # "open" \/ Reopened(i)'
  <2>1. CASE act = "reopen" /\ i \in ids
    BY <1>4, <2>1 DEF BulkTriage, Reopened
  <2>2. CASE i \notin ids
    BY <1>4, <2>2 DEF BulkTriage
  <2>3. CASE act # "reopen"
    <3>1. map_status[act] # "open"
      BY <2>3, StatusOfAction
    <3> QED
      BY <1>0, <1>4, <3>1 DEF BulkTriage, BulkTriaged, Alert
  <2> QED
    BY <2>1, <2>2, <2>3
<1>5. CASE ReplayReset
  BY <1>0, <1>5 DEF ReplayReset, Alert
<1>6. CASE UNCHANGED alerts
  BY <1>6
<1> QED
  BY <1>1, <1>2, <1>3, <1>4, <1>5, <1>6
  DEF Next, vars, ConsumerFind, ConsumerBroadcast, ConsumerFail, RefreshFails, TriageLoad,
      Crash, Tick

\* A dismissed, investigating or escalated alert is open again only once an
\* analyst reopened it: neither a late fold, a stale triage request nor a replay's
\* reset revives it.
THEOREM TriageStays == Spec => TriageSticks
<1>1. TypeOK /\ [Next]_vars => [\A i \in DOMAIN alerts : StaysTriaged(i)]_vars
  BY StepSticks
<1> QED
  BY <1>1, TypeCorrect, PTL DEF Spec, TriageSticks

LEMMA InitAccounted == Init => AccountedFor
<1> SUFFICES ASSUME Init PROVE AccountedFor
  OBVIOUS
<1>1. AlertsHaveEmployees
  BY SeededTable DEF AlertsHaveEmployees
<1>2. TriageAudited
  <2>1. \A act \in {"investigate", "escalate"} : map_status[act] # "open"
    BY DEF map_status
  <2> QED
    BY <2>1, SeededTable DEF TriageAudited, Accounted
<1> QED
  BY <1>1, <1>2 DEF AccountedFor

\* A step that only adds to the log, and gives a row a status or an owner it
\* did not have only with the audit row of that action, keeps it accounted for.
LEMMA RowStaysAccounted ==
  ASSUME NEW i \in DOMAIN alerts, Accounted(i), audit \subseteq audit',
         \/ alerts'[i].owner = alerts[i].owner
         \/ [id |-> i, actor |-> alerts'[i].owner, action |-> "investigate"] \in audit',
         \/ alerts'[i].status = alerts[i].status
         \/ \E a \in Analysts, act \in Actions :
              /\ alerts'[i].status = map_status[act]
              /\ [id |-> i, actor |-> a, action |-> act] \in audit'
  PROVE  Accounted(i)'
<1>1. alerts'[i].owner # Unassigned =>
        [id |-> i, actor |-> alerts'[i].owner, action |-> "investigate"] \in audit'
  BY DEF Accounted
<1>2. ASSUME NEW act \in {"investigate", "escalate"}, alerts'[i].status = map_status[act]
      PROVE  \E a \in Analysts : [id |-> i, actor |-> a, action |-> act] \in audit'
  <2>1. CASE alerts'[i].status = alerts[i].status
    BY <1>2, <2>1 DEF Accounted
  <2>2. ASSUME NEW a \in Analysts, NEW b \in Actions,
               alerts'[i].status = map_status[b],
               [id |-> i, actor |-> a, action |-> b] \in audit'
        PROVE  \E x \in Analysts : [id |-> i, actor |-> x, action |-> act] \in audit'
    <3>1. b \in {"dismiss", "investigate", "escalate", "reopen"}
      BY ActionsAssumption
    <3>2. b = act
      BY <1>2, <2>2, <3>1 DEF map_status
    <3> QED
      BY <2>2, <3>2
  <2> QED
    BY <2>1, <2>2
<1> QED
  BY <1>1, <1>2 DEF Accounted

LEMMA NextAccounted ==
  ASSUME TypeOK, AccountedFor, [Next]_vars
  PROVE  AccountedFor'
<1>0. \A i \in DOMAIN alerts : /\ alerts[i] \in Alert /\ Accounted(i)
                               /\ alerts[i].emp \in employees
  BY Rows DEF TypeOK, AccountedFor, TriageAudited, AlertsHaveEmployees
<1>1. CASE ConsumerFold
  <2>0. /\ DOMAIN alerts' = DOMAIN alerts /\ audit' = audit
        /\ \A i \in DOMAIN alerts :
             alerts'[i] = alerts[i] \/ alerts'[i] = Folded(alerts[i], consumer)
    BY <1>1 DEF ConsumerFold
  <2>1. /\ DOMAIN alerts' = DOMAIN alerts /\ audit' = audit
        /\ employees \subseteq employees'
        /\ \A i \in DOMAIN alerts :
             alerts'[i] = alerts[i] \/ alerts'[i] = Folded(alerts[i], consumer)
    BY <2>0, <1>1 DEF ConsumerFold, EnsureEmployee
  <2>f. ASSUME NEW row \in Alert
        PROVE  /\ Folded(row, consumer).emp = row.emp
               /\ Folded(row, consumer).status = row.status
               /\ Folded(row, consumer).owner = row.owner
    BY DEF Folded, Alert
  <2>2. \A i \in DOMAIN alerts : /\ alerts'[i].emp = alerts[i].emp
                                 /\ alerts'[i].status = alerts[i].status
                                 /\ alerts'[i].owner = alerts[i].owner
    BY <1>0, <2>1, <2>f
  <2>3. ASSUME NEW i \in DOMAIN alerts PROVE Accounted(i)'
    <3>1. alerts'[i].owner = alerts[i].owner /\ alerts'[i].status = alerts[i].status
      BY <2>2
    <3>2. Accounted(i) /\ audit \subseteq audit'
      BY <1>0, <2>1
    <3> QED
      BY <3>1, <3>2, RowStaysAccounted
  <2>4. TriageAudited'
    BY <2>1, <2>3 DEF TriageAudited
  <2>5. AlertsHaveEmployees'
    BY <1>0, <2>1, <2>2 DEF AlertsHaveEmployees
  <2> QED
    BY <2>4, <2>5 DEF AccountedFor
<1>2. CASE ConsumerInsert
  <2> DEFINE new == [emp |-> consumer.emp, score |-> consumer.score, status |-> "open",
                     source |-> "replay", at |-> now, seen |-> now, owner |-> Unassigned]
             n == Len(alerts) + 1
  <2>1. consumer \in [pc : {"found"}, emp : Employees, score : Scores, row : Nat,
                      loaded : Scores \union {0}]
    BY <1>2 DEF TypeOK, ConsumerInsert, ConsumerState, ConsumerIdle
  <2>2. new \in Alert
    BY <2>1 DEF TypeOK, Alert, Status
  <2>3. /\ DOMAIN alerts' = DOMAIN alerts \union {n} /\ alerts'[n] = new
        /\ \A i \in DOMAIN alerts : alerts'[i] = alerts[i]
        /\ audit' = audit /\ employees' = employees \union {consumer.emp}
    <3>1. /\ DOMAIN alerts' = 1 .. n /\ alerts'[n] = new
          /\ \A i \in DOMAIN alerts : alerts'[i] = alerts[i]
      BY <1>2, <2>2, AppendRow DEF ConsumerInsert, TypeOK
    <3>2. DOMAIN alerts = 1 .. Len(alerts) /\ Len(alerts) \in Nat
      BY Rows DEF TypeOK
    <3> QED
      BY <1>2, <3>1, <3>2 DEF ConsumerInsert, EnsureEmployee
  <2>4. \A i \in DOMAIN alerts : Accounted(i)'
    BY <1>0, <2>3, RowStaysAccounted
  <2>5. ASSUME NEW k \in {n} PROVE Accounted(k)'
    <3>1. alerts'[k].owner = Unassigned /\ alerts'[k].status = "open"
      BY <2>3
    <3>2. \A act \in {"investigate", "escalate"} : map_status[act] # "open"
      BY DEF map_status
    <3> QED
      BY <3>1, <3>2 DEF Accounted
  <2>6. AlertsHaveEmployees'
    BY <1>0, <2>3 DEF AlertsHaveEmployees
  <2>7. \A i \in DOMAIN alerts' : Accounted(i)'
    BY <2>3, <2>4, <2>5
  <2> QED
    BY <2>6, <2>7 DEF AccountedFor, TriageAudited
<1>3. ASSUME NEW a \in Analysts, TriageCommit(a) PROVE AccountedFor'
  <2> DEFINE r == request[a]
  <2>1. r \in [pc : {"loaded"}, id : Nat, action : Actions, status : Status,
              owner : Analysts \union {Unassigned}]
    BY <1>3 DEF TriageCommit, TypeOK, RequestState, RequestIdle
  <2>2. /\ DOMAIN alerts' = DOMAIN alerts /\ employees' = employees
        /\ audit' = audit \union {[id |-> r.id, actor |-> a, action |-> r.action]}
        /\ \A i \in DOMAIN alerts :
             alerts'[i] = IF i = r.id THEN Triaged(alerts[i], r, a) ELSE alerts[i]
    BY <1>3 DEF TriageCommit
  <2>3. ASSUME NEW row \in Alert
        PROVE  LET new == Triaged(row, r, a)
               IN /\ new.emp = row.emp
                  /\ new.status = row.status \/ new.status = map_status[r.action]
                  /\ new.owner = row.owner \/ (new.owner = a /\ r.action = "investigate")
    BY DEF Triaged, Alert
  <2>4. ASSUME NEW i \in DOMAIN alerts PROVE Accounted(i)' /\ alerts'[i].emp = alerts[i].emp
    <3>1. CASE i = r.id
      <4>1. alerts'[i] = Triaged(alerts[i], r, a)
        BY <2>2, <3>1
      <4>2. [id |-> i, actor |-> a, action |-> r.action] \in audit'
        BY <2>2, <3>1
      <4>3. /\ alerts'[i].emp = alerts[i].emp
            /\ alerts'[i].status = alerts[i].status \/ alerts'[i].status = map_status[r.action]
            /\ \/ alerts'[i].owner = alerts[i].owner
               \/ alerts'[i].owner = a /\ r.action = "investigate"
        BY <1>0, <2>3, <4>1
      <4>4. r.action \in Actions /\ audit \subseteq audit'
        BY <2>1, <2>2
      <4> HIDE DEF r
      <4> QED
        BY <1>0, <4>2, <4>3, <4>4, RowStaysAccounted
    <3>2. CASE i # r.id
      BY <1>0, <2>2, <3>2, RowStaysAccounted
    <3> QED
      BY <3>1, <3>2
  <2> QED
    BY <1>0, <2>2, <2>4 DEF AccountedFor, TriageAudited, AlertsHaveEmployees
<1>4. ASSUME NEW a \in Analysts, NEW ids \in (SUBSET DOMAIN alerts) \ {{}},
             NEW act \in Actions, BulkTriage(a, ids, act)
      PROVE  AccountedFor'
  <2>1. /\ DOMAIN alerts' = DOMAIN alerts /\ employees' = employees
        /\ audit \subseteq audit'
        /\ \A i \in ids : [id |-> i, actor |-> a, action |-> act] \in audit'
        /\ \A i \in DOMAIN alerts :
             alerts'[i] = IF i \in ids THEN BulkTriaged(alerts[i], a, act) ELSE alerts[i]
    BY <1>4 DEF BulkTriage
  <2>2. ASSUME NEW row \in Alert
        PROVE  LET new == BulkTriaged(row, a, act)
               IN /\ new.emp = row.emp /\ new.status = map_status[act]
                  /\ new.owner = row.owner \/ (new.owner = a /\ act = "investigate")
    BY DEF BulkTriaged, Alert
  <2>3. ASSUME NEW i \in DOMAIN alerts PROVE Accounted(i)' /\ alerts'[i].emp = alerts[i].emp
    <3>1. CASE i \in ids
      <4>1. alerts'[i] = BulkTriaged(alerts[i], a, act)
        BY <2>1, <3>1
      <4>2. /\ alerts'[i].emp = alerts[i].emp /\ alerts'[i].status = map_status[act]
            /\ \/ alerts'[i].owner = alerts[i].owner
               \/ alerts'[i].owner = a /\ act = "investigate"
        BY <1>0, <2>2, <4>1
      <4> QED
        BY <1>0, <2>1, <3>1, <4>2, RowStaysAccounted
    <3>2. CASE i \notin ids
      BY <1>0, <2>1, <3>2, RowStaysAccounted
    <3> QED
      BY <3>1, <3>2
  <2> QED
    BY <1>0, <2>1, <2>3 DEF AccountedFor, TriageAudited, AlertsHaveEmployees
<1>5. CASE ReplayReset
  <2>1. /\ DOMAIN alerts' = DOMAIN alerts /\ audit' = audit /\ employees' = employees
        /\ \A i \in DOMAIN alerts :
             alerts'[i] = alerts[i] \/ alerts'[i] = [alerts[i] EXCEPT !.status = "dismissed"]
    BY <1>5 DEF ReplayReset
  <2>2. \A act \in {"investigate", "escalate"} : map_status[act] # "dismissed"
    BY DEF map_status
  <2>3. \A i \in DOMAIN alerts :
          /\ alerts'[i].emp = alerts[i].emp /\ alerts'[i].owner = alerts[i].owner
          /\ alerts'[i].status = alerts[i].status \/ alerts'[i].status = "dismissed"
    BY <1>0, <2>1 DEF Alert
  <2>4. \A i \in DOMAIN alerts : Accounted(i)'
    BY <1>0, <2>1, <2>2, <2>3 DEF Accounted
  <2> QED
    BY <1>0, <2>1, <2>3, <2>4 DEF AccountedFor, TriageAudited, AlertsHaveEmployees
<1>6. CASE UNCHANGED <<alerts, employees, audit>>
  BY <1>6 DEF AccountedFor, TriageAudited, AlertsHaveEmployees, Accounted
<1> QED
  BY <1>1, <1>2, <1>3, <1>4, <1>5, <1>6
  DEF Next, vars, ConsumerFind, ConsumerBroadcast, ConsumerFail, RefreshFails, TriageLoad,
      Crash, Tick

\* An owned, investigating or escalated alert always has the audit row of the
\* analyst's action, and every alert has its employee, "reopen" or not.
THEOREM AuditComplete == Spec => []AccountedFor
<1>1. Init => TypeOK /\ AccountedFor
  BY InitType, InitAccounted
<1>2. TypeOK /\ AccountedFor /\ [Next]_vars => TypeOK' /\ AccountedFor'
  BY NextType, NextAccounted
<1> QED
  BY <1>1, <1>2, PTL DEF Spec
-----------------------------------------------------------------------------
(* Alerts no client was told about. *)

\* Unannounced forgives the row a handler has saved, also when it is a folded
\* row that an earlier fault silenced: for induction only a new row counts as
\* one that will still be announced.
AboutToTell(i) == consumer.pc = "saved" /\ consumer.isNew /\ consumer.row = i
Silent == {i \in DOMAIN alerts : /\ alerts[i].source = "replay"
                                 /\ i \notin announced
                                 /\ ~AboutToTell(i)}
SilenceInv == Cardinality(Silent) <= faults

LEMMA SilentFinite ==
  ASSUME TypeOK
  PROVE  IsFiniteSet(Silent) /\ Cardinality(Silent) \in Nat
<1>1. IsFiniteSet(DOMAIN alerts)
  BY Rows, FS_Interval DEF TypeOK
<1>2. Silent \in SUBSET (DOMAIN alerts)
  BY DEF Silent
<1> QED
  BY <1>1, <1>2, FS_Subset, FS_CardinalityType

\* A step that silences no row keeps the bound.
LEMMA NoneSilenced ==
  ASSUME TypeOK, TypeOK', SilenceInv, Silent' \subseteq Silent, faults' = faults
  PROVE  SilenceInv'
<1>1. Cardinality(Silent') <= Cardinality(Silent)
  BY SilentFinite, FS_Subset
<1>2. IsFiniteSet(Silent') /\ Cardinality(Silent') \in Nat /\ Cardinality(Silent) \in Nat
  <2>1. IsFiniteSet(Silent')
    BY SilentFinite, FS_Subset
  <2> QED
    BY <2>1, SilentFinite, FS_CardinalityType
<1>3. faults \in Nat
  BY DEF TypeOK
<1>4. Cardinality(Silent)' = Cardinality(Silent')
  OBVIOUS
<1> QED
  BY <1>1, <1>2, <1>3, <1>4 DEF SilenceInv

\* A handler that rewrites rows leaves their source alone.
LEMMA SourcesKept ==
  ASSUME TypeOK, TypeOK', SilenceInv,
         DOMAIN alerts' = DOMAIN alerts,
         \A i \in DOMAIN alerts : alerts'[i].source = alerts[i].source,
         announced' = announced, faults' = faults,
         \A i \in DOMAIN alerts : AboutToTell(i) => AboutToTell(i)'
  PROVE  SilenceInv'
<1>1. Silent' \subseteq Silent
  BY DEF Silent
<1> QED
  BY <1>1, NoneSilenced

LEMMA NextSilence ==
  ASSUME TypeOK, TypeOK', SilenceInv, [Next]_vars
  PROVE  SilenceInv'
<1>0. \A i \in DOMAIN alerts : alerts[i] \in Alert /\ i \in Nat \ {0}
  BY Rows DEF TypeOK
<1>1. CASE ConsumerFold
  <2>1. \A row \in Alert : Folded(row, consumer).source = row.source
    BY DEF Folded, Alert
  <2>2. /\ DOMAIN alerts' = DOMAIN alerts
        /\ \A i \in DOMAIN alerts :
             alerts'[i] = alerts[i] \/ alerts'[i] = Folded(alerts[i], consumer)
    BY <1>1 DEF ConsumerFold
  <2>3. \A i : ~AboutToTell(i)
    BY <1>1 DEF ConsumerFold, AboutToTell
  <2>4. announced' = announced /\ faults' = faults
    BY <1>1 DEF ConsumerFold
  <2> QED
    BY <1>0, <2>1, <2>2, <2>3, <2>4, SourcesKept
<1>2. CASE ConsumerInsert
  <2> DEFINE new == [emp |-> consumer.emp, score |-> consumer.score, status |-> "open",
                     source |-> "replay", at |-> now, seen |-> now, owner |-> Unassigned]
  <2>1. consumer.emp \in Employees /\ consumer.score \in Scores /\ now \in Nat
    BY <1>2 DEF TypeOK, ConsumerInsert, ConsumerState, ConsumerIdle
  <2>2. new \in Alert
    BY <2>1 DEF Alert, Status
  <2>3. PICK n \in Nat : n = Len(alerts) + 1
    BY Rows DEF TypeOK
  <2>4. /\ DOMAIN alerts' = DOMAIN alerts \union {n}
        /\ \A i \in DOMAIN alerts : alerts'[i] = alerts[i]
    <3>1. /\ DOMAIN alerts' = 1 .. n /\ DOMAIN alerts = 1 .. Len(alerts)
          /\ Len(alerts) \in Nat
          /\ \A i \in DOMAIN alerts : alerts'[i] = alerts[i]
      BY <1>2, <2>2, <2>3, AppendRow DEF TypeOK, ConsumerInsert
    <3> QED
      BY <2>3, <3>1
  <2>5. consumer.pc = "found" /\ announced' = announced /\ faults' = faults
    BY <1>2 DEF ConsumerInsert
  <2>6. consumer' = [pc |-> "saved", row |-> n, isNew |-> TRUE]
    BY <1>2, <2>3 DEF ConsumerInsert
  <2>7. AboutToTell(n)' /\ \A i : ~AboutToTell(i)
    BY <2>5, <2>6 DEF AboutToTell
  <2>8. ASSUME NEW i \in Silent' PROVE i \in Silent
    <3>1. i # n
      BY <2>7, <2>8 DEF Silent
    <3> QED
      BY <2>4, <2>5, <2>7, <2>8, <3>1 DEF Silent
  <2> QED
    BY <2>5, <2>8, NoneSilenced
<1>3. CASE ConsumerBroadcast
  <2>1. /\ alerts' = alerts /\ faults' = faults
        /\ announced \subseteq announced'
        /\ consumer.isNew => consumer.row \in announced'
    BY <1>3 DEF ConsumerBroadcast, Announce
  <2>2. Silent' \subseteq Silent
    BY <2>1 DEF Silent, AboutToTell
  <2> QED
    BY <2>1, <2>2, NoneSilenced
<1>4. ASSUME NEW a \in Analysts, TriageCommit(a) PROVE SilenceInv'
  <2> DEFINE r == request[a]
  <2>1. \A row \in Alert : Triaged(row, r, a).source = row.source
    BY DEF Triaged, Alert
  <2>2. /\ DOMAIN alerts' = DOMAIN alerts
        /\ \A i \in DOMAIN alerts :
             alerts'[i] = alerts[i] \/ alerts'[i] = Triaged(alerts[i], r, a)
        /\ announced' = announced /\ faults' = faults /\ consumer' = consumer
    BY <1>4 DEF TriageCommit
  <2> QED
    BY <1>0, <2>1, <2>2, SourcesKept DEF AboutToTell
<1>5. ASSUME NEW a \in Analysts, NEW ids \in SUBSET DOMAIN alerts, NEW act \in Actions,
             BulkTriage(a, ids, act)
      PROVE  SilenceInv'
  <2>1. \A row \in Alert : BulkTriaged(row, a, act).source = row.source
    BY DEF BulkTriaged, Alert
  <2>2. /\ DOMAIN alerts' = DOMAIN alerts
        /\ \A i \in DOMAIN alerts :
             alerts'[i] = alerts[i] \/ alerts'[i] = BulkTriaged(alerts[i], a, act)
        /\ announced' = announced /\ faults' = faults /\ consumer' = consumer
    BY <1>5 DEF BulkTriage
  <2> QED
    BY <1>0, <2>1, <2>2, SourcesKept DEF AboutToTell
<1>6. CASE ReplayReset
  <2>1. /\ DOMAIN alerts' = DOMAIN alerts
        /\ \A i \in DOMAIN alerts :
             alerts'[i] = alerts[i] \/ alerts'[i] = [alerts[i] EXCEPT !.status = "dismissed"]
        /\ announced' = announced /\ faults' = faults /\ consumer' = consumer
    BY <1>6 DEF ReplayReset
  <2>2. \A i \in DOMAIN alerts : alerts'[i].source = alerts[i].source
    BY <1>0, <2>1 DEF Alert
  <2> QED
    BY <2>1, <2>2, SourcesKept DEF AboutToTell
<1>7. CASE Crash \/ RefreshFails
  <2>1. /\ Silent' \subseteq Silent \union {consumer.row}
        /\ faults' = faults + 1 /\ faults \in Nat
    BY <1>7 DEF Crash, RefreshFails, Silent, AboutToTell, TypeOK
  <2>2. /\ IsFiniteSet(Silent \union {consumer.row})
        /\ Cardinality(Silent \union {consumer.row}) <= Cardinality(Silent) + 1
        /\ Cardinality(Silent \union {consumer.row}) \in Nat
        /\ Cardinality(Silent) \in Nat
    <3> DEFINE more == Silent \union {consumer.row}
    <3>1. IsFiniteSet(Silent) /\ Cardinality(Silent) \in Nat
      BY SilentFinite
    <3>2. /\ IsFiniteSet(more)
          /\ Cardinality(more) = Cardinality(Silent) \/ Cardinality(more) = Cardinality(Silent) + 1
      BY <3>1, FS_AddElement
    <3> QED
      BY <3>1, <3>2
  <2>3. /\ Cardinality(Silent') <= Cardinality(Silent \union {consumer.row})
        /\ Cardinality(Silent') \in Nat
    BY <2>1, <2>2, FS_Subset, FS_CardinalityType
  <2> QED
    BY <2>1, <2>2, <2>3 DEF SilenceInv
<1>8. CASE \/ \E e \in Employees, s \in Scores : ConsumerFind(e, s)
           \/ ConsumerFail
  <2>1. /\ alerts' = alerts /\ announced' = announced /\ faults' = faults
        /\ consumer.pc # "saved"
    BY <1>8 DEF ConsumerFind, ConsumerFail, ConsumerIdle
  <2> QED
    BY <2>1, SourcesKept DEF AboutToTell
<1>9. CASE \/ \E a \in Analysts, i \in DOMAIN alerts, act \in Actions : TriageLoad(a, i, act)
           \/ Tick \/ UNCHANGED vars
  <2>1. /\ alerts' = alerts /\ announced' = announced /\ faults' = faults
        /\ consumer' = consumer
    BY <1>9 DEF TriageLoad, Tick, vars
  <2> QED
    BY <2>1, SourcesKept DEF AboutToTell
<1> QED
  BY <1>1, <1>2, <1>3, <1>4, <1>5, <1>6, <1>7, <1>8, <1>9 DEF Next

LEMMA InitSilence == Init => SilenceInv
<1> SUFFICES ASSUME Init PROVE SilenceInv
  OBVIOUS
<1>1. \A i \in DOMAIN alerts : alerts[i].source = "seed"
  <2>1. PICK n \in 0 .. MaxAlerts :
          \E e \in [1 .. n -> Employees], s \in [1 .. n -> Scores],
             t \in [1 .. n -> 0 .. Start] : Seeded(n, e, s, t)
    BY DEF Init
  <2>2. PICK e \in [1 .. n -> Employees], s \in [1 .. n -> Scores],
              t \in [1 .. n -> 0 .. Start] : Seeded(n, e, s, t)
    BY <2>1
  <2> QED
    BY <2>2 DEF Seeded, SeedRow
<1>2. Silent = {}
  BY <1>1 DEF Silent
<1> QED
  BY <1>2, FS_EmptySet DEF Init, SilenceInv

\* A row the consumer committed and no client was told about is the price of an
\* end of the process or of a failed refresh (or lost answer) after the commit,
\* and each costs one at most: no triage, bulk triage, fold, reset or handler that
\* failed before its commit silences one (create_or_update_alert).
THEOREM SilenceIsFaults == Spec => []SilenceNeedsFault
<1>1. Init => TypeOK /\ SilenceInv
  BY InitType, InitSilence
<1>2. TypeOK /\ SilenceInv /\ [Next]_vars => TypeOK' /\ SilenceInv'
  BY NextType, NextSilence
<1>3. TypeOK /\ SilenceInv => SilenceNeedsFault
  <2> SUFFICES ASSUME TypeOK, SilenceInv PROVE SilenceNeedsFault
    OBVIOUS
  <2>1. Unannounced \subseteq Silent
    BY DEF Unannounced, Silent, AboutToTell
  <2>2. Cardinality(Unannounced) <= Cardinality(Silent)
        /\ Cardinality(Unannounced) \in Nat
    BY <2>1, SilentFinite, FS_Subset, FS_CardinalityType
  <2> QED
    BY <2>2, SilentFinite DEF SilenceInv, SilenceNeedsFault, TypeOK
<1> QED
  BY <1>1, <1>2, <1>3, PTL DEF Spec
=============================================================================
