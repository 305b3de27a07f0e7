--------------------------- MODULE AlertLifecycle ---------------------------
(***************************************************************************)
(* The alerts table and everything that writes it: the event consumer's    *)
(* create_or_update_alert (services/alert_service.py), single and bulk     *)
(* triage (api/alerts.py), the reset a replay start performs               *)
(* (services/replay_service.py) and the seed's initial rows.               *)
(*                                                                         *)
(* One backend process runs them all on one event loop, so a handler keeps *)
(* the loop between two awaits and loses it at each of them: a handler is  *)
(* one action per stretch between awaits, with the values it read in       *)
(* `consumer` or `request`.  A database transaction is atomic when it      *)
(* commits (READ COMMITTED, no row is locked by a SELECT), and an ORM      *)
(* UPDATE writes only the columns whose value differs from the loaded row. *)
(*                                                                         *)
(* A row's id is its index.  Two instants the model calls equal are        *)
(* told apart by id, as the code's microsecond timestamps tell them apart. *)
(***************************************************************************)
EXTENDS Integers, Sequences, FiniteSets

CONSTANTS Employees,   \* employee ids
          Scores,      \* fused scores at or above the threshold, in hundredths
          Delta,       \* ALERT_DEDUP_DELTA, in hundredths
          Window,      \* ALERT_DEDUP_WINDOW_MINUTES, in clock units
          Analysts,    \* users with a triage request in flight, at most one each
          Actions,     \* the triage actions in use; the UI never sends "reopen"
          Start,       \* time at which the backend starts
          MaxAlerts,   \* bound: rows in the table
          MaxNow,      \* bound: last instant
          MaxFaults    \* bound: ends of the process, and failed refreshes

ASSUME DeltaAssumption == Delta \in Nat \ {0}
ASSUME WindowAssumption == Window \in Nat
ASSUME ScoresAssumption == Scores \subseteq Nat
ASSUME ActionsAssumption ==
  Actions \subseteq {"dismiss", "investigate", "escalate", "reopen"}
ASSUME StartAssumption == Start \in Nat
ASSUME BoundsAssumption == MaxAlerts \in Nat /\ MaxNow \in Nat /\ MaxFaults \in Nat

VARIABLES alerts,      \* the alerts table, a sequence of rows
          employees,   \* the employees table, a set of ids
          audit,       \* the audit_log table, without its duplicates
          now,         \* the wall clock
          consumer,    \* where _handle_event stands in create_or_update_alert
          request,     \* where each analyst's triage request stands
          announced,   \* ids for which alert.new was broadcast
          faults       \* ends of the process and failed refreshes so far

vars == <<alerts, employees, audit, now, consumer, request, announced, faults>>

Unassigned == "unassigned"
Status == {"open", "dismissed", "investigating", "escalated"}

Alert == [emp : Employees, score : Scores, status : Status,
          source : {"seed", "replay"}, at : Nat, seen : Nat,
          owner : Analysts \union {Unassigned}]
AuditLog == [id : Nat, actor : Analysts, action : Actions]

map_status == [dismiss |-> "dismissed", investigate |-> "investigating",
               escalate |-> "escalated", reopen |-> "open"]

\* An idle consumer or request holds no row; the fields are placeholders.
ConsumerIdle == [pc |-> "idle"]
RequestIdle == [pc |-> "idle"]

\* Results of find_existing_open_alert and of the commit that follows it.
ConsumerState ==
       {ConsumerIdle}
  \union [pc : {"found"}, emp : Employees, score : Scores, row : Nat,
          loaded : Scores \union {0}]
  \union [pc : {"saved"}, row : Nat, isNew : BOOLEAN]
RequestState ==
       {RequestIdle}
  \union [pc : {"loaded"}, id : Nat, action : Actions, status : Status,
          owner : Analysts \union {Unassigned}]

TypeOK ==
  /\ alerts \in Seq(Alert)
  /\ employees \subseteq Employees
  /\ audit \subseteq AuditLog
  /\ now \in Nat
  /\ consumer \in ConsumerState
  /\ request \in [Analysts -> RequestState]
  /\ announced \subseteq Nat
  /\ faults \in Nat
-----------------------------------------------------------------------------
\* The seed inserts open alerts at least half an hour old, one per employee.
SeedRow(e, s, t) == [emp |-> e, score |-> s, status |-> "open",
                     source |-> "seed", at |-> t, seen |-> t,
                     owner |-> Unassigned]

\* The n rows are of distinct employees, and each employee has its own row.
Seeded(n, e, s, t) ==
  /\ \A i, j \in 1 .. n : e[i] = e[j] => i = j
  /\ alerts = [i \in 1 .. n |-> SeedRow(e[i], s[i], t[i])]
  /\ employees = {e[i] : i \in 1 .. n}

Init ==
  /\ \E n \in 0 .. MaxAlerts :
       \E e \in [1 .. n -> Employees], s \in [1 .. n -> Scores],
          t \in [1 .. n -> 0 .. Start] : Seeded(n, e, s, t)
  /\ audit = {}
  /\ now = Start
  /\ consumer = ConsumerIdle
  /\ request = [a \in Analysts |-> RequestIdle]
  /\ announced = {}
  /\ faults = 0
-----------------------------------------------------------------------------
(* The consumer. *)

OpenOf(e) == {i \in DOMAIN alerts : alerts[i].emp = e /\ alerts[i].status = "open"}
Recent(i) == alerts[i].at + Window >= now
Later(i, j) == alerts[i].at > alerts[j].at \/ (alerts[i].at = alerts[j].at /\ i >= j)

\* Fault: ORDER BY triggered_at ascending, the oldest open alert.
find_existing_open_alert_Oldest(e) ==
  LET rows == {i \in OpenOf(e) : Recent(i)}
  IN  IF rows = {} THEN {0} ELSE {i \in rows : \A j \in rows : Later(j, i)}

\* What the SELECT can return: the newest open alert of e triggered within
\* the window, or 0 when there is none.
find_existing_open_alert(e) ==
  LET rows == {i \in OpenOf(e) : Recent(i)}
  IN  IF rows = {} THEN {0} ELSE {i \in rows : \A j \in rows : Later(i, j)}

\* The SELECT: from here to the commit the row can be triaged by others.
ConsumerFind(e, s) ==
  /\ consumer = ConsumerIdle
  /\ \E i \in find_existing_open_alert(e) :
       consumer' = [pc |-> "found", emp |-> e, score |-> s, row |-> i,
                    loaded |-> IF i = 0 THEN 0 ELSE alerts[i].score]
  /\ UNCHANGED <<alerts, employees, audit, now, request, announced, faults>>

\* Fault: off by one at the boundary of ALERT_DEDUP_DELTA.
IsDuplicate_Inclusive(c) == c.row # 0 /\ c.score <= c.loaded + Delta

IsDuplicate(c) == c.row # 0 /\ c.score < c.loaded + Delta

\* _ensure_employee: the employees table once the transaction commits.
EnsureEmployee(e) == employees \union {e}

\* Fault: the whole loaded row is written back, its status included.
Folded_WholeRow(row, c) ==
  [row EXCEPT !.seen = now, !.status = "open",
              !.score = IF c.score > c.loaded THEN c.score ELSE c.loaded]

\* Fault: the score is written whether it is higher or not.
Folded_Latest(row, c) == [row EXCEPT !.seen = now, !.score = c.score]

\* The columns a duplicate writes: last_seen_at, and the score if higher.
Folded(row, c) ==
  [row EXCEPT !.seen = now,
              !.score = IF c.score > c.loaded THEN c.score ELSE @]

\* Deduplicated: update the row the SELECT found; commit.
ConsumerFold ==
  /\ consumer.pc = "found"
  /\ IsDuplicate(consumer)
  /\ alerts' = [alerts EXCEPT
        ![consumer.row] = Folded(@, consumer)]
  /\ employees' = EnsureEmployee(consumer.emp)
  /\ consumer' = [pc |-> "saved", row |-> consumer.row, isNew |-> FALSE]
  /\ UNCHANGED <<audit, now, request, announced, faults>>

\* Not a duplicate: insert an open row; commit.
ConsumerInsert ==
  /\ consumer.pc = "found"
  /\ ~IsDuplicate(consumer)
  /\ Len(alerts) < MaxAlerts
  /\ alerts' = Append(alerts,
        [emp |-> consumer.emp, score |-> consumer.score, status |-> "open",
         source |-> "replay", at |-> now, seen |-> now, owner |-> Unassigned])
  /\ employees' = EnsureEmployee(consumer.emp)
  /\ consumer' = [pc |-> "saved", row |-> Len(alerts) + 1, isNew |-> TRUE]
  /\ UNCHANGED <<audit, now, request, announced, faults>>

\* Fault: the branches are swapped, new rows are sent as alert.updated.
Announce_Swapped(c) == IF c.isNew THEN announced ELSE announced \union {c.row}

Announce(c) == IF c.isNew THEN announced \union {c.row} ELSE announced

\* The commit, and the refresh of a new row after it, are answered:
\* broadcast_alert for a new row, alert.updated for a deduplicated one.
ConsumerBroadcast ==
  /\ consumer.pc = "saved"
  /\ announced' = Announce(consumer)
  /\ consumer' = ConsumerIdle
  /\ UNCHANGED <<alerts, employees, audit, now, request, faults>>

\* A database error before the commit: rolled back, logged, the event is gone.
ConsumerFail ==
  /\ consumer.pc = "found"
  /\ consumer' = ConsumerIdle
  /\ UNCHANGED <<alerts, employees, audit, now, request, announced, faults>>

\* The refresh after the commit fails, or the answer to the commit is lost:
\* logged, the row stays as it is written, and nobody is told.
RefreshFails ==
  /\ faults < MaxFaults
  /\ consumer.pc = "saved"
  /\ consumer' = ConsumerIdle
  /\ faults' = faults + 1
  /\ UNCHANGED <<alerts, employees, audit, now, request, announced>>
-----------------------------------------------------------------------------
(* The API. *)

\* POST /alerts/{id}/triage up to its first await: load the row.
TriageLoad(a, i, act) ==
  /\ request[a] = RequestIdle
  /\ request' = [request EXCEPT
       ![a] = [pc |-> "loaded", id |-> i, action |-> act,
               status |-> alerts[i].status, owner |-> alerts[i].owner]]
  /\ UNCHANGED <<alerts, employees, audit, now, consumer, announced, faults>>

\* Fault: assigned_to is set whatever the action.
Triaged_AlwaysOwned(row, r, a) ==
  [row EXCEPT
     !.status = IF map_status[r.action] # r.status THEN map_status[r.action] ELSE @,
     !.owner = a]

\* The columns the ORM writes: those whose new value is not the loaded one.
Triaged(row, r, a) ==
  [row EXCEPT
     !.status = IF map_status[r.action] # r.status THEN map_status[r.action] ELSE @,
     !.owner = IF r.action = "investigate" /\ r.owner # a THEN a ELSE @]

\* The update and its audit row commit together.
TriageCommit(a) ==
  /\ request[a].pc = "loaded"
  /\ LET r == request[a]
     IN /\ alerts' = [alerts EXCEPT ![r.id] = Triaged(@, r, a)]
        /\ audit' = audit \union {[id |-> r.id, actor |-> a, action |-> r.action]}
  /\ request' = [request EXCEPT ![a] = RequestIdle]
  /\ UNCHANGED <<employees, now, consumer, announced, faults>>

\* The columns bulk_triage writes, whatever they held.
BulkTriaged(row, a, act) ==
  [row EXCEPT !.status = map_status[act],
              !.owner = IF act = "investigate" THEN a ELSE @]

\* POST /alerts/bulk-triage: one UPDATE ... WHERE id IN ids, one audit row
\* per id, one commit.  An id without a row breaks the audit row's foreign
\* key and rolls everything back, so ids are rows here.  The audit row says
\* "bulk-dismiss" for "dismiss": the model keeps the action.
BulkTriage(a, ids, act) ==
  /\ alerts' = [i \in DOMAIN alerts |->
       IF i \in ids THEN BulkTriaged(alerts[i], a, act) ELSE alerts[i]]
  /\ audit' = audit \union {[id |-> i, actor |-> a, action |-> act] : i \in ids}
  /\ UNCHANGED <<employees, now, consumer, request, announced, faults>>

\* POST /replay/start: one UPDATE dismisses the replay's own open alerts.
ReplayReset ==
  /\ alerts' = [i \in DOMAIN alerts |->
       IF alerts[i].status = "open" /\ alerts[i].source = "replay"
       THEN [alerts[i] EXCEPT !.status = "dismissed"]
       ELSE alerts[i]]
  /\ UNCHANGED <<employees, audit, now, consumer, request, announced, faults>>

\* The process dies, or is shut down and cancels the consumer where it is: what
\* handlers hold is lost, what is committed is not.
Crash ==
  /\ faults < MaxFaults
  /\ consumer' = ConsumerIdle
  /\ request' = [a \in Analysts |-> RequestIdle]
  /\ faults' = faults + 1
  /\ UNCHANGED <<alerts, employees, audit, now, announced>>

Tick ==
  /\ now < MaxNow
  /\ now' = now + 1
  /\ UNCHANGED <<alerts, employees, audit, consumer, request, announced, faults>>

Next ==
  \/ \E e \in Employees, s \in Scores : ConsumerFind(e, s)
  \/ ConsumerFold
  \/ ConsumerInsert
  \/ ConsumerBroadcast
  \/ ConsumerFail
  \/ RefreshFails
  \/ \E a \in Analysts, i \in DOMAIN alerts, act \in Actions : TriageLoad(a, i, act)
  \/ \E a \in Analysts : TriageCommit(a)
  \/ \E a \in Analysts, ids \in (SUBSET DOMAIN alerts) \ {{}}, act \in Actions :
       BulkTriage(a, ids, act)
  \/ ReplayReset
  \/ Crash
  \/ Tick

Spec == Init /\ [][Next]_vars
-----------------------------------------------------------------------------
(* Safety. *)

\* Deduplication keeps an employee's open alerts a ladder: of two that are
\* open, the later one is at least ALERT_DEDUP_DELTA above the earlier one,
\* as long as the earlier one is within the window.  Handlers that triage,
\* dismiss or fold between the consumer's SELECT and its commit must not
\* break it (create_or_update_alert; ARCHITECTURE.md section 5).
OpenLadder ==
  \A i, j \in DOMAIN alerts :
    /\ i < j
    /\ alerts[i].emp = alerts[j].emp
    /\ alerts[i].status = "open" /\ alerts[j].status = "open"
    /\ Recent(i)
    => alerts[j].score >= alerts[i].score + Delta

\* What makes the ladder inductive: ids of an employee follow time, and what
\* the consumer read at its SELECT still bounds the open alerts at its commit.
TableOrdered ==
  \A i \in DOMAIN alerts :
    /\ alerts[i].at <= now /\ alerts[i].seen <= now
    /\ \A j \in DOMAIN alerts :
         i < j /\ alerts[i].emp = alerts[j].emp => alerts[i].at <= alerts[j].at

ConsumerKnows ==
  consumer.pc = "found" =>
    /\ consumer.row # 0 => /\ consumer.row \in DOMAIN alerts
                           /\ alerts[consumer.row].emp = consumer.emp
                           /\ alerts[consumer.row].score = consumer.loaded
    /\ \A i \in OpenOf(consumer.emp) : Recent(i) =>
         /\ consumer.row # 0 /\ i <= consumer.row
         /\ i # consumer.row => alerts[i].score + Delta <= consumer.loaded

LadderInv == OpenLadder /\ TableOrdered /\ ConsumerKnows

Accounted(i) ==
  /\ alerts[i].owner # Unassigned =>
       [id |-> i, actor |-> alerts[i].owner, action |-> "investigate"] \in audit
  /\ \A act \in {"investigate", "escalate"} :
       alerts[i].status = map_status[act] =>
         \E a \in Analysts : [id |-> i, actor |-> a, action |-> act] \in audit

\* An analyst's row is accounted for: whoever owns an alert asked to
\* investigate it, and one that is investigating or escalated has an audit
\* row of that action (triage and bulk_triage commit both or neither).
TriageAudited == \A i \in DOMAIN alerts : Accounted(i)

\* The drill-down of an alert never misses: its employee has a row
\* (_ensure_employee commits with the alert).
AlertsHaveEmployees == \A i \in DOMAIN alerts : alerts[i].emp \in employees

\* The audit log and the employees table keep up with the alerts table.
AccountedFor == TriageAudited /\ AlertsHaveEmployees

\* Only an end of the process or a failed refresh between the commit and the
\* broadcast leaves a replay alert that no client was told about, and each leaves
\* one at most: a triage, a fold or a reset meanwhile silences none.
Unannounced == {i \in DOMAIN alerts : /\ alerts[i].source = "replay"
                                      /\ i \notin announced
                                      /\ ~(consumer.pc = "saved" /\ consumer.row = i)}
SilenceNeedsFault == Cardinality(Unannounced) <= faults

\* A triaged alert is open again only after an analyst reopened it: no step of
\* the consumer, of a stale request or of a reset revives it, and a reopening
\* commits with its audit row.
Reopened(i) == \E a \in Analysts : [id |-> i, actor |-> a, action |-> "reopen"] \in audit
StaysTriaged(i) == alerts[i].status # "open" => (alerts'[i].status # "open" \/ Reopened(i)')
TriageSticks == [][\A i \in DOMAIN alerts : StaysTriaged(i)]_vars

RowsRise == \A i \in DOMAIN alerts : /\ alerts'[i].score >= alerts[i].score
                                     /\ alerts'[i].seen >= alerts[i].seen

\* An alert's score and its last_seen_at never go back, whichever handler
\* writes the row and whatever is reopened (the max(score) of the dedup rule:
\* the row the consumer loaded may be triaged, but not scored, before it writes).
ScoresOnlyRise == [][RowsRise]_vars

\* The handlers, interleaved, implement the atomic alert book.
Book == INSTANCE AlertBook WITH book <- alerts, clock <- now
ImplementsBook == Book!BookSpec
=============================================================================
