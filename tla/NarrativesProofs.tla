--------------------------- MODULE NarrativesProofs ---------------------------
(***************************************************************************)
(* Proofs about Narratives: type correctness, no error of a model at a     *)
(* panel, true provenance, the accounting of the connection pool, and the  *)
(* order in which a panel shows memos.                                     *)
(***************************************************************************)
EXTENDS Narratives, FiniteSetTheorems, TLAPS

Kinds == {"task", "view", "regenerate"}
Stages == {"waiting", "look", "ask", "save", "rewaiting", "refresh", "leave"}
Answers == {"none", "memo", "missing", "error"}
Working == [pc : Stages, kind : Kinds, alert : Alerts,
            at : Nat \ {0}, tries : Nat, writer : Writers, row : Nat]
-----------------------------------------------------------------------------
(* The provider chain                                                      *)

\* The chain has at most two parts, each a known provider.
LEMMA ChainType == Chain \in Seq(Providers)
<1>1. Primary \in Providers /\ Other \in Providers
  BY DEF Primary, Other, Providers
<1>2. Keyed(Primary) \in Seq(Providers) /\ Keyed(Other) \in Seq(Providers)
  BY <1>1 DEF Keyed
<1> QED
  BY <1>2 DEF Chain

\* Its length is a number, and its elements are providers.
LEMMA ChainFacts ==
  /\ Len(Chain) \in Nat
  /\ \A i \in Nat \ {0} : i <= Len(Chain) => Chain[i] \in Providers
<1>1. Chain \in Seq(Providers)
  BY ChainType
<1> HIDE DEF Chain
<1> QED
  BY <1>1
-----------------------------------------------------------------------------
(* Jobs                                                                    *)

LEMMA JobType ==
  ASSUME TypeOK, NEW j \in Jobs
  PROVE  /\ jobs[j] = Idle \/ jobs[j] \in Working
         /\ jobs[j].pc = "idle" => jobs[j] = Idle
         /\ jobs[j].pc # "idle" => jobs[j] \in Working
BY DEF TypeOK, Job, Idle, Working, Stages, Kinds

LEMMA StartedType ==
  ASSUME NEW kind \in Kinds, NEW a \in Alerts
  PROVE  /\ Started(kind, a) \in Working
         /\ Started(kind, a).pc = "waiting" /\ Started(kind, a).kind = kind
         /\ Started(kind, a).alert = a
BY DEF Started, Working, Stages, Writers

LEMMA LeavingType ==
  ASSUME NEW job \in Working
  PROVE  /\ Leaving(job) \in Working /\ Leaving(job).pc = "leave"
         /\ Leaving(job).kind = job.kind /\ Leaving(job).alert = job.alert
<1>0. job.kind \in Kinds /\ job.alert \in Alerts
  BY DEF Working
<1>1. /\ Started(job.kind, job.alert) \in Working
      /\ Started(job.kind, job.alert).kind = job.kind
      /\ Started(job.kind, job.alert).alert = job.alert
  BY <1>0, StartedType
<1> HIDE DEF Started
<1> QED
  BY <1>1 DEF Leaving, Working, Stages

LEMMA StoredType ==
  ASSUME NEW job \in Working, NEW i \in Nat
  PROVE  /\ Stored(job, i) \in Working /\ Stored(job, i).pc = "rewaiting"
         /\ Stored(job, i).kind = job.kind /\ Stored(job, i).alert = job.alert
         /\ Stored(job, i).row = i
<1>0. job.kind \in Kinds /\ job.alert \in Alerts
  BY DEF Working
<1>1. PICK s \in Working : s = Started(job.kind, job.alert)
  BY <1>0, StartedType
<1>2. s.kind = job.kind /\ s.alert = job.alert
  BY <1>0, <1>1, StartedType
<1>3. Stored(job, i) = [s EXCEPT !.pc = "rewaiting", !.row = i]
  BY <1>1 DEF Stored
<1>4. Stored(job, i) = [pc |-> "rewaiting", kind |-> s.kind, alert |-> s.alert,
                        at |-> s.at, tries |-> s.tries, writer |-> s.writer, row |-> i]
  BY <1>3 DEF Working
<1>5. Stored(job, i) \in Working
  BY <1>4 DEF Working, Stages
<1> QED
  BY <1>2, <1>4, <1>5

\* A job at the models goes on to its memo, to another attempt, to the next
\* provider, or ends: the last only after an answer of another shape.
LEMMA AfterType ==
  ASSUME NEW job \in Working, NEW outcome \in Outcomes, job.pc = "ask", job.at <= Len(Chain),
         NEW after, after = After(job, outcome)
  PROVE  /\ after \in Working /\ after.kind = job.kind /\ after.alert = job.alert
         /\ after.pc \in {"ask", "save", "leave"}
         /\ after.pc = "leave" => outcome = "odd"
         /\ after.pc = "save" => after.at = job.at /\ after.writer = Chain[job.at]
         /\ after.pc = "ask" => after.writer = job.writer
<1>0. /\ Chain[job.at] \in Writers /\ job.at \in Nat \ {0} /\ job.tries \in Nat
      /\ Len(Chain) \in Nat
  BY ChainFacts DEF Working, Writers
<1> HIDE DEF Chain
<1>1. CASE outcome = "memo"
  <2>0. after = [job EXCEPT !.pc = "save", !.tries = 1, !.writer = Chain[job.at]]
    BY <1>1 DEF After, Caught
  <2>1. after = [pc |-> "save", kind |-> job.kind, alert |-> job.alert, at |-> job.at,
                 tries |-> 1, writer |-> Chain[job.at], row |-> job.row]
    BY <2>0 DEF Working
  <2>2. after \in Working
    BY <1>0, <2>1 DEF Working, Stages
  <2> QED
    BY <2>1, <2>2
<1>2. CASE outcome = "error" /\ job.tries < Attempts
  <2>1. after = [job EXCEPT !.tries = job.tries + 1]
    BY <1>2 DEF After, Retried, Caught
  <2> QED
    BY <1>0, <2>1 DEF Working, Stages
<1>3. CASE outcome \in Caught /\ ~(outcome = "error" /\ job.tries < Attempts)
  <2>1. after = [pc |-> "ask", kind |-> job.kind, alert |-> job.alert, at |-> job.at + 1,
                 tries |-> 1, writer |-> job.writer, row |-> job.row]
    BY <1>3 DEF After, Failover, Caught, Working
  <2>2. after \in Working
    BY <1>0, <2>1 DEF Working, Stages
  <2> QED
    BY <2>1, <2>2
<1>4. CASE outcome = "odd"
  <2>1. after = Leaving(job)
    BY <1>4 DEF After, Caught
  <2> QED
    BY <1>4, <2>1, LeavingType
<1> QED
  BY <1>1, <1>2, <1>3, <1>4 DEF Outcomes, Caught

LEMMA NarrativeType ==
  ASSUME NEW job \in Working
  PROVE  Narrative(job) \in Row
<1>1. /\ Stamp(job).provider \in {"nearai", "groq", "fallback"}
      /\ Stamp(job).attested \in BOOLEAN /\ Stamp(job).fallback \in BOOLEAN
  <2>0. job.at \in Nat \ {0} /\ Len(Chain) \in Nat
    BY ChainFacts DEF Working
  <2>1. CASE job.at > Len(Chain)
    BY <2>1 DEF Stamp
  <2>2. CASE ~(job.at > Len(Chain))
    <3>1. Chain[job.at] \in Providers
      BY <2>0, <2>2, ChainFacts
    <3> HIDE DEF Chain
    <3> QED
      BY <2>2, <3>1 DEF Stamp, Providers, TeeAttested
  <2> QED
    BY <2>1, <2>2
<1> HIDE DEF Stamp
<1> QED
  BY <1>1 DEF Narrative, Row, Working, Kinds
-----------------------------------------------------------------------------
(* Type correctness                                                        *)

LEMMA InitType == Init => TypeOK
<1> SUFFICES ASSUME Init PROVE TypeOK
  OBVIOUS
<1>1. /\ rows \in [Alerts -> Seq(Row)] /\ inUse \in 0 .. PoolSize
      /\ shown \in [Panels -> [Alerts -> Nat]]
  BY SizesAssumption DEF Init
<1>2. jobs \in [Jobs -> Job] /\ answer \in [Panels -> Answers]
  BY DEF Init, Job, Answers
<1> QED
  BY <1>1, <1>2 DEF Init, TypeOK, Answers

LEMMA BecomesType ==
  ASSUME TypeOK, NEW j \in Jobs, NEW job \in Working \union {Idle}, Becomes(j, job)
  PROVE  jobs' \in [Jobs -> Job]
<1>1. job \in Job
  BY DEF Job, Working, Stages, Kinds
<1> QED
  BY <1>1 DEF Becomes, TypeOK

LEMMA AnsweredType ==
  ASSUME TypeOK, NEW j, NEW how \in Answers, Answered(j, how)
  PROVE  answer' \in [Panels -> Answers]
BY DEF Answered, TypeOK, Answers

\* A job that holds a connection is counted.
LEMMA HeldCounts ==
  ASSUME TypeOK, PoolAccounted, NEW j \in Jobs, Holds(j)
  PROVE  inUse \in Nat /\ inUse > 0
<1> DEFINE held == {k \in Jobs : Holds(k)}
<1>1. IsFiniteSet(Jobs)
  BY JobsAssumption, FS_Union DEF Jobs
<1>2. IsFiniteSet(held)
  BY <1>1, FS_Subset
<1>3. Cardinality(held) \in Nat /\ Cardinality(held) # 0
  BY <1>2, FS_CardinalityType, FS_EmptySet
<1> QED
  BY <1>3 DEF PoolAccounted

LEMMA NextType == TypeOK /\ PoolAccounted /\ [Next]_vars => TypeOK'
<1> SUFFICES ASSUME TypeOK, PoolAccounted, [Next]_vars PROVE TypeOK'
  OBVIOUS
<1> USE DEF marks, bounds
<1>0. /\ inUse \in Nat /\ PoolSize \in Nat /\ inUse <= PoolSize
      /\ requests \in Nat /\ faults \in Nat
  BY SizesAssumption DEF TypeOK
<1>1. CASE UNCHANGED vars
  BY <1>1 DEF TypeOK, vars
<1>2. ASSUME NEW a \in Alerts, NewAlert(a) PROVE TypeOK'
  <2>1. Started("task", a) \in Working /\ a \in Jobs
    BY StartedType DEF Kinds, Jobs
  <2>2. jobs' \in [Jobs -> Job]
    BY <1>2, <2>1, BecomesType DEF NewAlert, Becomes
  <2> QED
    BY <1>2, <2>2 DEF NewAlert, TypeOK
<1>3. ASSUME NEW p \in Panels, NEW kind \in {"view", "regenerate"}, NEW a \in Alerts,
             Request(p, kind, a)
      PROVE  TypeOK'
  <2>1. Started(kind, a) \in Working /\ p \in Jobs
    BY StartedType DEF Kinds, Jobs
  <2>2. jobs' \in [Jobs -> Job]
    BY <1>3, <2>1, BecomesType DEF Request, Becomes
  <2> QED
    BY <1>0, <1>3, <2>2 DEF Request, TypeOK
<1>4. ASSUME NEW j \in Jobs, Connect(j) PROVE TypeOK'
  <2>1. jobs[j] \in Working
    BY <1>4, JobType DEF Connect, At
  <2>2. [jobs[j] EXCEPT !.pc = "look"] \in Working /\ [jobs[j] EXCEPT !.pc = "refresh"] \in Working
    BY <2>1 DEF Working, Stages
  <2>3. jobs' \in [Jobs -> Job]
    BY <1>4, <2>2, BecomesType DEF Connect
  <2> QED
    BY <1>0, <1>4, <2>3 DEF Connect, TypeOK
<1>5. ASSUME NEW j \in Jobs, PoolTimeout(j) PROVE TypeOK'
  <2>1. jobs' \in [Jobs -> Job]
    BY <1>5, BecomesType DEF PoolTimeout
  <2>2. answer' \in [Panels -> Answers]
    BY <1>5, AnsweredType DEF PoolTimeout, Answers
  <2> QED
    BY <1>0, <1>5, <2>1, <2>2 DEF PoolTimeout, TypeOK, Answers
<1>6. ASSUME NEW j \in Jobs, Look(j) PROVE TypeOK'
  <2>1. jobs[j] \in Working
    BY <1>6, JobType DEF Look, At
  <2>2. [jobs[j] EXCEPT !.pc = "ask"] \in Working /\ Leaving(jobs[j]) \in Working
    BY <2>1, LeavingType DEF Working, Stages
  <2>3. jobs' \in [Jobs -> Job]
    BY <1>6, <2>2, BecomesType DEF Look
  <2>4. answer' \in [Panels -> Answers]
    BY <1>6, AnsweredType DEF Look, Answers, TypeOK
  <2>5. shown' \in [Panels -> [Alerts -> Nat]]
    <3>1. jobs[j].alert \in Alerts /\ Newest(jobs[j].alert) \in Nat
      BY <2>1 DEF Working, Newest, TypeOK
    <3> HIDE DEF Newest
    <3> QED
      BY <1>6, <3>1 DEF Look, TypeOK
  <2> QED
    BY <1>6, <2>3, <2>4, <2>5 DEF Look, TypeOK, Answers
<1>7. ASSUME NEW j \in Jobs, NEW outcome \in Outcomes, Attempt(j, outcome) PROVE TypeOK'
  <2>1. jobs[j] \in Working
    BY <1>7, JobType DEF Attempt, At
  <2>2. After(jobs[j], outcome) \in Working
    BY <1>7, <2>1, AfterType DEF Attempt, At
  <2>3. jobs' \in [Jobs -> Job]
    BY <1>7, <2>2, BecomesType DEF Attempt
  <2>4. answer' \in [Panels -> Answers]
    BY <1>7, AnsweredType DEF Attempt, Answers, TypeOK
  <2>5. troubled' \in BOOLEAN
    BY <1>7 DEF Attempt, TypeOK
  <2>6. faults' \in Nat
    BY <1>0, <1>7 DEF Attempt
  <2> QED
    BY <1>7, <2>3, <2>4, <2>5, <2>6 DEF Attempt, TypeOK, Answers
<1>8. ASSUME NEW j \in Jobs, Template(j) PROVE TypeOK'
  <2>1. jobs[j] \in Working
    BY <1>8, JobType DEF Template, At
  <2>2. [jobs[j] EXCEPT !.pc = "save"] \in Working
    BY <2>1 DEF Working, Stages
  <2>3. jobs' \in [Jobs -> Job]
    BY <1>8, <2>2, BecomesType DEF Template
  <2> QED
    BY <1>8, <2>3 DEF Template, TypeOK
<1>9. ASSUME NEW j \in Jobs, Save(j) PROVE TypeOK'
  <2>1. jobs[j] \in Working
    BY <1>9, JobType DEF Save, At
  <2>2. jobs[j].alert \in Alerts /\ Narrative(jobs[j]) \in Row
    BY <2>1, NarrativeType DEF Working
  <2>3. rows' \in [Alerts -> Seq(Row)]
    <3> HIDE DEF Narrative
    <3> QED
      BY <1>9, <2>2 DEF Save, TypeOK
  <2>4. Stored(jobs[j], Len(rows'[jobs[j].alert])) \in Working
    BY <2>1, <2>2, <2>3, StoredType
  <2>5. jobs' \in [Jobs -> Job]
    BY <1>9, <2>4, BecomesType DEF Save
  <2>6. inUse' \in 0 .. PoolSize
    <3>1. inUse > 0
      BY <1>9, HeldCounts DEF Save, At, Holds
    <3> QED
      BY <1>0, <1>9, <3>1 DEF Save, ReleasedAtCommit
  <2> QED
    BY <1>9, <2>3, <2>5, <2>6 DEF Save, TypeOK
<1>10. ASSUME NEW j \in Jobs, Answer(j) PROVE TypeOK'
  <2>1. jobs[j] \in Working
    BY <1>10, JobType DEF Answer, At
  <2>2. Leaving(jobs[j]) \in Working /\ jobs[j].alert \in Alerts /\ jobs[j].row \in Nat
    BY <2>1, LeavingType DEF Working
  <2>3. jobs' \in [Jobs -> Job]
    BY <1>10, <2>2, BecomesType DEF Answer
  <2>4. answer' \in [Panels -> Answers]
    BY <1>10, AnsweredType DEF Answer, Answers
  <2>5. shown' \in [Panels -> [Alerts -> Nat]]
    BY <1>10, <2>2 DEF Answer, TypeOK
  <2>6. okMark' \in BOOLEAN /\ failMark' \in BOOLEAN
    BY <1>10 DEF Answer
  <2> QED
    BY <1>10, <2>3, <2>4, <2>5, <2>6 DEF Answer, TypeOK, Answers
<1>11. ASSUME NEW j \in Jobs, Leave(j) PROVE TypeOK'
  <2>1. jobs' \in [Jobs -> Job]
    BY <1>11, BecomesType DEF Leave
  <2>2. inUse > 0
    BY <1>11, HeldCounts DEF Leave, At, Holds
  <2> QED
    BY <1>0, <1>11, <2>1, <2>2 DEF Leave, TypeOK
<1>12. ASSUME NEW j \in Jobs, Breaks(j) PROVE TypeOK'
  <2>1. jobs[j] \in Working
    BY <1>12, JobType DEF Breaks, At
  <2>2. jobs[j].alert \in Alerts /\ Narrative(jobs[j]) \in Row /\ Leaving(jobs[j]) \in Working
    BY <2>1, NarrativeType, LeavingType DEF Working
  <2>3. rows' \in [Alerts -> Seq(Row)]
    <3> HIDE DEF Narrative
    <3>1. [rows EXCEPT ![jobs[j].alert] = Append(@, Narrative(jobs[j]))] \in [Alerts -> Seq(Row)]
      BY <2>2 DEF TypeOK
    <3>2. \/ rows' = rows
          \/ rows' = [rows EXCEPT ![jobs[j].alert] = Append(@, Narrative(jobs[j]))]
      BY <1>12 DEF Breaks
    <3> QED
      BY <3>1, <3>2 DEF TypeOK
  <2>4. jobs' \in [Jobs -> Job]
    BY <1>12, <2>2, BecomesType DEF Breaks
  <2>5. answer' \in [Panels -> Answers]
    BY <1>12, AnsweredType DEF Breaks, Answers
  <2> QED
    BY <1>0, <1>12, <2>3, <2>4, <2>5 DEF Breaks, TypeOK, Answers
<1>13. CASE Crash
  <2>1. inUse' \in 0 .. PoolSize /\ faults' \in Nat
    BY <1>0, <1>13 DEF Crash
  <2>2. jobs' \in [Jobs -> Job] /\ answer' \in [Panels -> Answers]
    BY <1>13 DEF Crash, Job, Answers, TypeOK
  <2> QED
    BY <1>13, <2>1, <2>2 DEF Crash, TypeOK, Answers
<1> QED
  BY <1>1, <1>2, <1>3, <1>4, <1>5, <1>6, <1>7, <1>8, <1>9, <1>10, <1>11, <1>12, <1>13
     DEF Next, JobStep
-----------------------------------------------------------------------------
(* The pool                                                                *)

\* An alert that does not exist has no task.
TasksInv == \A a \in Alerts : a \notin created => jobs[a] = Idle

LEMMA NextTasks == TypeOK /\ TasksInv /\ [Next]_vars => TasksInv'
<1> SUFFICES ASSUME TypeOK, TasksInv, [Next]_vars, NEW a \in Alerts, a \notin created'
             PROVE  jobs'[a] = Idle
  BY DEF TasksInv
<1>0. a \in Jobs /\ a \notin Panels
  BY JobsAssumption DEF Jobs
<1>1. CASE UNCHANGED <<created, jobs>>
  BY <1>1 DEF TasksInv
<1>2. ASSUME NEW b \in Alerts, NewAlert(b) PROVE jobs'[a] = Idle
  BY <1>0, <1>2 DEF NewAlert, TasksInv, TypeOK
<1>3. ASSUME NEW p \in Panels, NEW kind \in {"view", "regenerate"}, NEW b \in Alerts,
             Request(p, kind, b)
      PROVE  jobs'[a] = Idle
  BY <1>0, <1>3 DEF Request, TasksInv, TypeOK
<1>4. ASSUME NEW j \in Jobs, NEW job, Becomes(j, job), created' = created, jobs[j] # Idle
      PROVE  jobs'[a] = Idle
  BY <1>0, <1>4 DEF Becomes, TasksInv, TypeOK
<1>5. ASSUME NEW j \in Jobs, JobStep(j) PROVE jobs'[a] = Idle
  <2>1. jobs[j] # Idle
    BY <1>5 DEF JobStep, Connect, PoolTimeout, Look, Attempt, Template, Save, Answer, Leave, At, Idle
  <2>2. created' = created /\ \E job : Becomes(j, job)
    BY <1>5 DEF JobStep, Connect, PoolTimeout, Look, Attempt, Template, Save, Answer, Leave
  <2> QED
    BY <1>4, <2>1, <2>2
<1>6. ASSUME NEW j \in Jobs, Breaks(j) PROVE jobs'[a] = Idle
  BY <1>4, <1>6 DEF Breaks, At, Idle
<1>7. CASE Crash
  BY <1>0, <1>7 DEF Crash
<1> QED
  BY <1>1, <1>2, <1>3, <1>5, <1>6, <1>7 DEF Next, vars

Held == {j \in Jobs : Holds(j)}
Holding == {"look", "ask", "save", "refresh", "leave"}

LEMMA HeldFinite == IsFiniteSet(Held) /\ Cardinality(Held) \in Nat
<1>1. IsFiniteSet(Jobs)
  BY JobsAssumption, FS_Union DEF Jobs
<1>2. IsFiniteSet(Held)
  BY <1>1, FS_Subset DEF Held
<1> QED
  BY <1>2, FS_CardinalityType

\* A step of one job keeps, takes or returns a connection.
LEMMA PoolMoves ==
  ASSUME TypeOK, PoolAccounted, NEW j \in Jobs, NEW job, Becomes(j, job),
         inUse' = inUse + (IF job.pc \in Holding THEN 1 ELSE 0) - (IF Holds(j) THEN 1 ELSE 0)
  PROVE  PoolAccounted'
<1>1. Cardinality(Held) = inUse /\ inUse \in Nat
  BY HeldFinite DEF PoolAccounted, Held
<1>2. \A k \in Jobs : jobs'[k] = IF k = j THEN job ELSE jobs[k]
  BY DEF Becomes, TypeOK
<1>3. CASE job.pc \in Holding
  <2>1. Held' = Held \cup {j}
    BY <1>2, <1>3 DEF Held, Holds, Holding
  <2>2. Cardinality(Held') = IF j \in Held THEN Cardinality(Held) ELSE Cardinality(Held) + 1
    BY <2>1, HeldFinite, FS_AddElement
  <2>3. j \in Held <=> Holds(j)
    BY DEF Held
  <2>4. Cardinality(Held') = inUse'
    BY <1>1, <1>3, <2>2, <2>3
  <2> QED
    BY <2>4 DEF PoolAccounted, Held
<1>4. CASE job.pc \notin Holding
  <2>1. Held' = Held \ {j}
    BY <1>2, <1>4 DEF Held, Holds, Holding
  <2>2. Cardinality(Held') = IF j \in Held THEN Cardinality(Held) - 1 ELSE Cardinality(Held)
    BY <2>1, HeldFinite, FS_RemoveElement
  <2>3. j \in Held <=> Holds(j)
    BY DEF Held
  <2>4. Cardinality(Held') = inUse'
    BY <1>1, <1>4, <2>2, <2>3
  <2> QED
    BY <2>4 DEF PoolAccounted, Held
<1> QED
  BY <1>3, <1>4

LEMMA NextPool == TypeOK /\ TasksInv /\ PoolAccounted /\ [Next]_vars => PoolAccounted'
<1> SUFFICES ASSUME TypeOK, TasksInv, PoolAccounted, [Next]_vars PROVE PoolAccounted'
  OBVIOUS
<1> USE DEF Holding, Holds, At
<1>0. inUse \in Nat
  BY SizesAssumption DEF TypeOK
<1>1. CASE UNCHANGED vars
  BY <1>1 DEF PoolAccounted, vars
<1>2. ASSUME NEW a \in Alerts, NewAlert(a) PROVE PoolAccounted'
  <2>1. a \in Jobs /\ jobs[a].pc = "idle" /\ Started("task", a).pc = "waiting"
    BY <1>2 DEF NewAlert, TasksInv, Idle, Jobs, Started
  <2>2. Becomes(a, Started("task", a)) /\ inUse' = inUse
    BY <1>2 DEF NewAlert, Becomes
  <2> QED
    BY <1>0, <2>1, <2>2, PoolMoves
<1>3. ASSUME NEW p \in Panels, NEW kind \in {"view", "regenerate"}, NEW a \in Alerts,
             Request(p, kind, a)
      PROVE  PoolAccounted'
  <2>1. p \in Jobs /\ jobs[p].pc = "idle" /\ Started(kind, a).pc = "waiting"
    BY <1>3 DEF Request, Idle, Jobs, Started
  <2>2. Becomes(p, Started(kind, a)) /\ inUse' = inUse
    BY <1>3 DEF Request, Becomes, bounds
  <2> QED
    BY <1>0, <2>1, <2>2, PoolMoves
<1>4. ASSUME NEW j \in Jobs, Connect(j) PROVE PoolAccounted'
  <2>1. jobs[j] \in Working
    BY <1>4, JobType DEF Connect
  <2>2. PICK job : Becomes(j, job) /\ job.pc \in {"look", "refresh"}
    BY <1>4, <2>1 DEF Connect, Working
  <2>3. jobs[j].pc \in {"waiting", "rewaiting"} /\ inUse' = inUse + 1
    BY <1>4 DEF Connect
  <2> QED
    BY <1>0, <2>2, <2>3, PoolMoves
<1>5. ASSUME NEW j \in Jobs, PoolTimeout(j) PROVE PoolAccounted'
  <2>1. Becomes(j, Idle) /\ Idle.pc = "idle" /\ inUse' = inUse
    BY <1>5 DEF PoolTimeout, Idle
  <2>2. jobs[j].pc \in {"waiting", "rewaiting"}
    BY <1>5 DEF PoolTimeout
  <2> QED
    BY <1>0, <2>1, <2>2, PoolMoves
<1>6. ASSUME NEW j \in Jobs, Look(j) PROVE PoolAccounted'
  <2>1. jobs[j] \in Working /\ jobs[j].pc = "look" /\ inUse' = inUse
    BY <1>6, JobType DEF Look
  <2>2. Leaving(jobs[j]).pc = "leave" /\ [jobs[j] EXCEPT !.pc = "ask"].pc = "ask"
    BY <2>1, LeavingType DEF Working
  <2>3. PICK job : Becomes(j, job) /\ job.pc \in {"ask", "leave"}
    BY <1>6, <2>2 DEF Look
  <2> QED
    BY <1>0, <2>1, <2>3, PoolMoves
<1>7. ASSUME NEW j \in Jobs, NEW outcome \in Outcomes, Attempt(j, outcome) PROVE PoolAccounted'
  <2>1. jobs[j] \in Working /\ jobs[j].pc = "ask" /\ inUse' = inUse
    BY <1>7, JobType DEF Attempt
  <2>2. After(jobs[j], outcome).pc \in {"ask", "save", "leave"}
    BY <1>7, <2>1, AfterType DEF Attempt
  <2>3. PICK job : Becomes(j, job) /\ job.pc \in {"ask", "save", "leave"}
    BY <1>7, <2>2 DEF Attempt
  <2> QED
    BY <1>0, <2>1, <2>3, PoolMoves
<1>8. ASSUME NEW j \in Jobs, Template(j) PROVE PoolAccounted'
  <2>1. jobs[j] \in Working /\ jobs[j].pc = "ask" /\ inUse' = inUse
    BY <1>8, JobType DEF Template
  <2>2. PICK job : Becomes(j, job) /\ job.pc = "save"
    BY <1>8, <2>1 DEF Template, Working
  <2> QED
    BY <1>0, <2>1, <2>2, PoolMoves
<1>9. ASSUME NEW j \in Jobs, Save(j) PROVE PoolAccounted'
  <2>1. jobs[j] \in Working /\ jobs[j].pc = "save" /\ inUse' = inUse - 1
    BY <1>9, JobType DEF Save, ReleasedAtCommit
  <2>2. jobs[j].alert \in Alerts /\ rows' \in [Alerts -> Seq(Row)]
    BY <1>9, <2>1, NextType DEF Working, TypeOK
  <2>3. Len(rows'[jobs[j].alert]) \in Nat
    BY <2>2
  <2>4. Stored(jobs[j], Len(rows'[jobs[j].alert])).pc = "rewaiting" /\ Idle.pc = "idle"
    BY <2>1, <2>3, StoredType DEF Idle
  <2>5. PICK job : Becomes(j, job) /\ job.pc \in {"idle", "rewaiting"}
    BY <1>9, <2>4 DEF Save
  <2> QED
    BY <1>0, <2>1, <2>5, PoolMoves
<1>10. ASSUME NEW j \in Jobs, Answer(j) PROVE PoolAccounted'
  <2>1. jobs[j] \in Working /\ jobs[j].pc = "refresh" /\ inUse' = inUse
    BY <1>10, JobType DEF Answer
  <2>2. Leaving(jobs[j]).pc = "leave" /\ Becomes(j, Leaving(jobs[j]))
    BY <1>10, <2>1, LeavingType DEF Answer
  <2> QED
    BY <1>0, <2>1, <2>2, PoolMoves
<1>11. ASSUME NEW j \in Jobs, Leave(j) PROVE PoolAccounted'
  <2>1. Becomes(j, Idle) /\ Idle.pc = "idle" /\ jobs[j].pc = "leave" /\ inUse' = inUse - 1
    BY <1>11 DEF Leave, Idle
  <2> QED
    BY <1>0, <2>1, PoolMoves
<1>12. ASSUME NEW j \in Jobs, Breaks(j) PROVE PoolAccounted'
  <2>1. jobs[j] \in Working /\ jobs[j].pc \in {"ask", "save"} /\ inUse' = inUse
    BY <1>12, JobType DEF Breaks
  <2>2. Leaving(jobs[j]).pc = "leave" /\ Becomes(j, Leaving(jobs[j]))
    BY <1>12, <2>1, LeavingType DEF Breaks
  <2> QED
    BY <1>0, <2>1, <2>2, PoolMoves
<1>13. CASE Crash
  <2>1. Held' = {} /\ inUse' = 0
    BY <1>13 DEF Crash, Held, Idle
  <2>2. Cardinality(Held') = 0
    BY <2>1, FS_EmptySet
  <2> QED
    BY <2>1, <2>2 DEF PoolAccounted, Held
<1> QED
  BY <1>1, <1>2, <1>3, <1>4, <1>5, <1>6, <1>7, <1>8, <1>9, <1>10, <1>11, <1>12, <1>13
     DEF Next, JobStep

LEMMA InitPool == Init => TasksInv /\ PoolAccounted
<1> SUFFICES ASSUME Init PROVE TasksInv /\ PoolAccounted
  OBVIOUS
<1>1. TasksInv
  BY DEF Init, TasksInv, Jobs
<1>2. {j \in Jobs : Holds(j)} = {}
  BY DEF Init, Holds, Idle
<1> QED
  BY <1>1, <1>2, FS_EmptySet DEF PoolAccounted, Init

LEMMA PoolHolds == Spec => [](TypeOK /\ TasksInv /\ PoolAccounted)
BY InitType, InitPool, NextType, NextTasks, NextPool, PTL DEF Spec

\* The variables hold what the database, the pool and the jobs can hold, for
\* every number of panels, alerts and attempts and every deployment.
THEOREM TypeCorrect == Spec => []TypeOK
BY PoolHolds, PTL

\* Each connection that is checked out belongs to one job, whatever fails: commit,
\* early return, error and crash give back what they hold (get_session).
THEOREM PoolKept == Spec => []PoolAccounted
BY PoolHolds, PTL
-----------------------------------------------------------------------------
(* Errors                                                                  *)

\* An answer other than an error leaves the errors as they were.
LEMMA NoNewError ==
  ASSUME TypeOK, NEW j \in Jobs, NEW how, how # "error", Answered(j, how),
         NEW p \in Panels, answer'[p] = "error"
  PROVE  answer[p] = "error"
BY DEF Answered, TypeOK

LEMMA NextOutages == TypeOK /\ OutagesNeverSurface /\ [Next]_vars => OutagesNeverSurface'
<1> SUFFICES ASSUME TypeOK, OutagesNeverSurface, [Next]_vars, ~troubled',
                    NEW p \in Panels, answer'[p] = "error"
             PROVE  FALSE
  BY DEF OutagesNeverSurface
<1>0. SUFFICES ASSUME ~troubled PROVE answer[p] = "error"
  <2>1. ~troubled
    BY DEF Next, vars, NewAlert, Request, JobStep, Connect, PoolTimeout, Look, Attempt, Template,
           Save, Answer, Leave, Breaks, Crash, bounds
  <2> QED
    BY <1>0, <2>1 DEF OutagesNeverSurface
<1>1. CASE UNCHANGED answer
  BY <1>1
<1>2. ASSUME NEW q \in Panels, NEW kind \in {"view", "regenerate"}, NEW a \in Alerts,
             Request(q, kind, a)
      PROVE  answer[p] = "error"
  BY <1>2 DEF Request, TypeOK
<1>3. ASSUME NEW j \in Jobs, PoolTimeout(j) \/ Breaks(j) PROVE answer[p] = "error"
  BY <1>3 DEF PoolTimeout, Breaks
<1>4. ASSUME NEW j \in Jobs, Look(j) PROVE answer[p] = "error"
  <2>1. \/ UNCHANGED answer
        \/ Answered(j, "missing")
        \/ Answered(j, "memo")
    BY <1>4 DEF Look
  <2> QED
    BY <2>1, NoNewError
<1>5. ASSUME NEW j \in Jobs, NEW outcome \in Outcomes, Attempt(j, outcome)
      PROVE  answer[p] = "error"
  <2>1. jobs[j] \in Working
    BY <1>5, JobType DEF Attempt, At
  <2>2. CASE After(jobs[j], outcome).pc = "leave"
    <3>1. outcome = "odd"
      BY <1>5, <2>1, <2>2, AfterType DEF Attempt, At
    <3> QED
      BY <1>5, <3>1 DEF Attempt
  <2>3. CASE After(jobs[j], outcome).pc # "leave"
    BY <1>5, <2>3 DEF Attempt
  <2> QED
    BY <2>2, <2>3
<1>6. ASSUME NEW j \in Jobs, Answer(j) PROVE answer[p] = "error"
  BY <1>6, NoNewError DEF Answer
<1>7. CASE Crash
  BY <1>7 DEF Crash
<1> QED
  BY <1>1, <1>2, <1>3, <1>4, <1>5, <1>6, <1>7
     DEF Next, JobStep, vars, NewAlert, Connect, Template, Save, Leave

\* Whatever the models do, and whichever deployment, a panel is not answered with
\* an error: retries, failover and the template take up every caught outcome.
THEOREM OutagesHidden == Spec => []OutagesNeverSurface
<1>1. Init => OutagesNeverSurface
  BY DEF Init, OutagesNeverSurface
<1> QED
  BY <1>1, TypeCorrect, NextOutages, PTL DEF Spec
-----------------------------------------------------------------------------
(* Provenance                                                              *)

\* A deployment keeps its chain.
LEMMA ChainKept == [Next]_vars => Chain' = Chain
<1> SUFFICES ASSUME [Next]_vars PROVE Chain' = Chain
  OBVIOUS
<1>1. settings' = settings
  BY DEF Next, vars, NewAlert, Request, JobStep, Connect, PoolTimeout, Look, Attempt, Template,
         Save, Answer, Leave, Breaks, Crash
<1> QED
  BY <1>1 DEF Chain, Keyed, Primary, Other

\* What a job knows of the memo it will store, or has stored.
Truthful(job) ==
  /\ job.pc \in {"waiting", "look", "ask"} => job.writer = "template"
  /\ job.pc = "save" =>
       job.writer = IF job.at > Len(Chain) THEN "template" ELSE Chain[job.at]
  /\ job.pc \in {"rewaiting", "refresh"} =>
       /\ job.kind # "task" /\ job.row \in DOMAIN rows[job.alert]
       /\ rows[job.alert][job.row].by # "task"

JobsInv == \A j \in Jobs : Truthful(jobs[j])

\* Rows are appended, never changed.
LEMMA RowsGrow ==
  ASSUME TypeOK, [Next]_vars, NEW a \in Alerts, NEW i \in DOMAIN rows[a]
  PROVE  i \in DOMAIN rows'[a] /\ rows'[a][i] = rows[a][i]
<1>0. rows[a] \in Seq(Row) /\ rows \in [Alerts -> Seq(Row)]
  BY DEF TypeOK
<1>1. CASE UNCHANGED rows
  BY <1>1
<1>2. ASSUME NEW b, NEW n, rows' = [rows EXCEPT ![b] = Append(@, n)]
      PROVE  i \in DOMAIN rows'[a] /\ rows'[a][i] = rows[a][i]
  <2>1. rows'[a] = rows[a] \/ rows'[a] = Append(rows[a], n)
    BY <1>0, <1>2
  <2> QED
    BY <1>0, <2>1
<1>3. ASSUME NEW j \in Jobs, Save(j) \/ Breaks(j)
      PROVE  i \in DOMAIN rows'[a] /\ rows'[a][i] = rows[a][i]
  <2>1. rows' = rows \/ rows' = [rows EXCEPT ![jobs[j].alert] = Append(@, Narrative(jobs[j]))]
    BY <1>3 DEF Save, Breaks
  <2> QED
    BY <1>1, <1>2, <2>1
<1> QED
  BY <1>1, <1>3 DEF Next, vars, NewAlert, Request, JobStep, Connect, PoolTimeout, Look, Attempt,
                    Template, Answer, Leave, Crash

LEMMA NextJobs == TypeOK /\ PoolAccounted /\ JobsInv /\ [Next]_vars => JobsInv'
<1> SUFFICES ASSUME TypeOK, PoolAccounted, JobsInv, [Next]_vars PROVE JobsInv'
  OBVIOUS
<1> USE DEF At
<1>0. Chain' = Chain
  BY ChainKept
<1> HIDE DEF Chain
\* It is enough that the job of the step is truthful after it.
<1>k. ASSUME NEW k \in Jobs, jobs'[k] = jobs[k] PROVE Truthful(jobs[k])'
  <2>1. Truthful(jobs[k])
    BY DEF JobsInv
  <2>2. CASE jobs[k].pc \in {"rewaiting", "refresh"}
    <3>1. jobs[k] \in Working
      BY <2>2, JobType
    <3>2. jobs[k].alert \in Alerts
      BY <3>1 DEF Working
    <3> QED
      BY <1>k, <2>1, <2>2, <3>2, RowsGrow DEF Truthful
  <2>3. CASE jobs[k].pc \notin {"rewaiting", "refresh"}
    BY <1>0, <1>k, <2>1, <2>3 DEF Truthful
  <2> QED
    BY <2>2, <2>3
<1>m. ASSUME NEW j \in Jobs, NEW job, Becomes(j, job), Truthful(jobs[j])' PROVE JobsInv'
  <2>1. ASSUME NEW k \in Jobs, k # j PROVE jobs'[k] = jobs[k]
    BY <1>m, <2>1 DEF Becomes, TypeOK
  <2> QED
    BY <1>k, <1>m, <2>1 DEF JobsInv
<1>j. ASSUME NEW j \in Jobs, NEW job, Becomes(j, job) PROVE jobs'[j] = job
  BY <1>j DEF Becomes, TypeOK
\* Most steps lead to a job without a claim, or with that of the template.
<1>e. ASSUME NEW j \in Jobs, NEW job, Becomes(j, job),
             \/ job.pc \in {"idle", "leave"}
             \/ job.pc \in {"waiting", "look", "ask"} /\ job.writer = "template"
      PROVE  JobsInv'
  <2>1. jobs'[j] = job
    BY <1>e, <1>j
  <2>2. Truthful(jobs[j])'
    BY <1>e, <2>1 DEF Truthful
  <2> QED
    BY <1>e, <1>m, <2>2
<1>1. CASE UNCHANGED vars
  BY <1>1, <1>k DEF JobsInv, vars
<1>2. ASSUME NEW a \in Alerts, NewAlert(a) PROVE JobsInv'
  <2>1. a \in Jobs /\ Becomes(a, Started("task", a))
    BY <1>2 DEF NewAlert, Becomes, Jobs
  <2>2. Started("task", a).pc = "waiting" /\ Started("task", a).writer = "template"
    BY DEF Started
  <2> QED
    BY <1>e, <2>1, <2>2
<1>3. ASSUME NEW p \in Panels, NEW kind \in {"view", "regenerate"}, NEW a \in Alerts,
             Request(p, kind, a)
      PROVE  JobsInv'
  <2>1. p \in Jobs /\ Becomes(p, Started(kind, a))
    BY <1>3 DEF Request, Becomes, Jobs
  <2>2. Started(kind, a).pc = "waiting" /\ Started(kind, a).writer = "template"
    BY DEF Started
  <2> QED
    BY <1>e, <2>1, <2>2
<1>4. ASSUME NEW j \in Jobs, Connect(j) PROVE JobsInv'
  <2>1. jobs[j] \in Working /\ Truthful(jobs[j])
    BY <1>4, JobType DEF Connect, JobsInv
  <2>2. CASE jobs[j].pc = "waiting"
    <3>1. PICK job : Becomes(j, job) /\ job = [jobs[j] EXCEPT !.pc = "look"]
      BY <1>4, <2>2 DEF Connect
    <3>2. job.pc = "look" /\ job.writer = "template"
      BY <2>1, <2>2, <3>1 DEF Working, Truthful
    <3> QED
      BY <1>e, <3>1, <3>2
  <2>3. CASE jobs[j].pc = "rewaiting"
    <3>1. PICK job : Becomes(j, job) /\ job = [jobs[j] EXCEPT !.pc = "refresh"]
      BY <1>4, <2>3 DEF Connect
    <3>2. /\ job.pc = "refresh" /\ job.kind = jobs[j].kind /\ job.row = jobs[j].row
          /\ job.alert = jobs[j].alert
      BY <2>1, <3>1 DEF Working
    <3>3. jobs'[j] = job /\ rows' = rows
      BY <1>4, <1>j, <3>1 DEF Connect
    <3>4. Truthful(jobs[j])'
      BY <2>1, <2>3, <3>2, <3>3 DEF Truthful
    <3> QED
      BY <1>m, <3>1, <3>4
  <2> QED
    BY <1>4, <2>2, <2>3 DEF Connect
<1>5. ASSUME NEW j \in Jobs, PoolTimeout(j) \/ Leave(j) PROVE JobsInv'
  <2>1. Becomes(j, Idle) /\ Idle.pc = "idle"
    BY <1>5 DEF PoolTimeout, Leave, Idle
  <2> QED
    BY <1>e, <2>1
<1>6. ASSUME NEW j \in Jobs, Look(j) PROVE JobsInv'
  <2>1. jobs[j] \in Working /\ Truthful(jobs[j]) /\ jobs[j].pc = "look"
    BY <1>6, JobType DEF Look, JobsInv
  <2>2. CASE Becomes(j, Leaving(jobs[j]))
    BY <1>e, <2>1, <2>2, LeavingType
  <2>3. CASE Becomes(j, [jobs[j] EXCEPT !.pc = "ask"])
    <3>1. PICK job : Becomes(j, job) /\ job = [jobs[j] EXCEPT !.pc = "ask"]
      BY <2>3
    <3>2. job.pc = "ask" /\ job.writer = "template"
      BY <2>1, <3>1 DEF Working, Truthful
    <3> QED
      BY <1>e, <3>1, <3>2
  <2> QED
    BY <1>6, <2>2, <2>3 DEF Look
<1>7. ASSUME NEW j \in Jobs, NEW outcome \in Outcomes, Attempt(j, outcome) PROVE JobsInv'
  <2>1. /\ jobs[j] \in Working /\ Truthful(jobs[j]) /\ jobs[j].pc = "ask"
        /\ jobs[j].at <= Len(Chain)
    BY <1>7, JobType DEF Attempt, JobsInv
  <2>2. PICK job : Becomes(j, job) /\ job = After(jobs[j], outcome)
    BY <1>7 DEF Attempt
  <2>3. /\ job.pc \in {"ask", "save", "leave"}
        /\ job.pc = "save" => job.at = jobs[j].at /\ job.writer = Chain[jobs[j].at]
        /\ job.pc = "ask" => job.writer = jobs[j].writer
    BY <2>1, <2>2, AfterType
  <2>4. CASE job.pc = "save"
    <3>1. jobs'[j] = job
      BY <1>j, <2>2
    <3>2. jobs[j].at \in Nat /\ Len(Chain) \in Nat
      BY <2>1, ChainFacts DEF Working
    <3>3. ~(job.at > Len(Chain)) /\ job.writer = Chain[job.at]
      BY <2>1, <2>3, <2>4, <3>2
    <3>4. Truthful(jobs[j])'
      BY <1>0, <2>4, <3>1, <3>3 DEF Truthful
    <3> QED
      BY <1>m, <2>2, <3>4
  <2>5. CASE job.pc # "save"
    BY <1>e, <2>1, <2>2, <2>3, <2>5 DEF Truthful
  <2> QED
    BY <2>4, <2>5
<1>8. ASSUME NEW j \in Jobs, Template(j) PROVE JobsInv'
  <2>1. /\ jobs[j] \in Working /\ Truthful(jobs[j]) /\ jobs[j].pc = "ask"
        /\ jobs[j].at > Len(Chain)
    BY <1>8, JobType DEF Template, JobsInv
  <2>2. PICK job : Becomes(j, job) /\ job = [jobs[j] EXCEPT !.pc = "save"]
    BY <1>8 DEF Template
  <2>3. job.pc = "save" /\ job.at > Len(Chain) /\ job.writer = "template"
    BY <2>1, <2>2 DEF Working, Truthful
  <2>4. jobs'[j] = job
    BY <1>j, <2>2
  <2>5. Truthful(jobs[j])'
    BY <1>0, <2>3, <2>4 DEF Truthful
  <2> QED
    BY <1>m, <2>2, <2>5
<1>9. ASSUME NEW j \in Jobs, Save(j) PROVE JobsInv'
  <2>1. jobs[j] \in Working /\ jobs[j].pc = "save"
    BY <1>9, JobType DEF Save
  <2>2. jobs[j].alert \in Alerts /\ rows[jobs[j].alert] \in Seq(Row)
    BY <2>1 DEF Working, TypeOK
  <2>3. CASE jobs[j].kind = "task"
    <3>1. Becomes(j, Idle) /\ Idle.pc = "idle"
      BY <1>9, <2>3 DEF Save, Idle
    <3> QED
      BY <1>e, <3>1
  <2>4. CASE jobs[j].kind # "task"
    <3>1. PICK n : n = Narrative(jobs[j])
      OBVIOUS
    <3>2. rows'[jobs[j].alert] = Append(rows[jobs[j].alert], n) /\ n.by = jobs[j].kind
      <4>1. n.by = jobs[j].kind
        BY <3>1 DEF Narrative
      <4>2. rows' = [rows EXCEPT ![jobs[j].alert] = Append(@, n)]
        BY <1>9, <3>1 DEF Save
      <4> QED
        BY <2>2, <4>1, <4>2 DEF TypeOK
    <3>3. PICK last \in Nat : last = Len(rows'[jobs[j].alert])
      BY <2>2, <3>2, NarrativeType, <2>1, <3>1
    <3>4. PICK job : Becomes(j, job) /\ job = Stored(jobs[j], last)
      BY <1>9, <2>4, <3>3 DEF Save
    <3>5. /\ job.pc = "rewaiting" /\ job.kind = jobs[j].kind /\ job.alert = jobs[j].alert
          /\ job.row = last
      BY <2>1, <3>3, <3>4, StoredType
    <3>6. last \in DOMAIN rows'[jobs[j].alert] /\ rows'[jobs[j].alert][last] = n
      BY <2>1, <2>2, <3>1, <3>2, <3>3, NarrativeType
    <3>7. jobs'[j] = job
      BY <1>j, <3>4
    <3>8. Truthful(jobs[j])'
      BY <2>4, <3>2, <3>5, <3>6, <3>7 DEF Truthful
    <3> QED
      BY <1>m, <3>4, <3>8
  <2> QED
    BY <2>3, <2>4
<1>10. ASSUME NEW j \in Jobs, Answer(j) \/ Breaks(j) PROVE JobsInv'
  <2>1. jobs[j] \in Working /\ Becomes(j, Leaving(jobs[j]))
    BY <1>10, JobType DEF Answer, Breaks
  <2> QED
    BY <1>e, <2>1, LeavingType
<1>11. CASE Crash
  BY <1>11 DEF Crash, JobsInv, Truthful, Idle
<1> QED
  BY <1>1, <1>2, <1>3, <1>4, <1>5, <1>6, <1>7, <1>8, <1>9, <1>10, <1>11 DEF Next, JobStep

\* What a row must be, to be true.
TrueRow(row) ==
  /\ row.fallback <=> row.writer = "template"
  /\ row.provider = IF row.fallback THEN "fallback" ELSE row.writer
  /\ row.attested => row.writer = "nearai"

LEMMA NarrativeTrue ==
  ASSUME NEW job \in Working, Truthful(job), job.pc = "save"
  PROVE  TrueRow(Narrative(job))
<1>0. job.at \in Nat \ {0} /\ Len(Chain) \in Nat
  BY ChainFacts DEF Working
<1>1. CASE job.at > Len(Chain)
  <2>1. Stamp(job) = [provider |-> "fallback", attested |-> FALSE, fallback |-> TRUE]
    BY <1>1 DEF Stamp
  <2>2. job.writer = "template"
    BY <1>1 DEF Truthful
  <2> HIDE DEF Stamp
  <2> QED
    BY <2>1, <2>2 DEF Narrative, TrueRow
<1>2. CASE ~(job.at > Len(Chain))
  <2>1. PICK p \in Providers : p = Chain[job.at]
    BY <1>0, <1>2, ChainFacts
  <2>2. /\ Stamp(job).provider = p /\ Stamp(job).fallback = FALSE
        /\ Stamp(job).attested <=> p = "nearai"
    BY <1>2, <2>1 DEF Stamp, TeeAttested
  <2>3. job.writer = p /\ p # "template"
    BY <1>2, <2>1 DEF Truthful, Providers
  <2> HIDE DEF Stamp
  <2>4. /\ Narrative(job).writer = p /\ Narrative(job).provider = p
        /\ Narrative(job).fallback = FALSE
    BY <2>2, <2>3 DEF Narrative
  <2>5. Narrative(job).attested = Stamp(job).attested
    BY DEF Narrative
  <2>6. Narrative(job).attested => p = "nearai"
    BY <2>2, <2>5
  <2> QED
    BY <2>3, <2>4, <2>6 DEF TrueRow
<1> QED
  BY <1>1, <1>2

LEMMA NextRows == TypeOK /\ JobsInv /\ RowsTrue /\ [Next]_vars => RowsTrue'
<1> SUFFICES ASSUME TypeOK, JobsInv, RowsTrue, [Next]_vars,
                    NEW a \in Alerts, NEW i \in DOMAIN rows'[a]
             PROVE  TrueRow(rows'[a][i])
  BY DEF RowsTrue, TrueRow
<1>0. rows[a] \in Seq(Row) /\ rows \in [Alerts -> Seq(Row)]
  BY DEF TypeOK
<1>1. CASE UNCHANGED rows
  BY <1>1 DEF RowsTrue, TrueRow
<1>2. ASSUME NEW j \in Jobs, At(j, "save"),
             rows' = [rows EXCEPT ![jobs[j].alert] = Append(@, Narrative(jobs[j]))]
      PROVE  TrueRow(rows'[a][i])
  <2>1. PICK n : n = Narrative(jobs[j])
    OBVIOUS
  <2>2. TrueRow(n)
    <3>1. jobs[j] \in Working /\ Truthful(jobs[j])
      BY <1>2, JobType DEF At, JobsInv
    <3> QED
      BY <1>2, <2>1, <3>1, NarrativeTrue DEF At
  <2>3. rows'[a] = rows[a] \/ rows'[a] = Append(rows[a], n)
    BY <1>0, <1>2, <2>1
  <2>4. (i \in DOMAIN rows[a] /\ rows'[a][i] = rows[a][i]) \/ rows'[a][i] = n
    BY <1>0, <2>3
  <2> QED
    BY <2>2, <2>4 DEF RowsTrue, TrueRow
<1>3. ASSUME NEW j \in Jobs, Save(j) \/ Breaks(j) PROVE TrueRow(rows'[a][i])
  BY <1>1, <1>2, <1>3 DEF Save, Breaks
<1> QED
  BY <1>1, <1>3 DEF Next, vars, NewAlert, Request, JobStep, Connect, PoolTimeout, Look, Attempt,
                    Template, Answer, Leave, Crash

\* A memo that a request has stored is there for good.
LEMMA RequestedStays ==
  ASSUME TypeOK, [Next]_vars, NEW of, Requested(of)
  PROVE  Requested(of)'
<1>1. PICK a \in Alerts : \E i \in DOMAIN rows[a] : rows[a][i].by # "task" /\ rows[a][i].writer \in of
  BY DEF Requested
<1>2. PICK i \in DOMAIN rows[a] : rows[a][i].by # "task" /\ rows[a][i].writer \in of
  BY <1>1
<1>3. i \in DOMAIN rows'[a] /\ rows'[a][i] = rows[a][i]
  BY RowsGrow
<1> QED
  BY <1>3, <1>2 DEF Requested

LEMMA NextMarks == TypeOK /\ JobsInv /\ RowsTrue /\ MarksTrue /\ [Next]_vars => MarksTrue'
<1> SUFFICES ASSUME TypeOK, JobsInv, RowsTrue, MarksTrue, [Next]_vars PROVE MarksTrue'
  OBVIOUS
<1>1. CASE UNCHANGED marks
  BY <1>1, RequestedStays DEF MarksTrue, marks
<1>2. ASSUME NEW j \in Jobs, Answer(j) PROVE MarksTrue'
  <2>1. jobs[j] \in Working /\ Truthful(jobs[j]) /\ jobs[j].pc = "refresh"
    BY <1>2, JobType DEF Answer, At, JobsInv
  <2>2. PICK a \in Alerts : a = jobs[j].alert
    BY <2>1 DEF Working
  <2>3. PICK i \in DOMAIN rows[a] : i = jobs[j].row /\ rows[a][i].by # "task"
    BY <2>1, <2>2 DEF Truthful
  <2>4. rows[a][i] \in Row
    BY DEF TypeOK
  <2>5. TrueRow(rows[a][i])
    BY DEF RowsTrue, TrueRow
  <2>6. CASE rows[a][i].fallback
    <3>1. Requested({"template"})
      BY <2>3, <2>5, <2>6 DEF Requested, TrueRow
    <3>2. okMark' = okMark /\ failMark' = TRUE
      <4>1. okMark \in BOOLEAN
        BY DEF TypeOK
      <4> QED
        BY <1>2, <2>2, <2>3, <2>6, <4>1 DEF Answer, Fallback
    <3> QED
      BY <3>1, <3>2, RequestedStays DEF MarksTrue
  <2>7. CASE ~rows[a][i].fallback
    <3>1. rows[a][i].writer \in Providers
      BY <2>4, <2>5, <2>7 DEF Row, TrueRow, Writers
    <3>2. Requested(Providers)
      BY <2>3, <3>1 DEF Requested
    <3>3. okMark' = TRUE /\ failMark' = failMark
      <4>1. failMark \in BOOLEAN
        BY DEF TypeOK
      <4> QED
        BY <1>2, <2>2, <2>3, <2>7, <4>1 DEF Answer, Fallback
    <3> QED
      BY <3>2, <3>3, RequestedStays DEF MarksTrue
  <2> QED
    BY <2>6, <2>7
<1>3. CASE Crash
  BY <1>3 DEF Crash, MarksTrue
<1> QED
  BY <1>1, <1>2, <1>3 DEF Next, vars, NewAlert, Request, JobStep, Connect, PoolTimeout, Look,
                          Attempt, Template, Save, Leave, Breaks

LEMMA InitProvenance == Init => JobsInv /\ RowsTrue /\ MarksTrue
<1> SUFFICES ASSUME Init PROVE JobsInv /\ RowsTrue /\ MarksTrue
  OBVIOUS
<1>1. JobsInv
  BY DEF Init, JobsInv, Truthful, Idle
<1> QED
  BY <1>1 DEF Init, RowsTrue, MarksTrue

LEMMA JobsHold == Spec => []JobsInv
BY PoolHolds, InitProvenance, NextJobs, PTL DEF Spec

\* A memo says who wrote it, through retries, failovers and the template, and
\* claims an enclave only for the provider in one; health marks rest on such memos.
THEOREM ProvenanceKept == Spec => []ProvenanceTrue
<1>1. ProvenanceTrue <=> RowsTrue /\ MarksTrue
  BY DEF ProvenanceTrue
<1> QED
  BY <1>1, TypeCorrect, JobsHold, InitProvenance, NextRows, NextMarks, PTL DEF Spec
-----------------------------------------------------------------------------
(* What a panel shows                                                      *)

\* A panel has shown no memo beyond the newest, nor one newer than the one its
\* request has stored and not shown yet.
ShownInv ==
  \A p \in Panels, a \in Alerts :
    /\ shown[p][a] <= Len(rows[a])
    /\ jobs[p].pc \in {"rewaiting", "refresh"} /\ jobs[p].alert = a =>
         shown[p][a] <= jobs[p].row

LEMMA LengthGrows ==
  ASSUME TypeOK, [Next]_vars, NEW a \in Alerts
  PROVE  /\ Len(rows[a]) \in Nat /\ Len(rows'[a]) \in Nat
         /\ Len(rows'[a]) = Len(rows[a]) \/ Len(rows'[a]) = Len(rows[a]) + 1
<1>0. rows[a] \in Seq(Row) /\ rows \in [Alerts -> Seq(Row)]
  BY DEF TypeOK
<1>1. CASE UNCHANGED rows
  BY <1>0, <1>1
<1>2. ASSUME NEW j \in Jobs, Save(j) \/ Breaks(j)
      PROVE  rows'[a] = rows[a] \/ \E n \in Row : rows'[a] = Append(rows[a], n)
  <2>1. jobs[j] \in Working
    BY <1>2, JobType DEF Save, Breaks, At
  <2>2. PICK n \in Row : n = Narrative(jobs[j])
    BY <2>1, NarrativeType
  <2>3. rows' = rows \/ rows' = [rows EXCEPT ![jobs[j].alert] = Append(@, n)]
    BY <1>2, <2>2 DEF Save, Breaks
  <2> QED
    BY <1>0, <2>3
<1>3. rows'[a] = rows[a] \/ \E n \in Row : rows'[a] = Append(rows[a], n)
  BY <1>2 DEF Next, vars, NewAlert, Request, JobStep, Connect, PoolTimeout, Look, Attempt,
              Template, Answer, Leave, Crash
<1> QED
  BY <1>0, <1>3

\* One step: what a panel shows stays or becomes its request's memo.
LEMMA NextShown ==
  ASSUME TypeOK, PoolAccounted, JobsInv, ShownInv, [Next]_vars
  PROVE  ShownInv' /\ \A p \in Panels, a \in Alerts : shown'[p][a] >= shown[p][a]
<1> SUFFICES ASSUME NEW p \in Panels, NEW a \in Alerts
             PROVE  /\ shown'[p][a] >= shown[p][a]
                    /\ shown'[p][a] <= Len(rows'[a])
                    /\ jobs'[p].pc \in {"rewaiting", "refresh"} /\ jobs'[p].alert = a =>
                         shown'[p][a] <= jobs'[p].row
  BY DEF ShownInv
<1> DEFINE Goal == /\ shown'[p][a] >= shown[p][a]
                   /\ shown'[p][a] <= Len(rows'[a])
                   /\ jobs'[p].pc \in {"rewaiting", "refresh"} /\ jobs'[p].alert = a =>
                        shown'[p][a] <= jobs'[p].row
<1> USE DEF At
<1>0. /\ Len(rows[a]) \in Nat /\ Len(rows'[a]) \in Nat
      /\ Len(rows'[a]) = Len(rows[a]) \/ Len(rows'[a]) = Len(rows[a]) + 1
  BY LengthGrows
<1>s. /\ shown[p][a] \in Nat /\ p \in Jobs /\ shown[p][a] <= Len(rows[a])
      /\ jobs[p].pc \in {"rewaiting", "refresh"} /\ jobs[p].alert = a =>
           shown[p][a] <= jobs[p].row
  BY DEF TypeOK, ShownInv, Jobs
<1>1. CASE shown' = shown /\ jobs'[p] = jobs[p]
  BY <1>0, <1>1, <1>s
<1>2. CASE shown' = shown /\ jobs'[p].pc \notin {"rewaiting", "refresh"}
  BY <1>0, <1>2, <1>s
<1>3. ASSUME NEW j \in Jobs, NEW job, Becomes(j, job), j # p PROVE jobs'[p] = jobs[p]
  BY <1>3 DEF Becomes, TypeOK
<1>4. ASSUME NEW b \in Alerts, NewAlert(b) PROVE Goal
  <2>1. b # p /\ b \in Jobs
    BY JobsAssumption DEF Jobs
  <2> QED
    BY <1>1, <1>3, <1>4, <2>1 DEF NewAlert, Becomes
<1>5. ASSUME NEW q \in Panels, NEW kind \in {"view", "regenerate"}, NEW b \in Alerts,
             Request(q, kind, b)
      PROVE  Goal
  <2>1. shown' = shown /\ jobs' = [jobs EXCEPT ![q] = Started(kind, b)]
    BY <1>5 DEF Request
  <2>2. CASE q = p
    <3>1. jobs'[p] = Started(kind, b)
      BY <1>s, <2>1, <2>2 DEF TypeOK
    <3>2. jobs'[p].pc = "waiting"
      BY <3>1 DEF Started
    <3> QED
      BY <1>2, <2>1, <3>2
  <2>3. CASE q # p
    BY <1>1, <1>3, <2>1, <2>3 DEF Becomes, Jobs
  <2> QED
    BY <2>2, <2>3
<1>6. ASSUME NEW j \in Jobs, JobStep(j) \/ Breaks(j) PROVE Goal
  <2>1. CASE j # p
    <3>1. jobs'[p] = jobs[p]
      BY <1>3, <1>6, <2>1 DEF JobStep, Connect, PoolTimeout, Look, Attempt, Template, Save,
                               Answer, Leave, Breaks
    <3>2. shown'[p] = shown[p]
      BY <1>6, <2>1 DEF JobStep, Connect, PoolTimeout, Look, Attempt, Template, Save, Answer,
                        Leave, Breaks, TypeOK
    <3> QED
      BY <1>0, <1>s, <3>1, <3>2
  <2>2. CASE j = p /\ Connect(p)
    <3>1. jobs[p] \in Working
      BY <2>2, <1>s, JobType DEF Connect
    <3>2. shown' = shown
      BY <2>2 DEF Connect
    <3>3. CASE jobs[p].pc = "waiting"
      <4>1. jobs'[p] = [jobs[p] EXCEPT !.pc = "look"]
        BY <1>s, <2>2, <3>3 DEF Connect, Becomes, TypeOK
      <4>2. jobs'[p].pc = "look"
        BY <3>1, <4>1 DEF Working
      <4> QED
        BY <1>2, <3>2, <4>2
    <3>4. CASE jobs[p].pc = "rewaiting"
      <4>1. jobs'[p] = [jobs[p] EXCEPT !.pc = "refresh"]
        BY <1>s, <2>2, <3>4 DEF Connect, Becomes, TypeOK
      <4>2. jobs'[p].alert = jobs[p].alert /\ jobs'[p].row = jobs[p].row
        BY <3>1, <4>1 DEF Working
      <4> QED
        BY <1>0, <1>s, <3>2, <3>4, <4>2
    <3> QED
      BY <2>2, <3>3, <3>4 DEF Connect
  <2>3. CASE j = p /\ (PoolTimeout(p) \/ Leave(p))
    <3>1. jobs'[p] = Idle /\ shown' = shown
      BY <1>s, <2>3 DEF PoolTimeout, Leave, Becomes, TypeOK
    <3> QED
      BY <1>2, <3>1 DEF Idle
  <2>4. CASE j = p /\ Look(p)
    <3>1. jobs[p] \in Working
      BY <2>4, <1>s, JobType DEF Look
    <3>2. jobs'[p].pc \in {"ask", "leave"}
      <4>1. Leaving(jobs[p]).pc = "leave" /\ [jobs[p] EXCEPT !.pc = "ask"].pc = "ask"
        BY <3>1, LeavingType DEF Working
      <4>2. \E job : Becomes(p, job) /\ job.pc \in {"ask", "leave"}
        BY <2>4, <4>1 DEF Look
      <4> QED
        BY <1>s, <4>2 DEF Becomes, TypeOK
    <3>3. shown' = shown \/ shown' = [shown EXCEPT ![p][jobs[p].alert] = Len(rows[jobs[p].alert])]
      BY <2>4 DEF Look, Newest
    <3>4. shown'[p][a] = shown[p][a] \/ shown'[p][a] = Len(rows[a])
      BY <3>3 DEF TypeOK
    <3> QED
      BY <1>0, <1>s, <3>2, <3>4
  <2>5. CASE j = p /\ \E outcome \in Outcomes : Attempt(p, outcome)
    <3>1. PICK outcome \in Outcomes : Attempt(p, outcome)
      BY <2>5
    <3>2. jobs[p] \in Working /\ jobs[p].pc = "ask" /\ jobs[p].at <= Len(Chain)
      BY <1>s, <3>1, JobType DEF Attempt
    <3>3. After(jobs[p], outcome).pc \in {"ask", "save", "leave"}
      BY <3>2, AfterType
    <3>4. jobs'[p] = After(jobs[p], outcome) /\ shown' = shown
      BY <1>s, <3>1 DEF Attempt, Becomes, TypeOK
    <3> QED
      BY <1>2, <3>3, <3>4
  <2>6. CASE j = p /\ Template(p)
    <3>1. jobs[p] \in Working /\ shown' = shown
      BY <1>s, <2>6, JobType DEF Template
    <3>2. jobs'[p] = [jobs[p] EXCEPT !.pc = "save"]
      BY <1>s, <2>6 DEF Template, Becomes, TypeOK
    <3>3. jobs'[p].pc = "save"
      BY <3>1, <3>2 DEF Working
    <3> QED
      BY <1>2, <3>1, <3>3
  <2>7. CASE j = p /\ Save(p)
    <3>1. jobs[p] \in Working /\ shown' = shown
      BY <1>s, <2>7, JobType DEF Save
    <3>2. PICK b \in Alerts : b = jobs[p].alert
      BY <3>1 DEF Working
    <3>3. Len(rows[b]) \in Nat /\ Len(rows'[b]) \in Nat
      BY LengthGrows
    <3>4. CASE jobs[p].kind = "task"
      <4>1. jobs'[p] = Idle
        BY <1>s, <2>7, <3>4 DEF Save, Becomes, TypeOK
      <4> QED
        BY <1>2, <3>1, <4>1 DEF Idle
    <3>5. CASE jobs[p].kind # "task"
      <4>1. jobs'[p] = Stored(jobs[p], Len(rows'[b]))
        BY <1>s, <2>7, <3>2, <3>5 DEF Save, Becomes, TypeOK
      <4>2. jobs'[p].alert = b /\ jobs'[p].row = Len(rows'[b])
        BY <3>1, <3>2, <3>3, <4>1, StoredType
      <4>3. shown[p][a] <= Len(rows'[a])
        BY <1>0, <1>s
      <4> QED
        BY <1>0, <1>s, <3>1, <4>2, <4>3
    <3> QED
      BY <3>4, <3>5
  <2>8. CASE j = p /\ Answer(p)
    <3>1. jobs[p] \in Working /\ jobs[p].pc = "refresh" /\ Truthful(jobs[p])
      BY <1>s, <2>8, JobType DEF Answer, JobsInv
    <3>2. PICK b \in Alerts : b = jobs[p].alert
      BY <3>1 DEF Working
    <3>3. rows[b] \in Seq(Row) /\ rows' = rows
      BY <2>8 DEF TypeOK, Answer
    <3>4. jobs[p].row \in Nat /\ jobs[p].row <= Len(rows[b])
      BY <3>1, <3>2, <3>3 DEF Truthful
    <3>5. shown' = [shown EXCEPT ![p][b] = jobs[p].row]
      BY <2>8, <3>2 DEF Answer
    <3>6. jobs'[p].pc = "leave"
      <4>1. jobs'[p] = Leaving(jobs[p])
        BY <1>s, <2>8 DEF Answer, Becomes, TypeOK
      <4> QED
        BY <3>1, <4>1, LeavingType
    <3>7. shown'[p][a] = IF a = b THEN jobs[p].row ELSE shown[p][a]
      BY <3>5 DEF TypeOK
    <3> QED
      BY <1>0, <1>s, <3>1, <3>2, <3>3, <3>4, <3>6, <3>7
  <2>9. CASE j = p /\ Breaks(p)
    <3>1. jobs[p] \in Working /\ shown' = shown
      BY <1>s, <2>9, JobType DEF Breaks
    <3>2. jobs'[p] = Leaving(jobs[p])
      BY <1>s, <2>9 DEF Breaks, Becomes, TypeOK
    <3>3. jobs'[p].pc = "leave"
      BY <3>1, <3>2, LeavingType
    <3> QED
      BY <1>2, <3>1, <3>3
  <2> QED
    BY <1>6, <2>1, <2>2, <2>3, <2>4, <2>5, <2>6, <2>7, <2>8, <2>9 DEF JobStep
<1>7. CASE Crash
  <2>1. shown' = shown /\ jobs'[p] = Idle
    BY <1>s, <1>7 DEF Crash
  <2> QED
    BY <1>2, <2>1 DEF Idle
<1>8. CASE UNCHANGED vars
  BY <1>1, <1>8 DEF vars
<1> QED
  BY <1>4, <1>5, <1>6, <1>7, <1>8 DEF Next

\* A panel never goes back to an older memo, although the task, its own request
\* and those of other panels store memos of the alert in any order.
THEOREM NewerShown == Spec => ShowsNewer
<1>1. Init => ShownInv
  <2> SUFFICES ASSUME Init PROVE ShownInv
    OBVIOUS
  <2> QED
    BY DEF Init, ShownInv, Jobs, Idle
<1>2. TypeOK /\ PoolAccounted /\ JobsInv /\ ShownInv /\ [Next]_vars =>
        ShownInv' /\ [\A p \in Panels, a \in Alerts : shown'[p][a] >= shown[p][a]]_vars
  BY NextShown
<1> QED
  BY <1>1, <1>2, PoolHolds, JobsHold, PTL DEF Spec, ShowsNewer
=============================================================================
