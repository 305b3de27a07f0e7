------------------------------ MODULE Narratives ------------------------------
(***************************************************************************)
(* Investigation memos: the provider chain (services/narrative_service.py),*)
(* the background task of a new alert (consumers/event_consumer.py), the   *)
(* lazy GET and the regenerate request (api/narrative.py), and the pool of *)
(* database connections they hold while they wait for a model.             *)
(*                                                                         *)
(* A job is a background task or the request of a panel.  Its pc is the    *)
(* await it is suspended at; from "look" to "save" it keeps one connection *)
(* of the pool, seconds long.  A commit returns the connection, and so     *)
(* does the end of the session, which for an early return or an error      *)
(* comes one step after the job's last word.                               *)
(***************************************************************************)
EXTENDS Integers, Sequences, FiniteSets

CONSTANTS Alerts,       \* alert ids
          Panels,       \* open memo panels, one request each at a time
          Deployments,  \* [provider, keys]: LLM_PROVIDER in lower case, keys set
          PoolSize,     \* pool_size + max_overflow
          Attempts,     \* stop_after_attempt
          MaxRequests,  \* bound: requests of all panels
          MaxFaults     \* bound: odd answers, failures of Redis or a commit, crashes

ASSUME JobsAssumption ==
  Alerts \intersect Panels = {} /\ IsFiniteSet(Alerts) /\ IsFiniteSet(Panels)
ASSUME SizesAssumption == PoolSize \in Nat \ {0} /\ Attempts \in Nat \ {0}
ASSUME BoundsAssumption == MaxRequests \in Nat /\ MaxFaults \in Nat
ASSUME DeploymentsAssumption ==
  \A d \in Deployments : d.provider \in STRING /\ d.keys \subseteq {"nearai", "groq"}

VARIABLES settings,   \* the deployment
          created,    \* alerts in the database
          rows,       \* narratives of each alert in id order; writer is history
          jobs,       \* the background task of each alert, the request of each panel
          inUse,      \* connections checked out
          answer,     \* how each panel's last request was answered
          shown,      \* the memo each panel last showed of each alert, 0 for none
          okMark,     \* _llm_last_ok_at is set
          failMark,   \* _llm_last_failure_at is set
          troubled,   \* history: something other than a model's failure happened
          requests,   \* requests so far
          faults      \* faults and crashes so far

marks == <<okMark, failMark>>
bounds == <<requests, faults>>
vars == <<settings, created, rows, jobs, inUse, answer, shown, marks, troubled, bounds>>

Jobs == Alerts \union Panels
Providers == {"nearai", "groq"}
Writers == Providers \union {"template"}
Idle == [pc |-> "idle"]

Row == [by : {"task", "view", "regenerate"}, writer : Writers,
        provider : {"nearai", "groq", "fallback"}, attested : BOOLEAN, fallback : BOOLEAN]
Job == {Idle} \union
       [pc : {"waiting", "look", "ask", "save", "rewaiting", "refresh", "leave"},
        kind : {"task", "view", "regenerate"}, alert : Alerts,
        at : Nat \ {0}, tries : Nat, writer : Writers, row : Nat]

Init ==
  /\ settings \in Deployments
  /\ created = {}
  /\ rows = [a \in Alerts |-> <<>>]
  /\ jobs = [j \in Jobs |-> Idle]
  /\ inUse = 0
  /\ answer = [p \in Panels |-> "none"]
  /\ shown = [p \in Panels |-> [a \in Alerts |-> 0]]
  /\ okMark = FALSE /\ failMark = FALSE
  /\ troubled = FALSE
  /\ requests = 0 /\ faults = 0

TypeOK ==
  /\ settings \in Deployments
  /\ created \subseteq Alerts
  /\ rows \in [Alerts -> Seq(Row)]
  /\ jobs \in [Jobs -> Job]
  /\ inUse \in 0 .. PoolSize
  /\ answer \in [Panels -> {"none", "memo", "missing", "error"}]
  /\ shown \in [Panels -> [Alerts -> Nat]]
  /\ okMark \in BOOLEAN /\ failMark \in BOOLEAN /\ troubled \in BOOLEAN
  /\ requests \in Nat /\ faults \in Nat
-----------------------------------------------------------------------------
(* The provider chain. *)

Started(kind, a) ==
  [pc |-> "waiting", kind |-> kind, alert |-> a, at |-> 1, tries |-> 1,
   writer |-> "template", row |-> 0]

\* A job that has no more to say, and a request whose memo is stored.
Leaving(job) == [Started(job.kind, job.alert) EXCEPT !.pc = "leave"]
Stored(job, i) == [Started(job.kind, job.alert) EXCEPT !.pc = "rewaiting", !.row = i]

\* _primary_provider: an unknown name means groq.
Primary == IF settings.provider \in Providers THEN settings.provider ELSE "groq"

\* The provider that is not the primary, and a part of the chain for one of them.
Other == IF Primary = "nearai" THEN "groq" ELSE "nearai"
Keyed(p) == IF p \in settings.keys THEN <<p>> ELSE <<>>

\* _failover_chain: the primary, then the other, those with a key.
Chain == Keyed(Primary) \o Keyed(Other)

\* The gateway of nearai runs in an enclave (_PROVIDER_CONFIG).
TeeAttested(p) == p = "nearai"

\* What a call may come to: a memo, one of fewer than 80 characters (a
\* ValueError), an error that is retried, or an answer of another shape.
Outcomes == {"memo", "short", "error", "odd"}

\* Fault: ValueError is not among the exceptions caught.
Caught_NoValueError == {"error"}

\* The outcomes the except clause turns into the next provider's turn.
Caught == {"short", "error"}

\* AsyncRetrying takes the next attempt.
Retried(job) == [job EXCEPT !.tries = @ + 1]

\* Fault: the chain starts over after the last provider.
Failover_Cyclic(job) == [job EXCEPT !.at = (@ % Len(Chain)) + 1, !.tries = 1]

\* The next provider's turn; past the last one it is the template's.
Failover(job) == [job EXCEPT !.at = @ + 1, !.tries = 1]

\* What a call's outcome makes of the job.
After(job, outcome) ==
  LET retried == outcome = "error" /\ job.tries < Attempts
  IN CASE outcome = "memo" ->
            [job EXCEPT !.pc = "save", !.tries = 1, !.writer = Chain[job.at]]
       [] retried -> Retried(job)
       [] ~retried /\ outcome \in Caught -> Failover(job)
       [] OTHER -> Leaving(job)

\* Fault: the result names the primary provider whoever answered.
Stamp_Primary(job) ==
  IF job.at > Len(Chain)
  THEN [provider |-> "fallback", attested |-> FALSE, fallback |-> TRUE]
  ELSE [provider |-> Primary, attested |-> TeeAttested(Primary), fallback |-> FALSE]

\* Fault: the model version is stored as the provider.
Stamp_Version(job) ==
  [provider |-> "local-template", attested |-> FALSE, fallback |-> TRUE]

\* The provenance generate returns and the Narrative is stored with.
Stamp(job) ==
  IF job.at > Len(Chain)
  THEN [provider |-> "fallback", attested |-> FALSE, fallback |-> TRUE]
  ELSE [provider |-> Chain[job.at], attested |-> TeeAttested(Chain[job.at]), fallback |-> FALSE]

Narrative(job) ==
  LET stamp == Stamp(job)
  IN [by |-> job.kind, writer |-> job.writer, provider |-> stamp.provider,
      attested |-> stamp.attested, fallback |-> stamp.fallback]
-----------------------------------------------------------------------------
(* Where jobs come from. *)

\* The consumer inserts an alert and creates its narrative task.
NewAlert(a) ==
  /\ a \notin created
  /\ inUse < PoolSize
  /\ created' = created \union {a}
  /\ jobs' = [jobs EXCEPT ![a] = Started("task", a)]
  /\ UNCHANGED <<settings, rows, inUse, answer, shown, marks, troubled, bounds>>

\* A panel opens, or its regenerate button is pressed.
Request(p, kind, a) ==
  /\ requests < MaxRequests
  /\ jobs[p] = Idle
  /\ jobs' = [jobs EXCEPT ![p] = Started(kind, a)]
  /\ answer' = [answer EXCEPT ![p] = "none"]
  /\ requests' = requests + 1
  /\ UNCHANGED <<settings, created, rows, inUse, shown, marks, troubled, faults>>
-----------------------------------------------------------------------------
(* The steps of a job. *)

At(j, pc) == jobs[j].pc = pc
Becomes(j, job) == jobs' = [jobs EXCEPT ![j] = job]
Answered(j, how) == answer' = IF j \in Panels THEN [answer EXCEPT ![j] = how] ELSE answer

\* The session's first statement, or the refresh after its commit, gets a connection.
Connect(j) ==
  /\ inUse < PoolSize
  /\ inUse' = inUse + 1
  /\ \/ At(j, "waiting") /\ Becomes(j, [jobs[j] EXCEPT !.pc = "look"])
     \/ At(j, "rewaiting") /\ Becomes(j, [jobs[j] EXCEPT !.pc = "refresh"])
  /\ UNCHANGED <<settings, created, rows, answer, shown, marks, troubled, bounds>>

\* Thirty seconds without a free connection: the task logs it, a request is
\* answered 500, even one whose memo is already stored.
PoolTimeout(j) ==
  /\ inUse = PoolSize
  /\ At(j, "waiting") \/ At(j, "rewaiting")
  /\ Becomes(j, Idle)
  /\ Answered(j, "error")
  /\ troubled' = TRUE
  /\ UNCHANGED <<settings, created, rows, inUse, shown, marks, bounds>>

\* Fault: a narrative is missing only if the alert is unknown.
Missing_Never(a) == FALSE

Missing(a) == rows[a] = <<>>

\* Fault: the query orders by id, oldest first.
Newest_Oldest(a) == 1

\* order_by(desc(id)).limit(1)
Newest(a) == Len(rows[a])

\* The alert and its narratives are read.  A task stops if there is one, and
\* stops with an error if there are more; a view returns the newest.
Look(j) ==
  LET kind == jobs[j].kind
      a == jobs[j].alert
      wanted == kind = "regenerate" \/ Missing(a)
  IN
  /\ At(j, "look")
  /\ \/ /\ wanted /\ a \in created
        /\ Becomes(j, [jobs[j] EXCEPT !.pc = "ask"])
        /\ UNCHANGED <<answer, shown>>
     \/ /\ wanted /\ a \notin created
        /\ Becomes(j, Leaving(jobs[j]))
        /\ Answered(j, "missing")
        /\ UNCHANGED shown
     \/ /\ ~wanted
        /\ Becomes(j, Leaving(jobs[j]))
        /\ Answered(j, "memo")
        /\ shown' = IF j \in Panels THEN [shown EXCEPT ![j][a] = Newest(a)] ELSE shown
  /\ UNCHANGED <<settings, created, rows, inUse, marks, troubled, bounds>>

\* One attempt with the provider whose turn it is.
Attempt(j, outcome) ==
  /\ At(j, "ask") /\ jobs[j].at <= Len(Chain)
  /\ outcome = "odd" => faults < MaxFaults
  /\ Becomes(j, After(jobs[j], outcome))
  /\ IF After(jobs[j], outcome).pc = "leave" THEN Answered(j, "error") ELSE UNCHANGED answer
  /\ IF outcome = "odd" THEN troubled' = TRUE /\ faults' = faults + 1
                        ELSE UNCHANGED <<troubled, faults>>
  /\ UNCHANGED <<settings, created, rows, inUse, shown, marks, requests>>

\* No provider is left, or none is configured: the local template.
Template(j) ==
  /\ At(j, "ask") /\ jobs[j].at > Len(Chain)
  /\ Becomes(j, [jobs[j] EXCEPT !.pc = "save"])
  /\ UNCHANGED <<settings, created, rows, inUse, answer, shown, marks, troubled, bounds>>

\* Fault: the commit keeps the connection for the refresh, which takes another.
ReleasedAtCommit_Not == inUse

ReleasedAtCommit == inUse - 1

\* The row is added and committed; a task is done, a request refreshes its row.
Save(j) ==
  LET a == jobs[j].alert
  IN
  /\ At(j, "save")
  /\ rows' = [rows EXCEPT ![a] = Append(@, Narrative(jobs[j]))]
  /\ inUse' = ReleasedAtCommit
  /\ Becomes(j, IF jobs[j].kind = "task" THEN Idle
                ELSE Stored(jobs[j], Len(rows'[a])))
  /\ UNCHANGED <<settings, created, answer, shown, marks, troubled, bounds>>

Fallback(row) == row.fallback

\* The refreshed row is returned, and the model's health is marked.
Answer(j) ==
  LET a == jobs[j].alert
      row == rows[a][jobs[j].row]
  IN
  /\ At(j, "refresh")
  /\ okMark' = (okMark \/ ~Fallback(row))
  /\ failMark' = (failMark \/ Fallback(row))
  /\ Answered(j, "memo")
  /\ shown' = [shown EXCEPT ![j][a] = jobs[j].row]
  /\ Becomes(j, Leaving(jobs[j]))
  /\ UNCHANGED <<settings, created, rows, inUse, troubled, bounds>>

\* The session is closed and its connection returned.
Leave(j) ==
  /\ At(j, "leave")
  /\ Becomes(j, Idle)
  /\ inUse' = inUse - 1
  /\ UNCHANGED <<settings, created, rows, answer, shown, marks, troubled, bounds>>
-----------------------------------------------------------------------------
(* Faults. *)

\* Redis fails under get_base_features, or the commit fails, with or without
\* its row in the database.
Breaks(j) ==
  /\ faults < MaxFaults
  /\ \/ /\ At(j, "ask") /\ jobs[j].at = 1 /\ jobs[j].tries = 1
        /\ UNCHANGED rows
     \/ /\ At(j, "save")
        /\ rows' \in {rows, [rows EXCEPT ![jobs[j].alert] = Append(@, Narrative(jobs[j]))]}
  /\ Becomes(j, Leaving(jobs[j]))
  /\ Answered(j, "error")
  /\ troubled' = TRUE
  /\ faults' = faults + 1
  /\ UNCHANGED <<settings, created, inUse, shown, marks, requests>>

\* The process dies and is restarted: tasks, marks and the pool are gone.
Crash ==
  /\ faults < MaxFaults
  /\ jobs' = [j \in Jobs |-> Idle]
  /\ answer' = [p \in Panels |-> IF jobs[p] = Idle THEN answer[p] ELSE "error"]
  /\ inUse' = 0
  /\ okMark' = FALSE /\ failMark' = FALSE
  /\ troubled' = TRUE
  /\ faults' = faults + 1
  /\ UNCHANGED <<settings, created, rows, shown, requests>>

JobStep(j) ==
  \/ Connect(j) \/ PoolTimeout(j) \/ Look(j)
  \/ (\E outcome \in Outcomes : Attempt(j, outcome))
  \/ Template(j) \/ Save(j) \/ Answer(j) \/ Leave(j)

Next ==
  \/ \E a \in Alerts : NewAlert(a)
  \/ \E p \in Panels, kind \in {"view", "regenerate"}, a \in Alerts : Request(p, kind, a)
  \/ \E j \in Jobs : JobStep(j) \/ Breaks(j)
  \/ Crash

Spec == Init /\ [][Next]_vars

\* The event loop resumes every job; calls and waits for the pool time out.
FairSpec == Spec /\ \A j \in Jobs : WF_vars(JobStep(j))
-----------------------------------------------------------------------------
(* Properties. *)

\* However the providers fail, no request is answered with an error: that takes
\* an exhausted pool, a failure of Redis or PostgreSQL, a crash, or an answer
\* of a shape the code does not expect.
OutagesNeverSurface == ~troubled => \A p \in Panels : answer[p] # "error"

\* The stored provenance names who wrote the memo, failovers included, and
\* claims an enclave only for what came out of one.
RowsTrue ==
  \A a \in Alerts : \A i \in DOMAIN rows[a] :
    LET row == rows[a][i]
    IN /\ row.fallback <=> row.writer = "template"
       /\ row.provider = IF row.fallback THEN "fallback" ELSE row.writer
       /\ row.attested => row.writer = "nearai"

\* The health marks of a process rest on memos that requests have stored.
Requested(of) ==
  \E a \in Alerts : \E i \in DOMAIN rows[a] :
    rows[a][i].by # "task" /\ rows[a][i].writer \in of
MarksTrue ==
  /\ okMark => Requested(Providers)
  /\ failMark => Requested({"template"})

\* What rows and marks say of where a memo came from is so.  The template's provider
\* is "fallback", as the code returns it, and not the '<provider>-fallback' that the
\* comment of NarrativeResult promises.
ProvenanceTrue == RowsTrue /\ MarksTrue

Holds(j) == jobs[j].pc \in {"look", "ask", "save", "refresh", "leave"}

\* Every connection checked out belongs to one job, on every path.
PoolAccounted == inUse = Cardinality({j \in Jobs : Holds(j)})

\* A panel never goes back to an older memo of an alert than one it showed.
ShowsNewer ==
  [][\A p \in Panels, a \in Alerts : shown'[p][a] >= shown[p][a]]_vars

\* Whatever the models do, an alert gets a memo without anyone asking, if
\* nothing but the models fails.
MemoFollows == \A a \in Alerts : a \in created ~> rows[a] # <<>> \/ troubled

\* Every task and every request ends: attempts, providers and waits are finite.
JobsEnd == \A j \in Jobs : []<>(jobs[j] = Idle)
=============================================================================
