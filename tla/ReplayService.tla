---------------------------- MODULE ReplayService ----------------------------
(***************************************************************************)
(* The replay: POST /replay/start, /stop and /inject-burst, the background *)
(* task _run_loop that publishes the event file to Kafka, and what they    *)
(* leave in Redis (services/replay_service.py, the replay keys of          *)
(* services/feature_aggregator.py).                                        *)
(*                                                                         *)
(* All run on the backend's one event loop; a handler loses it at each     *)
(* await, so it is one action per stretch between awaits, the write it     *)
(* awaits included.  Any of these awaits may fail, the process may die,    *)
(* and Redis keeps its keys through both.  What the reset of a start does  *)
(* to the alerts table is AlertLifecycle's ReplayReset.                    *)
(***************************************************************************)
EXTENDS Integers, Sequences, FiniteSets

CONSTANTS Clients,      \* browser tabs and scripts, one request in flight each
          Requests,     \* the requests in use: "start", "stop", "inject"
          BurstLen,     \* events the burst of mule accounts publishes first (200)
          FileLen,      \* events in synthetic_events.jsonl
          ReportEvery,  \* events between two updates of the stats (50, 100)
          InjectLen,    \* events an injected burst publishes (50)
          MaxRuns,      \* bound: a start is refused once so many loops were made
          MaxSent,      \* bound: no burst is injected beyond so many events
          MaxFaults,    \* bound: failed awaits and crashes
          MaxTimeouts   \* bound: stops that wait longer than five seconds

ASSUME RequestsAssumption == Requests \subseteq {"start", "stop", "inject"}
ASSUME LengthsAssumption == /\ BurstLen \in Nat /\ FileLen \in Nat
                            /\ InjectLen \in Nat /\ ReportEvery \in Nat \ {0}
ASSUME BoundsAssumption == /\ MaxRuns \in Nat /\ MaxSent \in Nat
                           /\ MaxFaults \in Nat /\ MaxTimeouts \in Nat

VARIABLES request,           \* where each client's request stands
          task,              \* ReplayService._task: index in loops, 0 for None
          stopEvent,         \* ReplayService._stop_event
          loops,             \* every _run_loop task made, in order
          status,            \* Redis replay:status
          events_published,  \* Redis replay:stats, the field events_published
          sent,              \* events put on Kafka since the stats were reset
          faults,            \* failed awaits and crashes so far
          timeouts           \* stops that timed out so far

vars == <<request, task, stopEvent, loops, status, events_published, sent,
          faults, timeouts>>

Idle == [pc |-> "idle", loop |-> 0, count |-> 0]

\* The await at which a request is suspended; "wait" is wait_for(self._task),
\* "cancel" the same once it timed out.
Starting == {"reset", "setRunning", "resetStats", "initStats"}
Stopping == {"wait", "cancel", "setIdle"}
Injecting == {"inject", "count"}

\* A loop is in its burst or its file pass, or in its finally clause
\* (updating the stats, then clearing the status), or its task is done.
Passes == {"burst", "file"}
Live == Passes \union {"closing", "clearing"}
Ended == {"done", "cancelled", "failed"}

RunLoop == [pc : Live \union Ended, left : Nat, published : Nat,
            report : BOOLEAN, ending : {"done", "cancelled"}]

Request == [pc : {"idle"} \union Starting \union Stopping \union Injecting,
            loop : Nat, count : Nat]
Waiting == {"wait", "cancel"}

TypeOK ==
  /\ request \in [Clients -> Request]
  /\ loops \in Seq(RunLoop)
  /\ task \in 0 .. Len(loops)
  /\ \A c \in Clients : /\ request[c].loop \in 0 .. Len(loops)
                        /\ request[c].pc \in Waiting => request[c].loop # 0
  /\ stopEvent \in BOOLEAN
  /\ status \in {"idle", "running"}
  /\ events_published \in Nat /\ sent \in Nat
  /\ faults \in Nat /\ timeouts \in Nat

Init ==
  /\ request = [c \in Clients |-> Idle]
  /\ task = 0
  /\ stopEvent = FALSE
  /\ loops = <<>>
  /\ status = "idle"
  /\ events_published = 0
  /\ sent = 0
  /\ faults = 0
  /\ timeouts = 0

TaskLive == task # 0 /\ loops[task].pc \in Live

Goto(c, pc) == request' = [request EXCEPT ![c].pc = pc]
Finish(c) == request' = [request EXCEPT ![c] = Idle]
-----------------------------------------------------------------------------
(* start *)

\* Fault: a task that is in its finally clause no longer counts as running.
StartRefused_Publishing == task # 0 /\ loops[task].pc \in Passes

\* Fault: the guard is missing.
StartRefused_Never == FALSE

StartRefused == TaskLive

\* Unless the task is live ("already_running"), go on to dismiss the replay's
\* open alerts.
StartCheck(c) ==
  /\ "start" \in Requests
  /\ request[c] = Idle
  /\ ~StartRefused
  /\ Len(loops) < MaxRuns
  /\ Goto(c, "reset")
  /\ UNCHANGED <<task, stopEvent, loops, status, events_published, sent, faults, timeouts>>

\* The dismissal is committed: clear the stop event; the status comes next.
StartReset(c) ==
  /\ request[c].pc = "reset"
  /\ stopEvent' = FALSE
  /\ Goto(c, "setRunning")
  /\ UNCHANGED <<task, loops, status, events_published, sent, faults, timeouts>>

StartSetRunning(c) ==
  /\ request[c].pc = "setRunning"
  /\ status' = "running"
  /\ Goto(c, "resetStats")
  /\ UNCHANGED <<task, stopEvent, loops, events_published, sent, faults, timeouts>>

StartResetStats(c) ==
  /\ request[c].pc = "resetStats"
  /\ events_published' = 0
  /\ sent' = 0
  /\ Goto(c, "initStats")
  /\ UNCHANGED <<task, stopEvent, loops, status, faults, timeouts>>

NewLoop(pass) == [pc |-> pass, left |-> IF pass = "burst" THEN BurstLen ELSE FileLen,
                  published |-> 0, report |-> FALSE, ending |-> "done"]

\* The stats are initialised, the task is created; the mode picks its first pass.
StartLaunch(c, pass) ==
  /\ request[c].pc = "initStats"
  /\ events_published' = 0
  /\ loops' = Append(loops, NewLoop(pass))
  /\ task' = Len(loops) + 1
  /\ Finish(c)
  /\ UNCHANGED <<stopEvent, status, sent, faults, timeouts>>
-----------------------------------------------------------------------------
(* stop *)

\* Fault: the event is not set, the task is left to run out.
StopSignal_Forgotten == stopEvent

StopSignal == TRUE

\* Set the stop event; with a task, wait for it up to five seconds.
StopSet(c) ==
  /\ "stop" \in Requests
  /\ request[c] = Idle
  /\ stopEvent' = StopSignal
  /\ request' = [request EXCEPT ![c] =
       [pc |-> IF task = 0 THEN "setIdle" ELSE "wait", loop |-> task, count |-> 0]]
  /\ UNCHANGED <<task, loops, status, events_published, sent, faults, timeouts>>

\* The awaited task is done: flush and go on, or raise what it ended with.
\* After the timeout wait_for turns a cancelled task into TimeoutError, which
\* stop catches; before, the CancelledError of another stop's task escapes.
StopWaited(c) ==
  /\ request[c].pc \in Waiting
  /\ loops[request[c].loop].pc \in Ended
  /\ LET ending == loops[request[c].loop].pc
     IN IF ending = "done" \/ (ending = "cancelled" /\ request[c].pc = "cancel")
        THEN Goto(c, "setIdle")
        ELSE Finish(c)
  /\ UNCHANGED <<task, stopEvent, loops, status, events_published, sent, faults, timeouts>>

\* CancelledError at the loop's await: a pass goes to the finally clause, and
\* the finally clause is cut short.
Cancelled(l) ==
  IF l.pc \in Passes
  THEN [l EXCEPT !.pc = "closing", !.report = FALSE, !.ending = "cancelled"]
  ELSE [l EXCEPT !.pc = "cancelled"]

\* Five seconds have passed: cancel the task and wait until it is done.
StopTimeout(c) ==
  /\ timeouts < MaxTimeouts
  /\ request[c].pc = "wait"
  /\ loops[request[c].loop].pc \in Live
  /\ loops' = [loops EXCEPT ![request[c].loop] = Cancelled(@)]
  /\ timeouts' = timeouts + 1
  /\ Goto(c, "cancel")
  /\ UNCHANGED <<task, stopEvent, status, events_published, sent, faults>>

StopSetIdle(c) ==
  /\ request[c].pc = "setIdle"
  /\ status' = "idle"
  /\ Finish(c)
  /\ UNCHANGED <<task, stopEvent, loops, events_published, sent, faults, timeouts>>
-----------------------------------------------------------------------------
(* inject_burst *)

InjectBegin(c) ==
  /\ "inject" \in Requests
  /\ request[c] = Idle
  /\ sent + InjectLen <= MaxSent
  /\ Goto(c, "inject")
  /\ UNCHANGED <<task, stopEvent, loops, status, events_published, sent, faults, timeouts>>

\* One event of the burst; no stop is looked at.
InjectPublish(c) ==
  /\ request[c].pc = "inject"
  /\ request[c].count < InjectLen
  /\ sent' = sent + 1
  /\ request' = [request EXCEPT ![c].count = @ + 1]
  /\ UNCHANGED <<task, stopEvent, loops, status, events_published, faults, timeouts>>

InjectFlush(c) ==
  /\ request[c].pc = "inject"
  /\ request[c].count = InjectLen
  /\ Goto(c, "count")
  /\ UNCHANGED <<task, stopEvent, loops, status, events_published, sent, faults, timeouts>>

\* HINCRBY replay:stats events_published.
InjectCount(c) ==
  /\ request[c].pc = "count"
  /\ events_published' = events_published + request[c].count
  /\ Finish(c)
  /\ UNCHANGED <<task, stopEvent, loops, status, sent, faults, timeouts>>
-----------------------------------------------------------------------------
(* _run_loop *)

Change(i, l) == loops' = [loops EXCEPT ![i] = l]

\* Fault: the file pass does not look at the stop event.
StopSeen_BurstOnly(l) == stopEvent /\ l.pc = "burst"

StopSeen(l) == stopEvent

\* The next event of a pass: published without an await after the check.
LoopPublish(i) ==
  /\ loops[i].pc \in Passes /\ ~loops[i].report
  /\ loops[i].left > 0 /\ ~StopSeen(loops[i])
  /\ Change(i, [loops[i] EXCEPT !.left = @ - 1, !.published = @ + 1,
                                !.report = (loops[i].published + 1) % ReportEvery = 0])
  /\ sent' = sent + 1
  /\ UNCHANGED <<request, task, stopEvent, status, events_published, faults, timeouts>>

\* Fault: the stats are incremented by the total instead of set to it.
Reported_Added(l) == events_published + l.published

\* HSET replay:stats events_published, whatever it held.
Reported(l) == l.published

LoopReport(i) ==
  /\ loops[i].report
  /\ events_published' = Reported(loops[i])
  /\ Change(i, [loops[i] EXCEPT !.report = FALSE])
  /\ UNCHANGED <<request, task, stopEvent, status, sent, faults, timeouts>>

\* A pass ends at its last event or when the stop event is seen; the file
\* follows the burst in either case.
LoopPassEnds(i) ==
  /\ loops[i].pc \in Passes /\ ~loops[i].report
  /\ loops[i].left = 0 \/ StopSeen(loops[i])
  /\ Change(i, IF loops[i].pc = "burst"
               THEN [loops[i] EXCEPT !.pc = "file", !.left = FileLen]
               ELSE [loops[i] EXCEPT !.pc = "closing"])
  /\ UNCHANGED <<request, task, stopEvent, status, events_published, sent, faults, timeouts>>

LoopClose(i) ==
  /\ loops[i].pc = "closing"
  /\ events_published' = Reported(loops[i])
  /\ Change(i, [loops[i] EXCEPT !.pc = "clearing"])
  /\ UNCHANGED <<request, task, stopEvent, status, sent, faults, timeouts>>

Cleared == "idle"

LoopClear(i) ==
  /\ loops[i].pc = "clearing"
  /\ status' = Cleared
  /\ Change(i, [loops[i] EXCEPT !.pc = loops[i].ending])
  /\ UNCHANGED <<request, task, stopEvent, events_published, sent, faults, timeouts>>
-----------------------------------------------------------------------------
(* Failures. *)

\* Redis or Postgres fails the await of a request: it answers with an error.
RequestFails(c) ==
  /\ faults < MaxFaults
  /\ request[c].pc \in Starting \union {"setIdle", "count"}
  /\ Finish(c)
  /\ faults' = faults + 1
  /\ UNCHANGED <<task, stopEvent, loops, status, events_published, sent, timeouts>>

\* An error in a pass is logged and ends it; one in the finally clause ends
\* the task with that error.
LoopFails(i) ==
  /\ faults < MaxFaults
  /\ \/ /\ loops[i].report
        /\ Change(i, [loops[i] EXCEPT !.pc = "closing", !.report = FALSE])
     \/ /\ loops[i].pc \in {"closing", "clearing"}
        /\ Change(i, [loops[i] EXCEPT !.pc = "failed"])
  /\ faults' = faults + 1
  /\ UNCHANGED <<request, task, stopEvent, status, events_published, sent, timeouts>>

Killed(l) == IF l.pc \in Live THEN [l EXCEPT !.pc = "cancelled", !.report = FALSE] ELSE l

\* The process dies, or is shut down: the lifespan does not stop the replay
\* and closes Redis under its finally clause.  A new process starts.
Crash ==
  /\ faults < MaxFaults
  /\ request' = [c \in Clients |-> Idle]
  /\ loops' = [i \in DOMAIN loops |-> Killed(loops[i])]
  /\ task' = 0
  /\ stopEvent' = FALSE
  /\ faults' = faults + 1
  /\ UNCHANGED <<status, events_published, sent, timeouts>>

StartStep(c) ==
  \/ StartReset(c) \/ StartSetRunning(c) \/ StartResetStats(c)
  \/ \E pass \in Passes : StartLaunch(c, pass)
StopStep(c) == StopWaited(c) \/ StopSetIdle(c)
InjectStep(c) == InjectPublish(c) \/ InjectFlush(c) \/ InjectCount(c)
LoopStep(i) == LoopReport(i) \/ LoopPassEnds(i) \/ LoopClose(i) \/ LoopClear(i)

Next ==
  \/ \E c \in Clients : StartCheck(c) \/ StartStep(c)
  \/ \E c \in Clients : StopSet(c) \/ StopStep(c) \/ StopTimeout(c)
  \/ \E c \in Clients : InjectBegin(c) \/ InjectStep(c)
  \/ \E i \in DOMAIN loops : LoopPublish(i) \/ LoopStep(i)
  \/ \E c \in Clients : RequestFails(c)
  \/ \E i \in DOMAIN loops : LoopFails(i)
  \/ Crash

Spec == Init /\ [][Next]_vars

\* The event loop runs every task that is ready.  Nothing is assumed of
\* LoopPublish: the file's half million events may outlast any observation,
\* so that a loop ends in time only by being stopped.
Fairness ==
  /\ \A c \in Clients : WF_vars(StartStep(c)) /\ WF_vars(StopStep(c)) /\ WF_vars(InjectStep(c))
  /\ \A i \in 1 .. MaxRuns + Cardinality(Clients) : WF_vars(i \in DOMAIN loops /\ LoopStep(i))
FairSpec == Spec /\ Fairness
-----------------------------------------------------------------------------
(* Properties. *)

Quiet == \A c \in Clients : request[c] = Idle
Publishing == {i \in DOMAIN loops : loops[i].pc \in Passes /\ ~StopSeen(loops[i])}
Unfinished == {i \in DOMAIN loops : loops[i].pc \in Live}

\* One replay at a time, whatever fails, times out or crashes: start's guard
\* is enough as long as requests do not overlap (start: already_running).
OneLoop == \A i, j \in Unfinished : i = j

\* Once the requests are answered, a loop that goes on publishing (it will not see
\* the stop event) shows as running, so that Replay Studio offers Stop for it and
\* not Start: a stop that was answered "idle" left none behind.
RunningShown == Quiet /\ Publishing # {} => status = "running"

\* The status stays "running" without a loop only where a failed await or a
\* crash left it behind; a stop that timed out does not.
StaleNeedsFault ==
  Quiet /\ status = "running" /\ Unfinished = {} => faults > 0

\* What Replay Studio shows of a loop is so.
StatusTruthful == RunningShown /\ StaleNeedsFault

\* The counter never shows more events than were published since its reset,
\* through lagging reports, bursts, failures and crashes.
NeverOvercounts == events_published <= sent

\* What makes these four inductive when c is the only client.  A live loop is
\* the task, shows as running and is what a stop waits for; no start is past
\* its check and no stop past its wait while there is one.
LoopKnown(c) ==
  \A i \in DOMAIN loops :
    /\ loops[i].pc \in Live =>
         /\ i = task /\ status = "running"
         /\ request[c].pc \notin Starting \union {"setIdle"}
         /\ loops[i].published + request[c].count <= sent
    /\ loops[i].report => loops[i].pc \in Passes
    /\ loops[i].pc = "failed" => faults > 0

RequestKnown(c) ==
  /\ request[c].pc \in Waiting => request[c].loop = task
  /\ request[c].pc \in {"resetStats", "initStats"} => status = "running"
  /\ request[c].pc \notin Injecting => request[c].count = 0
  /\ events_published + request[c].count <= sent

StaleKnown(c) ==
  status = "running" /\ ~TaskLive /\ faults = 0 =>
    request[c].pc \in {"resetStats", "initStats", "cancel", "setIdle"}

SerialInv(c) == LoopKnown(c) /\ RequestKnown(c) /\ StaleKnown(c)

\* Every request is answered; a stop needs no timeout for it, because its
\* loop sees the event (stop, _run_loop).
RequestsReturn ==
  \A c \in Clients : request[c] # Idle ~> request[c] = Idle

\* Until a start clears the event, a stop ends every loop, those included
\* that overlapping starts left without a reference in _task.
StopDrains == stopEvent ~> (~stopEvent \/ Unfinished = {})
=============================================================================
