---------------------------- MODULE EventPipeline ----------------------------
(***************************************************************************)
(* The event consumer (consumers/event_consumer.py): it polls Kafka and,   *)
(* for each event, updates the deltas in Redis, the access counts in       *)
(* Neo4j, scores the account, samples the score history, and raises an     *)
(* alert; and what a stop, a restart or a failed step leaves of that.      *)
(*                                                                         *)
(* The task handles one event at a time, one action per awaited write.     *)
(* Offsets are committed by the Kafka client on its own: a message counts  *)
(* as stored when poll returns it, stored offsets are committed every few  *)
(* seconds and on close, and a group without an offset starts at the end   *)
(* of the log (enable.auto.commit, auto.offset.reset = latest).  How an    *)
(* alert is deduplicated is AlertLifecycle's; ticks are for display only.  *)
(***************************************************************************)
EXTENDS Integers, Sequences, FiniteSets

CONSTANTS Partitions,    \* partitions of hawkeye.events
          Accounts,      \* account ids
          Junk,          \* a message that is no JSON or names no account
          Key,           \* the partition of each account: messages are keyed by it
          Seeded,        \* accounts with base features in Redis
          Scores,        \* fused scores, in hundredths
          Threshold,     \* the score at which an event is an alert
          SampleEvery,   \* clock units between two score records of an employee (60 s)
          MaxLog,        \* bound: messages per partition
          MaxNow,        \* bound: last instant
          MaxFaults,     \* bound: failed steps
          MaxRestarts    \* bound: restarts of the process

ASSUME KeyAssumption == Key \in [Accounts -> Partitions]
ASSUME SeededAssumption == Seeded \subseteq Accounts
ASSUME JunkAssumption == Junk \notin Accounts
ASSUME NumbersAssumption == /\ Scores \subseteq Nat \ {0} /\ Threshold \in Nat
                            /\ SampleEvery \in Nat \ {0}
ASSUME BoundsAssumption == /\ MaxLog \in Nat /\ MaxNow \in Nat
                           /\ MaxFaults \in Nat /\ MaxRestarts \in Nat

VARIABLES log,          \* the messages of each partition
          committed,    \* the group's committed offset in each, NoOffset at first
          stored,       \* offset the client would commit next, NoOffset if none
          position,     \* messages of each partition passed by the consumer
          latest,       \* where the last start without an offset began (history)
          process,      \* the process and its consumer task
          handler,      \* where _handle_event stands
          counted,      \* Redis deltas: how often an event is in live_n
          accessed,     \* Neo4j: how often an event is in the access counts
          history,      \* score_history rows
          lastRecord,   \* EventConsumer._last_score_record
          inserted,     \* new alerts
          newest,       \* score each account's newest alert was inserted with
          fired,        \* replay:stats alerts_fired
          graphScore,   \* Neo4j: risk_score of the account's employee
          narrated,     \* narrative tasks created
          now,          \* wall clock
          faults,       \* failed steps so far
          crashes,      \* crashes so far
          restarts      \* restarts so far

kafkaVars == <<log, committed, stored, position, latest>>
effectVars == <<counted, accessed, history, lastRecord, inserted, newest, fired,
                graphScore, narrated>>
vars == <<kafkaVars, process, handler, effectVars, now, faults, crashes, restarts>>

NoOffset == -1
Offsets == 1 .. MaxLog
Rested == [pc |-> "rest"]

\* The await _handle_event is suspended at.
Handler ==
  {Rested} \union
  [pc : {"delta", "graph", "score", "record", "recording", "alert", "fired", "graphScore"},
   part : Partitions, off : Offsets, acct : Accounts, score : Scores \union {0},
   checked : Nat]

Init ==
  /\ log = [p \in Partitions |-> <<>>]
  /\ committed = [p \in Partitions |-> NoOffset]
  /\ stored = [p \in Partitions |-> NoOffset]
  /\ position = [p \in Partitions |-> 0]
  /\ latest = [p \in Partitions |-> 0]
  /\ process = "joining"
  /\ handler = Rested
  /\ counted = [p \in Partitions |-> [o \in Offsets |-> 0]]
  /\ accessed = [p \in Partitions |-> [o \in Offsets |-> 0]]
  /\ history = <<>>
  /\ lastRecord = [a \in Accounts |-> -SampleEvery]
  /\ inserted = 0
  /\ newest = [a \in Accounts |-> 0]
  /\ fired = 0
  /\ graphScore = [a \in Accounts |-> 0]
  /\ narrated = 0
  /\ now = 0 /\ faults = 0 /\ crashes = 0 /\ restarts = 0

\* The variables hold what the brokers, the stores and the task can hold.
TypeOK ==
  /\ log \in [Partitions -> {msgs \in Seq(Accounts \union {Junk}) : Len(msgs) <= MaxLog}]
  /\ committed \in [Partitions -> Nat \union {NoOffset}]
  /\ stored \in [Partitions -> Nat \union {NoOffset}]
  /\ position \in [Partitions -> Nat]
  /\ latest \in [Partitions -> Nat]
  /\ process \in {"joining", "running", "stopping", "closing", "dead", "down"}
  /\ handler \in Handler
  /\ counted \in [Partitions -> [Offsets -> Nat]]
  /\ accessed \in [Partitions -> [Offsets -> Nat]]
  /\ history \in Seq([acct : Accounts, at : Nat])
  /\ lastRecord \in [Accounts -> Nat \union {-SampleEvery}]
  /\ inserted \in Nat /\ fired \in Nat /\ narrated \in Nat
  /\ newest \in [Accounts -> Scores \union {0}]
  /\ graphScore \in [Accounts -> Scores \union {0}]
  /\ now \in Nat /\ faults \in Nat /\ crashes \in Nat /\ restarts \in Nat
-----------------------------------------------------------------------------
(* Kafka and the clock. *)

\* The replay, or another producer, publishes an event.
Produce(p, m) ==
  /\ Len(log[p]) < MaxLog
  /\ m \in Accounts => Key[m] = p
  /\ log' = [log EXCEPT ![p] = Append(@, m)]
  /\ UNCHANGED <<committed, stored, position, latest, process, handler, effectVars,
                 now, faults, crashes, restarts>>

Larger(a, b) == IF a > b THEN a ELSE b

\* The client's background commit.
AutoCommit(p) ==
  /\ process \in {"running", "stopping", "closing"}
  /\ stored[p] > committed[p]
  /\ committed' = [committed EXCEPT ![p] = stored[p]]
  /\ UNCHANGED <<log, stored, position, latest, process, handler, effectVars,
                 now, faults, crashes, restarts>>

Tick ==
  /\ now < MaxNow
  /\ now' = now + 1
  /\ UNCHANGED <<kafkaVars, process, handler, effectVars, faults, crashes, restarts>>
-----------------------------------------------------------------------------
(* _run and the process. *)

\* Where the group starts in a partition.
Begin(p) == IF committed[p] = NoOffset THEN Len(log[p]) ELSE committed[p]

\* The first polls join the group and are assigned the partitions.
Join ==
  /\ process = "joining"
  /\ position' = [p \in Partitions |-> Begin(p)]
  /\ latest' = [p \in Partitions |-> IF committed[p] = NoOffset THEN Len(log[p]) ELSE latest[p]]
  /\ process' = "running"
  /\ UNCHANGED <<log, committed, stored, handler, effectVars, now, faults, crashes, restarts>>

Event(p, o, a) ==
  [pc |-> "delta", part |-> p, off |-> o, acct |-> a, score |-> 0, checked |-> 0]

\* poll returns the next message of a partition; junk is skipped.  A poll
\* under way when the stop event is set still has its message handled.
Poll(p) ==
  /\ process \in {"running", "stopping"} /\ handler = Rested
  /\ position[p] < Len(log[p])
  /\ LET o == position[p] + 1
     IN /\ position' = [position EXCEPT ![p] = o]
        /\ stored' = [stored EXCEPT ![p] = o]
        /\ handler' = IF log[p][o] = Junk THEN Rested ELSE Event(p, o, log[p][o])
  /\ process' = IF process = "stopping" THEN "closing" ELSE process
  /\ UNCHANGED <<log, committed, latest, effectVars, now, faults, crashes, restarts>>

\* poll raises, or a message is no UTF-8: the task ends through its finally
\* clause, and nothing starts it again while the process lives.
ConsumerDies ==
  /\ faults < MaxFaults
  /\ process = "running" /\ handler = Rested
  /\ process' = "dead"
  /\ committed' = [p \in Partitions |-> Larger(stored[p], committed[p])]
  /\ faults' = faults + 1
  /\ UNCHANGED <<log, stored, position, latest, handler, effectVars, now, crashes, restarts>>

\* Fault: the finally clause does not close the consumer.
CommittedAtClose_Not(p) == committed[p]

\* Consumer.close commits what is stored.
CommittedAtClose(p) == Larger(stored[p], committed[p])

\* The lifespan ends: stop sets the stop event.  Only a task that polls its
\* partitions can have one more message returned.
Stop ==
  /\ restarts < MaxRestarts
  /\ process \in {"joining", "running", "dead"}
  /\ process' = IF process = "running" THEN "stopping" ELSE "closing"
  /\ UNCHANGED <<kafkaVars, handler, effectVars, now, faults, crashes, restarts>>

\* Fault: stop does not wait for the task.
StopReady_Always == TRUE

\* Fault: the loop does not look at the stop event.
StopReady_Never == FALSE

\* The event in hand is handled to its end.
StopReady == handler = Rested

\* The loop sees the stop event, the finally clause closes the consumer.
StopEnds ==
  /\ process \in {"stopping", "closing"} /\ StopReady
  /\ committed' = [p \in Partitions |-> CommittedAtClose(p)]
  /\ process' = "down"
  /\ handler' = Rested
  /\ UNCHANGED <<log, stored, position, latest, effectVars, now, faults, crashes, restarts>>

\* Five seconds were not enough: the event in hand is cancelled where it is,
\* and its offset is committed all the same.
StopTimesOut ==
  /\ faults < MaxFaults
  /\ process \in {"stopping", "closing"} /\ handler # Rested
  /\ committed' = [p \in Partitions |-> CommittedAtClose(p)]
  /\ process' = "down"
  /\ handler' = Rested
  /\ faults' = faults + 1
  /\ UNCHANGED <<log, stored, position, latest, effectVars, now, crashes, restarts>>

\* The process dies between two steps; nothing is committed.
Crash ==
  /\ restarts < MaxRestarts
  /\ process # "down"
  /\ process' = "down"
  /\ handler' = Rested
  /\ crashes' = crashes + 1
  /\ UNCHANGED <<kafkaVars, effectVars, now, faults, restarts>>

\* docker restarts the backend; what the consumer kept in memory is gone.
Restart ==
  /\ process = "down"
  /\ process' = "joining"
  /\ stored' = [p \in Partitions |-> NoOffset]
  /\ lastRecord' = [a \in Accounts |-> -SampleEvery]
  /\ restarts' = restarts + 1
  /\ UNCHANGED <<log, committed, position, latest, handler, counted, accessed, history,
                 inserted, newest, fired, graphScore, narrated, now, faults, crashes>>
-----------------------------------------------------------------------------
(* _handle_event, one action per await that writes. *)

At(pc) == handler.pc = pc
Proceed(pc) == handler' = [handler EXCEPT !.pc = pc]
Counted(f) == [f EXCEPT ![handler.part][handler.off] = @ + 1]

\* apply_event_delta
Delta ==
  /\ At("delta")
  /\ counted' = Counted(counted)
  /\ Proceed("graph")
  /\ UNCHANGED <<kafkaVars, process, accessed, history, lastRecord, inserted, newest,
                 fired, graphScore, narrated, now, faults, crashes, restarts>>

\* Fault: ON CREATE counts the event, and so does the SET after it.
Accessed_CreatedAtOne == Counted(Counted(accessed))

Accessed == Counted(accessed)

\* upsert_event
Graph ==
  /\ At("graph")
  /\ accessed' = Accessed
  /\ Proceed("score")
  /\ UNCHANGED <<kafkaVars, process, counted, history, lastRecord, inserted, newest,
                 fired, graphScore, narrated, now, faults, crashes, restarts>>

\* features_for_scoring, score, remember_score and the tick: an account
\* that is not seeded, or a score below the threshold, ends it here.
Score(s) ==
  /\ At("score")
  /\ handler' = IF handler.acct \in Seeded /\ s >= Threshold
                THEN [handler EXCEPT !.pc = "record", !.score = s]
                ELSE Rested
  /\ UNCHANGED <<kafkaVars, process, effectVars, now, faults, crashes, restarts>>

RecordDue(a) == now - lastRecord[a] >= SampleEvery

\* _maybe_record_score up to its await: the time is kept before the commit.
Record ==
  /\ At("record")
  /\ IF RecordDue(handler.acct)
     THEN /\ lastRecord' = [lastRecord EXCEPT ![handler.acct] = now]
          /\ handler' = [handler EXCEPT !.pc = "recording", !.checked = now]
     ELSE /\ handler' = [handler EXCEPT !.pc = "alert", !.checked = now]
          /\ UNCHANGED lastRecord
  /\ UNCHANGED <<kafkaVars, process, counted, accessed, history, inserted, newest,
                 fired, graphScore, narrated, now, faults, crashes, restarts>>

\* Fault: the session is closed without a commit.
Recorded_Not == history

Recorded == Append(history, [acct |-> handler.acct, at |-> now])

RecordCommit ==
  /\ At("recording")
  /\ history' = Recorded
  /\ Proceed("alert")
  /\ UNCHANGED <<kafkaVars, process, counted, accessed, lastRecord, inserted, newest,
                 fired, graphScore, narrated, now, faults, crashes, restarts>>

AlertInserted ==
  /\ inserted' = inserted + 1
  /\ newest' = [newest EXCEPT ![handler.acct] = handler.score]

\* create_or_update_alert, its commit and its broadcast: a new row, or a fold.
NewAlert ==
  /\ At("alert")
  /\ AlertInserted
  /\ Proceed("fired")
  /\ UNCHANGED <<kafkaVars, process, counted, accessed, history, lastRecord,
                 fired, graphScore, narrated, now, faults, crashes, restarts>>

\* Fault: a duplicate is counted and followed up like a new alert.
AfterFold_Fired == [handler EXCEPT !.pc = "fired"]

AfterFold == Rested

FoldedAlert ==
  /\ At("alert")
  /\ handler' = AfterFold
  /\ UNCHANGED <<kafkaVars, process, effectVars, now, faults, crashes, restarts>>

\* increment_replay_stat("alerts_fired", 1)
Fired ==
  /\ At("fired")
  /\ fired' = fired + 1
  /\ Proceed("graphScore")
  /\ UNCHANGED <<kafkaVars, process, counted, accessed, history, lastRecord, inserted,
                 newest, graphScore, narrated, now, faults, crashes, restarts>>

\* Fault: a lower score does not replace a higher one.
GraphScored_Highest == Larger(graphScore[handler.acct], handler.score)

GraphScored == handler.score

\* update_employee_score, then create_task(_generate_narrative_for).
GraphScore ==
  /\ At("graphScore")
  /\ graphScore' = [graphScore EXCEPT ![handler.acct] = GraphScored]
  /\ narrated' = narrated + 1
  /\ handler' = Rested
  /\ UNCHANGED <<kafkaVars, process, counted, accessed, history, lastRecord, inserted,
                 newest, fired, now, faults, crashes, restarts>>

\* Redis or Postgres fails the await: _run logs it and takes the next event.
\* What it wrote may have been carried out although the answer is lost; of a new
\* alert the refresh after its commit may fail, too.
StepFails ==
  /\ faults < MaxFaults
  /\ handler # Rested /\ handler.pc \notin {"graph", "graphScore", "record"}
  /\ counted' \in IF At("delta") THEN {counted, Counted(counted)} ELSE {counted}
  /\ fired' \in IF At("fired") THEN {fired, fired + 1} ELSE {fired}
  /\ history' \in IF At("recording") THEN {history, Recorded} ELSE {history}
  /\ UNCHANGED <<inserted, newest>> \/ (At("alert") /\ AlertInserted)
  /\ handler' = Rested
  /\ faults' = faults + 1
  /\ UNCHANGED <<kafkaVars, process, accessed, lastRecord, graphScore, narrated, now,
                 crashes, restarts>>

\* Neo4j fails, before or after it wrote: the handler goes on regardless.
GraphFails ==
  /\ faults < MaxFaults
  /\ \/ /\ At("graph")
        /\ Proceed("score")
        /\ accessed' \in {accessed, Accessed}
        /\ UNCHANGED <<graphScore, narrated>>
     \/ /\ At("graphScore")
        /\ handler' = Rested
        /\ graphScore' \in {graphScore, [graphScore EXCEPT ![handler.acct] = GraphScored]}
        /\ narrated' = narrated + 1
        /\ UNCHANGED accessed
  /\ faults' = faults + 1
  /\ UNCHANGED <<kafkaVars, process, counted, history, lastRecord, inserted,
                 newest, fired, now, crashes, restarts>>

HandlerStep ==
  \/ Delta \/ Graph \/ (\E s \in Scores : Score(s)) \/ Record \/ RecordCommit
  \/ NewAlert \/ FoldedAlert \/ Fired \/ GraphScore

Next ==
  \/ \E p \in Partitions, m \in Accounts \union {Junk} : Produce(p, m)
  \/ \E p \in Partitions : AutoCommit(p)
  \/ Tick
  \/ Join
  \/ \E p \in Partitions : Poll(p)
  \/ HandlerStep
  \/ Stop \/ StopEnds
  \/ Crash \/ Restart
  \/ ConsumerDies \/ StopTimesOut \/ StepFails \/ GraphFails

Spec == Init /\ [][Next]_vars

\* The task runs when it can, the client commits, docker restarts the process.
Fairness ==
  /\ WF_vars(Join) /\ WF_vars(HandlerStep) /\ WF_vars(StopEnds) /\ WF_vars(Restart)
  /\ \A p \in Partitions : WF_vars(Poll(p)) /\ WF_vars(AutoCommit(p))
FairSpec == Spec /\ Fairness
-----------------------------------------------------------------------------
(* Properties. *)

InHand(p, o) == handler # Rested /\ handler.part = p /\ handler.off = o

\* A repeated event costs a crash: stops, cancelled handlers and failed steps
\* never count an event twice (close commits what is stored).
RepeatsNeedCrash ==
  \A p \in Partitions, o \in Offsets : counted[p][o] <= 1 + crashes

\* An event published after the group's start and passed by the consumer is
\* counted, or a step failed or the process crashed: a stop loses none.
LossNeedsFault ==
  faults = 0 /\ crashes = 0 =>
    \A p \in Partitions : \A o \in latest[p] + 1 .. position[p] :
      log[p][o] # Junk /\ ~InHand(p, o) => counted[p][o] > 0

\* The deltas and the graph count the same events, whatever is repeated: they
\* differ by the event in hand, by failures and by crashes only.
GraphFollowsDeltas ==
  \A p \in Partitions, o \in Offsets :
    /\ accessed[p][o] <= counted[p][o]
    /\ counted[p][o] - accessed[p][o] <=
         faults + crashes + (IF InHand(p, o) THEN 1 ELSE 0)

RowsOf(a) == {i \in DOMAIN history : history[i].acct = a}

\* A score on its way to an alert has left a record within the minute before
\* it was looked at, unless a step failed or a process ended.  The period is that of
\* the code; ARCHITECTURE.md says that the history is sampled hourly during replay.
ScoreLeavesHistory ==
  handler.pc \in {"alert", "fired", "graphScore"} /\ faults = 0 =>
    \E i \in RowsOf(handler.acct) : history[i].at + SampleEvery > handler.checked

\* New alerts are counted and followed up once each; each one that is not
\* costs a failure or a crash.
AlertsFollowedUp ==
  /\ narrated <= fired /\ fired <= inserted
  /\ inserted - narrated <=
       faults + crashes + (IF handler.pc \in {"fired", "graphScore"} THEN 1 ELSE 0)

\* The graph shows the score of the account's newest alert.
GraphShowsNewest ==
  faults = 0 /\ crashes = 0 /\ handler.pc \notin {"fired", "graphScore"} =>
    graphScore = newest

\* What an alert leaves in the other stores, before and after it.
AlertsLeaveTraces == ScoreLeavesHistory /\ GraphShowsNewest

\* Everything published is passed and committed in the end, through stops,
\* crashes and restarts, as long as the consumer task lives.
Drains ==
  <>[](\/ process = "dead"
       \/ \A p \in Partitions : /\ position[p] = Len(log[p])
                                /\ position[p] > latest[p] => committed[p] = position[p])
=============================================================================
