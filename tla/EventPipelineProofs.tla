-------------------------- MODULE EventPipelineProofs --------------------------
(***************************************************************************)
(* Proofs about EventPipeline: type correctness, and what stops, cancelled *)
(* handlers, failed steps, crashes and restarts can cost: events repeated, *)
(* events lost, counts that differ between stores, alerts not followed up. *)
(***************************************************************************)
EXTENDS EventPipeline, TLAPS, SequenceTheorems

Stages == {"delta", "graph", "score", "record", "recording", "alert", "fired", "graphScore"}
Working == [pc : Stages, part : Partitions, off : Offsets, acct : Accounts,
            score : Scores \union {0}, checked : Nat]

\* The handler rests, or works on one event.
LEMMA Handling ==
  ASSUME TypeOK
  PROVE  /\ handler # Rested => handler \in Working
         /\ handler = Rested <=> handler.pc = "rest"
         /\ handler # Rested => handler.pc \in Stages
BY DEF TypeOK, Handler, Rested, Working, Stages

LEMMA Proceeding ==
  ASSUME handler \in Working, NEW pc \in Stages, Proceed(pc)
  PROVE  /\ handler' \in Working /\ handler'.pc = pc
         /\ handler'.part = handler.part /\ handler'.off = handler.off
         /\ handler'.acct = handler.acct /\ handler'.score = handler.score
         /\ handler'.checked = handler.checked
BY DEF Proceed, Working

\* Counting an event changes its own count only.
LEMMA CountedOnce ==
  ASSUME handler \in Working, NEW f \in [Partitions -> [Offsets -> Nat]]
  PROVE  /\ Counted(f) \in [Partitions -> [Offsets -> Nat]]
         /\ Counted(f)[handler.part][handler.off] = f[handler.part][handler.off] + 1
         /\ \A p \in Partitions, o \in Offsets :
              p # handler.part \/ o # handler.off => Counted(f)[p][o] = f[p][o]
<1>1. handler.part \in Partitions /\ handler.off \in Offsets
  BY DEF Working
<1> DEFINE row == [f[handler.part] EXCEPT ![handler.off] = f[handler.part][handler.off] + 1]
<1>2. Counted(f) = [f EXCEPT ![handler.part] = row]
  BY DEF Counted
<1>3. row \in [Offsets -> Nat]
  BY <1>1
<1>4. row[handler.off] = f[handler.part][handler.off] + 1
      /\ \A o \in Offsets : o # handler.off => row[o] = f[handler.part][o]
  BY <1>1
<1> HIDE DEF row
<1> QED
  BY <1>1, <1>2, <1>3, <1>4
-----------------------------------------------------------------------------
(* Type correctness                                                        *)

LEMMA InitType == Init => TypeOK
<1> SUFFICES ASSUME Init PROVE TypeOK
  OBVIOUS
<1>1. <<>> \in {msgs \in Seq(Accounts \union {Junk}) : Len(msgs) <= MaxLog}
  BY BoundsAssumption
<1>2. /\ log \in [Partitions -> {msgs \in Seq(Accounts \union {Junk}) : Len(msgs) <= MaxLog}]
      /\ committed \in [Partitions -> Nat \union {NoOffset}]
      /\ stored \in [Partitions -> Nat \union {NoOffset}]
      /\ position \in [Partitions -> Nat] /\ latest \in [Partitions -> Nat]
  BY <1>1 DEF Init
<1>3. /\ counted \in [Partitions -> [Offsets -> Nat]]
      /\ accessed \in [Partitions -> [Offsets -> Nat]]
  BY DEF Init
<1>4. /\ lastRecord \in [Accounts -> Nat \union {-SampleEvery}]
      /\ newest \in [Accounts -> Scores \union {0}]
      /\ graphScore \in [Accounts -> Scores \union {0}]
  BY DEF Init
<1>5. history \in Seq([acct : Accounts, at : Nat])
  BY DEF Init
<1> QED
  BY <1>2, <1>3, <1>4, <1>5 DEF Init, TypeOK, Handler

LEMMA KafkaType ==
  ASSUME TypeOK,
         \/ \E p \in Partitions, m \in Accounts \union {Junk} : Produce(p, m)
         \/ \E p \in Partitions : AutoCommit(p) \/ Poll(p)
         \/ Tick \/ Join
  PROVE  TypeOK'
<1> USE DEF TypeOK, effectVars, kafkaVars
<1>1. ASSUME NEW p \in Partitions, NEW m \in Accounts \union {Junk}, Produce(p, m) PROVE TypeOK'
  <2>1. log[p] \in Seq(Accounts \union {Junk}) /\ Len(log[p]) \in Nat
    OBVIOUS
  <2>2. Append(log[p], m) \in Seq(Accounts \union {Junk}) /\ Len(Append(log[p], m)) = Len(log[p]) + 1
    BY <2>1, AppendProperties
  <2>3. log' = [log EXCEPT ![p] = Append(log[p], m)] /\ Len(log[p]) < MaxLog
    BY <1>1 DEF Produce
  <2>4. log' \in [Partitions -> {msgs \in Seq(Accounts \union {Junk}) : Len(msgs) <= MaxLog}]
    BY <2>1, <2>2, <2>3, BoundsAssumption
  <2> QED
    BY <1>1, <2>4 DEF Produce
<1>2. ASSUME NEW p \in Partitions, AutoCommit(p) PROVE TypeOK'
  <2>1. committed' \in [Partitions -> Nat \union {NoOffset}]
    BY <1>2 DEF AutoCommit
  <2> QED
    BY <1>2, <2>1 DEF AutoCommit
<1>3. ASSUME NEW p \in Partitions, Poll(p) PROVE TypeOK'
  <2> DEFINE o == position[p] + 1
  <2>1. o \in Nat /\ o \in Offsets /\ o \in 1..Len(log[p]) /\ log[p] \in Seq(Accounts \union {Junk})
    BY <1>3, BoundsAssumption DEF Poll, Offsets
  <2>2. log[p][o] \in Accounts \union {Junk}
    BY <2>1, ElementOfSeq
  <2>3. handler' \in Handler
    <3>1. CASE log[p][o] = Junk
      BY <1>3, <3>1 DEF Poll, Handler
    <3>2. CASE log[p][o] # Junk
      BY <1>3, <2>1, <2>2, <3>2 DEF Poll, Handler, Event
    <3> QED
      BY <3>1, <3>2
  <2>4. position' \in [Partitions -> Nat] /\ stored' \in [Partitions -> Nat \union {NoOffset}]
    BY <1>3, <2>1 DEF Poll
  <2> QED
    BY <1>3, <2>3, <2>4 DEF Poll
<1>4. CASE Tick
  BY <1>4 DEF Tick
<1>5. CASE Join
  <2>1. \A p \in Partitions : Len(log[p]) \in Nat /\ Begin(p) \in Nat
    BY DEF Begin
  <2>2. position' \in [Partitions -> Nat] /\ latest' \in [Partitions -> Nat]
    BY <1>5, <2>1 DEF Join
  <2> QED
    BY <1>5, <2>2 DEF Join
<1> QED
  BY <1>1, <1>2, <1>3, <1>4, <1>5

LEMMA ProcessType ==
  ASSUME TypeOK, Stop \/ StopEnds \/ StopTimesOut \/ ConsumerDies \/ Crash \/ Restart
  PROVE  TypeOK'
<1> USE DEF TypeOK, effectVars, kafkaVars
<1>1. [p \in Partitions |-> Larger(stored[p], committed[p])] \in [Partitions -> Nat \union {NoOffset}]
  BY DEF Larger
<1>2. CASE Stop
  BY <1>2 DEF Stop
<1>3. CASE StopEnds
  BY <1>1, <1>3 DEF StopEnds, CommittedAtClose, Handler
<1>4. CASE StopTimesOut
  BY <1>1, <1>4 DEF StopTimesOut, CommittedAtClose, Handler
<1>5. CASE ConsumerDies
  BY <1>1, <1>5 DEF ConsumerDies
<1>6. CASE Crash
  BY <1>6 DEF Crash, Handler
<1>7. CASE Restart
  BY <1>7 DEF Restart
<1> QED
  BY <1>2, <1>3, <1>4, <1>5, <1>6, <1>7

LEMMA HandlerType ==
  ASSUME TypeOK, HandlerStep \/ StepFails \/ GraphFails
  PROVE  TypeOK'
<1>1. handler # Rested
  BY Handling DEF HandlerStep, StepFails, GraphFails, Delta, Graph, Score, Record, RecordCommit,
                  NewAlert, AlertInserted, FoldedAlert, Fired, GraphScore, At
<1>2. handler \in Working
  BY <1>1, Handling
<1>3. /\ handler.part \in Partitions /\ handler.off \in Offsets /\ handler.acct \in Accounts
      /\ handler.score \in Scores \union {0} /\ handler.checked \in Nat
  BY <1>2 DEF Working
<1>4. Rested \in Handler /\ \A h \in Working : h \in Handler
  BY DEF Handler, Working, Stages
<1>5. \A pc \in Stages : Proceed(pc) => handler' \in Handler
  BY <1>2, <1>4, Proceeding
<1>6. /\ counted \in [Partitions -> [Offsets -> Nat]] /\ accessed \in [Partitions -> [Offsets -> Nat]]
      /\ Counted(counted) \in [Partitions -> [Offsets -> Nat]]
      /\ Counted(accessed) \in [Partitions -> [Offsets -> Nat]]
  BY <1>2, CountedOnce DEF TypeOK
<1>7. [graphScore EXCEPT ![handler.acct] = handler.score] \in [Accounts -> Scores \union {0}]
  BY <1>3 DEF TypeOK
<1> USE DEF TypeOK, effectVars, kafkaVars
<1>8. CASE Delta
  BY <1>5, <1>6, <1>8 DEF Delta, Stages
<1>9. CASE Graph
  BY <1>5, <1>6, <1>9 DEF Graph, Accessed, Stages
<1>10. ASSUME NEW s \in Scores, Score(s) PROVE TypeOK'
  <2>1. [handler EXCEPT !.pc = "record", !.score = s] \in Working
    BY <1>2 DEF Working, Stages
  <2>2. handler' \in Handler
    BY <1>4, <1>10, <2>1 DEF Score
  <2> QED
    BY <1>10, <2>2 DEF Score
<1>11. CASE Record
  <2>1. \A pc \in Stages : [handler EXCEPT !.pc = pc, !.checked = now] \in Working
    BY <1>2 DEF Working
  <2>2. handler' \in Handler
    BY <1>4, <1>11, <2>1 DEF Record, Stages
  <2>3. lastRecord' \in [Accounts -> Nat \union {-SampleEvery}]
    BY <1>3, <1>11 DEF Record
  <2> QED
    BY <1>11, <2>2, <2>3 DEF Record
<1>12. CASE RecordCommit
  <2>1. history' \in Seq([acct : Accounts, at : Nat])
    BY <1>3, <1>12 DEF RecordCommit, Recorded
  <2> QED
    BY <1>5, <1>12, <2>1 DEF RecordCommit, Stages
<1>13. CASE NewAlert
  <2>1. newest' \in [Accounts -> Scores \union {0}]
    BY <1>3, <1>13 DEF NewAlert, AlertInserted
  <2> QED
    BY <1>5, <1>13, <2>1 DEF NewAlert, AlertInserted, Stages
<1>14. CASE FoldedAlert
  BY <1>4, <1>14 DEF FoldedAlert, AfterFold
<1>15. CASE Fired
  BY <1>5, <1>15 DEF Fired, Stages
<1>16. CASE GraphScore
  BY <1>4, <1>7, <1>16 DEF GraphScore, GraphScored
<1>17. CASE StepFails
  <2>1. counted' \in [Partitions -> [Offsets -> Nat]]
    <3>1. counted' = counted \/ counted' = Counted(counted)
      BY <1>17 DEF StepFails
    <3> QED
      BY <1>6, <3>1
  <2>2. fired' \in Nat
    <3>1. fired' = fired \/ fired' = fired + 1
      BY <1>17 DEF StepFails
    <3> QED
      BY <3>1
  <2>4. history' \in Seq([acct : Accounts, at : Nat])
    <3>1. history' = history \/ history' = Recorded
      BY <1>17 DEF StepFails
    <3>2. Recorded \in Seq([acct : Accounts, at : Nat])
      BY <1>3 DEF Recorded
    <3> QED
      BY <3>1, <3>2
  <2>5. inserted' \in Nat /\ newest' \in [Accounts -> Scores \union {0}]
    <3>1. UNCHANGED <<inserted, newest>> \/ AlertInserted
      BY <1>17 DEF StepFails
    <3>2. [newest EXCEPT ![handler.acct] = handler.score] \in [Accounts -> Scores \union {0}]
      BY <1>3
    <3>3. CASE UNCHANGED <<inserted, newest>>
      BY <3>3
    <3>4. CASE AlertInserted
      BY <3>2, <3>4 DEF AlertInserted
    <3> QED
      BY <3>1, <3>3, <3>4
  <2>3. /\ UNCHANGED <<kafkaVars, process, accessed, lastRecord, graphScore, narrated, now,
                        crashes, restarts>>
        /\ faults' = faults + 1 /\ handler' = Rested
    BY <1>17 DEF StepFails
  <2> QED
    BY <1>4, <2>1, <2>2, <2>3, <2>4, <2>5
<1>18. CASE GraphFails
  <2>1. CASE At("graph") /\ Proceed("score") /\ accessed' \in {accessed, Accessed}
             /\ UNCHANGED <<graphScore, narrated>>
    <3>1. accessed' \in [Partitions -> [Offsets -> Nat]]
      BY <1>6, <2>1 DEF Accessed
    <3>2. handler' \in Handler
      BY <1>5, <2>1 DEF Stages
    <3>3. /\ UNCHANGED <<kafkaVars, process, counted, history, lastRecord, inserted, newest,
                          fired, now, crashes, restarts, graphScore, narrated>>
          /\ faults' = faults + 1
      BY <1>18, <2>1 DEF GraphFails
    <3> QED
      BY <3>1, <3>2, <3>3
  <2>2. CASE /\ handler' = Rested /\ narrated' = narrated + 1 /\ UNCHANGED accessed
             /\ graphScore' \in {graphScore, [graphScore EXCEPT ![handler.acct] = GraphScored]}
    <3>1. graphScore' \in [Accounts -> Scores \union {0}]
      BY <1>7, <2>2 DEF GraphScored
    <3> QED
      BY <1>4, <1>18, <2>2, <3>1 DEF GraphFails
  <2> QED
    BY <1>18, <2>1, <2>2 DEF GraphFails
<1> QED
  BY <1>8, <1>9, <1>10, <1>11, <1>12, <1>13, <1>14, <1>15, <1>16, <1>17, <1>18 DEF HandlerStep

LEMMA NextType == TypeOK /\ [Next]_vars => TypeOK'
<1> SUFFICES ASSUME TypeOK, [Next]_vars PROVE TypeOK'
  OBVIOUS
<1>1. CASE UNCHANGED vars
  BY <1>1 DEF TypeOK, vars, kafkaVars, effectVars
<1> QED
  BY <1>1, KafkaType, ProcessType, HandlerType DEF Next

\* The variables hold what the brokers, the stores and the task can hold, for
\* every number of partitions, accounts, faults and restarts.
THEOREM TypeCorrect == Spec => []TypeOK
BY InitType, NextType, PTL DEF Spec
-----------------------------------------------------------------------------
(* Offsets                                                                 *)

\* Steps of the handler stay with its event and leave the consumer alone.
LEMMA HandlerMoves ==
  ASSUME TypeOK, HandlerStep \/ StepFails \/ GraphFails
  PROVE  /\ handler \in Working /\ handler # Rested
         /\ UNCHANGED <<log, committed, stored, position, latest, process, crashes>>
         /\ handler' = Rested \/ /\ handler' \in Working
                                 /\ handler'.part = handler.part /\ handler'.off = handler.off
                                 /\ handler'.acct = handler.acct
<1>1. handler # Rested
  BY Handling DEF HandlerStep, StepFails, GraphFails, Delta, Graph, Score, Record, RecordCommit,
                  NewAlert, AlertInserted, FoldedAlert, Fired, GraphScore, At
<1>2. handler \in Working
  BY <1>1, Handling
<1>3. UNCHANGED <<log, committed, stored, position, latest, process, crashes>>
  BY DEF HandlerStep, StepFails, GraphFails, Delta, Graph, Score, Record, RecordCommit,
         NewAlert, AlertInserted, FoldedAlert, Fired, GraphScore, kafkaVars
<1> DEFINE Same == /\ handler' \in Working
                   /\ handler'.part = handler.part /\ handler'.off = handler.off
                   /\ handler'.acct = handler.acct
<1>4. \A pc \in Stages : Proceed(pc) => Same
  BY <1>2, Proceeding
<1>5. ASSUME NEW s \in Scores, Score(s) PROVE handler' = Rested \/ Same
  BY <1>2, <1>5 DEF Score, Working, Stages
<1>6. ASSUME Record PROVE Same
  <2>1. handler' = [handler EXCEPT !.pc = "recording", !.checked = now]
        \/ handler' = [handler EXCEPT !.pc = "alert", !.checked = now]
    BY <1>6 DEF Record
  <2>2. now \in Nat
    BY DEF TypeOK
  <2> QED
    BY <1>2, <2>1, <2>2 DEF Working, Stages
<1> HIDE DEF Same
<1>7. handler' = Rested \/ Same
  BY <1>4, <1>5, <1>6
  DEF HandlerStep, StepFails, GraphFails, Delta, Graph, RecordCommit, NewAlert, AlertInserted, FoldedAlert,
      AfterFold, Fired, GraphScore, Stages
<1> QED
  BY <1>1, <1>2, <1>3, <1>7 DEF Same

\* The client stores and commits offsets of messages it has passed, and the one
\* of the event in hand is stored.
OffsetsInv ==
  /\ \A p \in Partitions :
       stored[p] <= position[p] /\ committed[p] <= position[p] /\ position[p] <= Len(log[p])
  /\ process = "joining" => \A p \in Partitions : stored[p] = NoOffset
  /\ handler # Rested => /\ process \in {"running", "stopping", "closing"}
                         /\ handler.off <= stored[handler.part]

LEMMA NextOffsets == TypeOK /\ OffsetsInv /\ [Next]_vars => OffsetsInv'
<1> SUFFICES ASSUME TypeOK, OffsetsInv, [Next]_vars PROVE OffsetsInv'
  OBVIOUS
<1>0. /\ \A p \in Partitions : /\ stored[p] \in Int /\ committed[p] \in Int
                               /\ position[p] \in Nat /\ Len(log[p]) \in Nat
                               /\ log[p] \in Seq(Accounts \union {Junk})
      /\ NoOffset = -1
      /\ handler # Rested => handler \in Working /\ handler.part \in Partitions /\ handler.off \in Nat
  <2>1. handler # Rested => handler \in Working
    BY Handling
  <2>2. handler # Rested => handler.part \in Partitions /\ handler.off \in Nat
    BY <2>1 DEF Working, Offsets
  <2> QED
    BY <2>1, <2>2 DEF TypeOK, NoOffset
<1>1. CASE UNCHANGED <<log, committed, stored, position, process, handler>>
  BY <1>1 DEF OffsetsInv
<1>2. CASE HandlerStep \/ StepFails \/ GraphFails
  BY <1>2, HandlerMoves DEF OffsetsInv
<1>3. ASSUME NEW p \in Partitions, NEW m \in Accounts \union {Junk}, Produce(p, m) PROVE OffsetsInv'
  <2>1. /\ Len(log'[p]) = Len(log[p]) + 1
        /\ \A q \in Partitions : q # p => log'[q] = log[q]
    <3>1. log' = [log EXCEPT ![p] = Append(log[p], m)]
      BY <1>3 DEF Produce
    <3> QED
      BY <1>0, <3>1, AppendProperties DEF TypeOK
  <2>2. \A q \in Partitions : Len(log[q]) <= Len(log'[q])
    BY <1>0, <2>1
  <2>3. \A q \in Partitions : Len(log'[q]) \in Nat
    BY <1>0, <2>1
  <2> QED
    BY <1>0, <1>3, <2>2, <2>3 DEF Produce, OffsetsInv
<1>4. ASSUME NEW p \in Partitions, AutoCommit(p) PROVE OffsetsInv'
  BY <1>0, <1>4 DEF AutoCommit, OffsetsInv, TypeOK
<1>5. CASE Join
  <2>1. \A p \in Partitions : Begin(p) <= Len(log[p]) /\ committed[p] <= Begin(p) /\ NoOffset <= Begin(p)
    <3> SUFFICES ASSUME NEW p \in Partitions
                 PROVE  Begin(p) <= Len(log[p]) /\ committed[p] <= Begin(p) /\ NoOffset <= Begin(p)
      OBVIOUS
    <3>1. /\ committed[p] \in Int /\ committed[p] <= position[p] /\ position[p] <= Len(log[p])
          /\ position[p] \in Nat /\ Len(log[p]) \in Nat /\ NoOffset = -1
      BY <1>0 DEF OffsetsInv
    <3>2. committed[p] \in Nat \union {NoOffset}
      BY DEF TypeOK
    <3> QED
      BY <3>1, <3>2 DEF Begin
  <2> QED
    BY <1>0, <1>5, <2>1 DEF Join, OffsetsInv, NoOffset
<1>6. ASSUME NEW p \in Partitions, Poll(p) PROVE OffsetsInv'
  <2> DEFINE o == position[p] + 1
  <2>1. /\ o \in Nat /\ position[p] <= o /\ o <= Len(log[p])
        /\ position'[p] = o /\ stored'[p] = o
    BY <1>0, <1>6 DEF Poll, TypeOK
  <2>2. \A q \in Partitions : q # p => position'[q] = position[q] /\ stored'[q] = stored[q]
    BY <1>6 DEF Poll, TypeOK
  <2>3. handler' = Rested \/ (handler'.part = p /\ handler'.off = o)
    BY <1>6 DEF Poll, Event
  <2>4. process' \in {"running", "closing"} /\ UNCHANGED <<log, committed>>
    BY <1>6 DEF Poll
  <2> HIDE DEF o
  <2> QED
    BY <1>0, <2>1, <2>2, <2>3, <2>4 DEF OffsetsInv
<1>7. CASE Stop
  BY <1>7 DEF Stop, OffsetsInv, kafkaVars
<1>8. ASSUME /\ committed' = [p \in Partitions |-> Larger(stored[p], committed[p])]
             /\ handler' = Rested /\ process' # "joining"
             /\ UNCHANGED <<log, stored, position>>
      PROVE  OffsetsInv'
  BY <1>0, <1>8 DEF OffsetsInv, Larger
<1>9. CASE ConsumerDies \/ StopEnds \/ StopTimesOut
  BY <1>8, <1>9 DEF ConsumerDies, StopEnds, StopTimesOut, CommittedAtClose
<1>10. CASE Crash
  BY <1>10 DEF Crash, OffsetsInv, kafkaVars
<1>11. CASE Restart
  <2>1. handler = Rested
    BY <1>11 DEF Restart, OffsetsInv
  <2> QED
    BY <1>0, <1>11, <2>1 DEF Restart, OffsetsInv, NoOffset
<1> QED
  BY <1>1, <1>2, <1>3, <1>4, <1>5, <1>6, <1>7, <1>9, <1>10, <1>11
  DEF Next, vars, kafkaVars, Tick
-----------------------------------------------------------------------------
(* Repeats                                                                 *)

\* An event is counted by the first step of the handler, unless that step fails.
LEMMA HandlerCounts ==
  ASSUME TypeOK, HandlerStep \/ StepFails \/ GraphFails
  PROVE  /\ handler'.pc # "delta"
         /\ UNCHANGED counted \/ (handler.pc = "delta" /\ counted' = Counted(counted))
         /\ \/ faults' = faults + 1
            \/ faults' = faults /\ (handler.pc = "delta" => counted' = Counted(counted))
<1>1. handler \in Working /\ handler # Rested
  BY HandlerMoves
<1>2. handler'.pc # "delta"
  <2>1. \A pc \in Stages : Proceed(pc) => handler'.pc = pc
    BY <1>1, Proceeding
  <2>2. ASSUME NEW s \in Scores, Score(s) PROVE handler'.pc # "delta"
    BY <1>1, <2>2 DEF Score, Working, Rested
  <2>3. ASSUME Record PROVE handler'.pc # "delta"
    BY <1>1, <2>3 DEF Record, Working
  <2> QED
    BY <2>1, <2>2, <2>3
    DEF HandlerStep, StepFails, GraphFails, Delta, Graph, RecordCommit, NewAlert, AlertInserted, FoldedAlert,
        AfterFold, Fired, GraphScore, Stages, Rested
<1>3. UNCHANGED counted \/ (handler.pc = "delta" /\ counted' = Counted(counted))
  BY DEF HandlerStep, StepFails, GraphFails, Delta, Graph, Score, Record, RecordCommit,
         NewAlert, AlertInserted, FoldedAlert, Fired, GraphScore, effectVars, At
<1>4. \/ faults' = faults + 1
      \/ faults' = faults /\ (handler.pc = "delta" => counted' = Counted(counted))
  BY DEF HandlerStep, StepFails, GraphFails, Delta, Graph, Score, Record, RecordCommit,
         NewAlert, AlertInserted, FoldedAlert, Fired, GraphScore, At
<1> QED
  BY <1>2, <1>3, <1>4

\* An event counted more often than there were crashes lies below what the
\* group, or the client when it closes, has committed.
RepeatInv ==
  /\ RepeatsNeedCrash
  /\ handler.pc = "delta" => counted[handler.part][handler.off] <= crashes
  /\ \A p \in Partitions, o \in Offsets : counted[p][o] > crashes =>
       \/ o <= committed[p]
       \/ process \notin {"joining", "down"} /\ o <= stored[p]

LEMMA NextRepeats == TypeOK /\ OffsetsInv /\ RepeatInv /\ [Next]_vars => RepeatInv'
<1> SUFFICES ASSUME TypeOK, OffsetsInv, RepeatInv, [Next]_vars PROVE RepeatInv'
  OBVIOUS
<1>0. /\ \A p \in Partitions : stored[p] \in Int /\ committed[p] \in Int /\ position[p] \in Nat
      /\ \A p \in Partitions, o \in Offsets : counted[p][o] \in Nat
      /\ crashes \in Nat /\ Offsets \subseteq Nat \ {0}
      /\ NoOffset = -1
  <2>1. \A p \in Partitions : stored[p] \in Int /\ committed[p] \in Int /\ position[p] \in Nat
    BY DEF TypeOK, NoOffset
  <2>2. \A p \in Partitions, o \in Offsets : counted[p][o] \in Nat
    BY DEF TypeOK
  <2> QED
    BY <2>1, <2>2 DEF TypeOK, Offsets, NoOffset
<1> USE DEF RepeatInv, RepeatsNeedCrash
<1>1. CASE UNCHANGED <<committed, stored, process, handler, counted, crashes>>
  BY <1>1
<1>2. CASE HandlerStep \/ StepFails \/ GraphFails
  <2>1. /\ handler \in Working /\ handler # Rested
        /\ UNCHANGED <<log, committed, stored, position, process, crashes>>
    BY <1>2, HandlerMoves
  <2>2. handler'.pc # "delta"
    BY <1>2, HandlerCounts
  <2>3. CASE UNCHANGED counted
    BY <2>1, <2>2, <2>3
  <2>4. CASE handler.pc = "delta" /\ counted' = Counted(counted)
    <3>1. handler.part \in Partitions /\ handler.off \in Offsets
      BY <2>1 DEF Working
    <3>2. /\ counted'[handler.part][handler.off] = counted[handler.part][handler.off] + 1
          /\ \A p \in Partitions, o \in Offsets :
               p # handler.part \/ o # handler.off => counted'[p][o] = counted[p][o]
      BY <2>1, <2>4, CountedOnce DEF TypeOK
    <3>3. counted'[handler.part][handler.off] <= 1 + crashes
      <4>1. counted[handler.part][handler.off] \in Nat
        BY <1>0, <3>1
      <4>2. counted[handler.part][handler.off] <= crashes
        BY <2>4
      <4> QED
        BY <1>0, <3>1, <3>2, <4>1, <4>2
    <3>4. handler.off <= stored[handler.part] /\ process \notin {"joining", "down"}
      BY <2>1 DEF OffsetsInv
    <3> QED
      BY <2>1, <2>2, <3>1, <3>2, <3>3, <3>4
  <2>5. UNCHANGED counted \/ (handler.pc = "delta" /\ counted' = Counted(counted))
    BY <1>2, HandlerCounts
  <2> QED
    BY <2>3, <2>4, <2>5
<1>3. ASSUME NEW p \in Partitions, AutoCommit(p) PROVE RepeatInv'
  <2>1. /\ committed'[p] = stored[p] /\ stored[p] > committed[p]
        /\ \A q \in Partitions : q # p => committed'[q] = committed[q]
        /\ UNCHANGED <<stored, process, handler, counted, crashes>>
    BY <1>3 DEF AutoCommit, TypeOK, effectVars
  <2>2. \A q \in Partitions, o \in Offsets : o <= committed[q] => o <= committed'[q]
    BY <1>0, <2>1
  <2> QED
    BY <2>1, <2>2
<1>4. CASE Join
  <2>1. \A p \in Partitions : stored[p] = NoOffset
    BY <1>4 DEF Join, OffsetsInv
  <2> QED
    BY <1>0, <1>4, <2>1 DEF Join, NoOffset, effectVars
<1>5. ASSUME NEW p \in Partitions, Poll(p) PROVE RepeatInv'
  <2> DEFINE o == position[p] + 1
  <2>1. /\ stored'[p] = o /\ \A q \in Partitions : q # p => stored'[q] = stored[q]
        /\ UNCHANGED <<committed, counted, crashes>> /\ process' \notin {"joining", "down"}
    BY <1>5 DEF Poll, effectVars, TypeOK
  <2>2. stored[p] <= o /\ committed[p] < o
    BY <1>0 DEF OffsetsInv
  <2>3. o \in Offsets => counted[p][o] <= crashes
    BY <1>0, <2>2 DEF OffsetsInv
  <2>4. handler'.pc = "delta" => handler'.part = p /\ handler'.off = o /\ o \in Offsets
    <3>1. Len(log[p]) \in Nat /\ Len(log[p]) <= MaxLog
      BY DEF TypeOK
    <3>2. o \in 1..MaxLog
      BY <1>0, <1>5, <3>1, BoundsAssumption DEF Poll
    <3>3. handler' = Rested \/ (handler'.part = p /\ handler'.off = o)
      BY <1>5 DEF Poll, Event
    <3> QED
      BY <3>2, <3>3 DEF Rested, Offsets
  <2> HIDE DEF o
  <2>5. \A q \in Partitions, x \in Offsets : x <= stored[q] => x <= stored'[q]
    BY <1>0, <2>1, <2>2, <1>5 DEF TypeOK, Poll
  <2> QED
    BY <2>1, <2>3, <2>4, <2>5
<1>6. CASE Stop
  BY <1>6 DEF Stop, kafkaVars, effectVars
<1>7. ASSUME /\ committed' = [p \in Partitions |-> Larger(stored[p], committed[p])]
             /\ handler' = Rested
             /\ UNCHANGED <<stored, counted, crashes>>
      PROVE  RepeatInv'
  BY <1>0, <1>7 DEF Larger, Rested
<1>8. CASE ConsumerDies \/ StopEnds \/ StopTimesOut
  BY <1>7, <1>8 DEF ConsumerDies, StopEnds, StopTimesOut, CommittedAtClose, effectVars
<1>9. CASE Crash
  <2>1. ASSUME NEW p \in Partitions, NEW o \in Offsets
        PROVE  counted[p][o] <= 1 + crashes /\ ~(counted[p][o] > 1 + crashes)
    <3>1. counted[p][o] \in Nat /\ counted[p][o] <= 1 + crashes
      BY <1>0
    <3> HIDE DEF RepeatInv, RepeatsNeedCrash
    <3> QED
      BY <3>1, <1>0
  <2> QED
    BY <1>0, <1>9, <2>1 DEF Crash, Rested, kafkaVars, effectVars
<1>10. CASE Restart
  BY <1>10 DEF Restart
<1> QED
  BY <1>1, <1>2, <1>3, <1>4, <1>5, <1>6, <1>8, <1>9, <1>10
  DEF Next, vars, kafkaVars, effectVars, Tick, Produce

LEMMA InitOffsets == Init => OffsetsInv /\ RepeatInv
<1> SUFFICES ASSUME Init PROVE OffsetsInv /\ RepeatInv
  OBVIOUS
<1> QED
  BY DEF Init, OffsetsInv, RepeatInv, RepeatsNeedCrash, NoOffset, Rested

LEMMA OffsetsHold == Spec => []OffsetsInv
BY TypeCorrect, InitOffsets, NextOffsets, PTL DEF Spec

\* For every number of partitions, events, stops, failed steps and restarts: an
\* event is counted again only after a crash; neither a stop that waits, nor one
\* that cancels the event in hand, nor a failed step repeats one.
THEOREM RepeatsAreCrashes == Spec => []RepeatsNeedCrash
<1>1. RepeatInv => RepeatsNeedCrash
  BY DEF RepeatInv
<1> QED
  BY TypeCorrect, OffsetsHold, InitOffsets, NextRepeats, <1>1, PTL DEF Spec
-----------------------------------------------------------------------------
(* Losses                                                                  *)

LossInv ==
  /\ LossNeedsFault
  /\ faults = 0 /\ crashes = 0 /\ handler # Rested /\ handler.pc # "delta" =>
       counted[handler.part][handler.off] > 0

LEMMA NextLoss == TypeOK /\ OffsetsInv /\ LossInv /\ [Next]_vars => LossInv'
<1> SUFFICES ASSUME TypeOK, OffsetsInv, LossInv, [Next]_vars, faults' = 0, crashes' = 0
             PROVE  LossInv'
  BY DEF LossInv, LossNeedsFault
<1>0. /\ \A p \in Partitions : /\ committed[p] \in Int /\ latest[p] \in Nat
                               /\ position[p] \in Nat /\ Len(log[p]) \in Nat
                               /\ log[p] \in Seq(Accounts \union {Junk})
      /\ \A p \in Partitions, o \in Offsets : counted[p][o] \in Nat
      /\ faults \in Nat /\ crashes \in Nat
  <2>1. \A p \in Partitions : committed[p] \in Int
    BY DEF TypeOK, NoOffset
  <2>2. \A p \in Partitions, o \in Offsets : counted[p][o] \in Nat
    BY DEF TypeOK
  <2> QED
    BY <2>1, <2>2 DEF TypeOK
<1>00. handler # Rested => handler.part \in Partitions /\ handler.off \in Offsets
  BY Handling DEF Working
<1> USE DEF LossInv, LossNeedsFault, InHand
<1>1. CASE UNCHANGED <<log, position, latest, handler, counted, faults, crashes>>
  BY <1>1
<1>2. CASE HandlerStep \/ StepFails \/ GraphFails
  <2>1. /\ handler \in Working /\ handler # Rested
        /\ UNCHANGED <<log, position, latest, crashes>>
        /\ handler' = Rested \/ (handler'.part = handler.part /\ handler'.off = handler.off)
    BY <1>2, HandlerMoves
  <2>2. /\ handler'.pc # "delta" /\ faults = 0
        /\ handler.pc = "delta" => counted' = Counted(counted)
        /\ UNCHANGED counted \/ counted' = Counted(counted)
    BY <1>0, <1>2, HandlerCounts
  <2>3. \A p \in Partitions, o \in Offsets : counted'[p][o] \in Nat /\ counted[p][o] <= counted'[p][o]
    <3>1. \A p \in Partitions, o \in Offsets :
            \/ Counted(counted)[p][o] = counted[p][o]
            \/ Counted(counted)[p][o] = counted[p][o] + 1
      BY <2>1, CountedOnce DEF TypeOK
    <3> QED
      BY <1>0, <2>2, <3>1
  <2>4. counted'[handler.part][handler.off] > 0
    <3>1. Counted(counted)[handler.part][handler.off] = counted[handler.part][handler.off] + 1
      BY <2>1, CountedOnce DEF TypeOK
    <3>2. counted[handler.part][handler.off] \in Nat
      BY <1>0, <1>00, <2>1
    <3>3. CASE handler.pc = "delta"
      BY <2>2, <3>1, <3>2, <3>3
    <3>4. CASE handler.pc # "delta"
      <4>1. counted[handler.part][handler.off] > 0
        BY <2>1, <2>2, <3>4
      <4> QED
        BY <2>2, <3>1, <3>2, <4>1
    <3> QED
      BY <3>3, <3>4
  <2>5. \A p \in Partitions, o \in Offsets : counted[p][o] > 0 => counted'[p][o] > 0
    BY <1>0, <2>3
  <2>6. \A p \in Partitions : \A o \in latest[p] + 1 .. position[p] : o \in Offsets
    BY <1>0, BoundsAssumption DEF OffsetsInv, Offsets, TypeOK
  <2> QED
    BY <2>1, <2>2, <2>4, <2>5, <2>6
<1>3. ASSUME NEW p \in Partitions, NEW m \in Accounts \union {Junk}, Produce(p, m) PROVE LossInv'
  <2>1. log' = [log EXCEPT ![p] = Append(log[p], m)]
        /\ UNCHANGED <<position, latest, handler, counted, faults, crashes>>
    BY <1>3 DEF Produce, effectVars
  <2>2. \A o \in 1..Len(log[p]) : log'[p][o] = log[p][o]
    BY <1>0, <2>1, AppendProperties DEF TypeOK
  <2>3. \A q \in Partitions : \A o \in latest[q] + 1 .. position[q] : log'[q][o] = log[q][o]
    <3> SUFFICES ASSUME NEW q \in Partitions, NEW o \in latest[q] + 1 .. position[q]
                 PROVE  log'[q][o] = log[q][o]
      OBVIOUS
    <3>1. o \in 1..Len(log[q])
      BY <1>0 DEF OffsetsInv
    <3> QED
      BY <2>1, <2>2, <3>1 DEF TypeOK
  <2>4. ASSUME NEW q \in Partitions, NEW o \in latest'[q] + 1 .. position'[q],
               log'[q][o] # Junk /\ ~InHand(q, o)'
        PROVE  counted'[q][o] > 0
    <3>1. o \in latest[q] + 1 .. position[q]
      BY <2>1, <2>4
    <3>2. log[q][o] # Junk /\ ~InHand(q, o)
      BY <2>1, <2>3, <2>4, <3>1
    <3>3. faults = 0 /\ crashes = 0 /\ counted' = counted
      BY <2>1
    <3> QED
      BY <3>1, <3>2, <3>3
  <2>5. handler' = handler /\ counted' = counted /\ faults' = faults /\ crashes' = crashes
    BY <2>1
  <2> QED
    BY <2>4, <2>5
<1>4. CASE Join
  <2>1. /\ \A p \in Partitions : position'[p] = Begin(p)
        /\ \A p \in Partitions : latest'[p] = IF committed[p] = NoOffset THEN Len(log[p]) ELSE latest[p]
        /\ UNCHANGED <<log, handler, counted, faults, crashes>>
    BY <1>4 DEF Join, effectVars
  <2>2. \A p \in Partitions : \A o \in latest'[p] + 1 .. position'[p] :
          o \in latest[p] + 1 .. position[p]
    BY <1>0, <2>1 DEF Begin, OffsetsInv
  <2> QED
    BY <2>1, <2>2
<1>5. ASSUME NEW p \in Partitions, Poll(p) PROVE LossInv'
  <2> DEFINE o == position[p] + 1
  <2>1. /\ position'[p] = o /\ \A q \in Partitions : q # p => position'[q] = position[q]
        /\ UNCHANGED <<log, latest, counted, faults, crashes>> /\ handler = Rested
    BY <1>5 DEF Poll, effectVars, TypeOK
  <2>2. IF log[p][o] = Junk THEN handler' = Rested
        ELSE handler'.pc = "delta" /\ handler' # Rested /\ handler'.part = p /\ handler'.off = o
    BY <1>5 DEF Poll, Event, Rested
  <2>3. \A q \in Partitions : \A x \in latest[q] + 1 .. position'[q] :
          x \in latest[q] + 1 .. position[q] \/ (q = p /\ x = o)
    BY <1>0, <2>1
  <2> HIDE DEF o
  <2> QED
    BY <2>1, <2>2, <2>3
<1>6. CASE Stop
  BY <1>6 DEF Stop, kafkaVars, effectVars
<1>7. CASE StopEnds
  BY <1>7 DEF StopEnds, StopReady, effectVars
<1>8. CASE Restart
  BY <1>8 DEF Restart
<1>9. ~StopTimesOut /\ ~ConsumerDies /\ ~Crash
  BY <1>0 DEF StopTimesOut, ConsumerDies, Crash
<1> QED
  BY <1>1, <1>2, <1>3, <1>4, <1>5, <1>6, <1>7, <1>8, <1>9
  DEF Next, vars, kafkaVars, effectVars, Tick, AutoCommit

\* Without failed steps and crashes no event published after the group's start is
\* lost: any number of stops and restarts of the process, between any two events,
\* lose none, for every number of partitions.
THEOREM StopsLoseNothing == Spec => []LossNeedsFault
<1>1. Init => LossInv
  BY DEF Init, LossInv, LossNeedsFault
<1>2. LossInv => LossNeedsFault
  BY DEF LossInv
<1> QED
  BY TypeCorrect, OffsetsHold, NextLoss, <1>1, <1>2, PTL DEF Spec
-----------------------------------------------------------------------------
(* The counts of the two stores                                            *)

\* An event whose access is still to be counted.
Owed(p, o) ==
  IF handler.pc = "graph" /\ handler.part = p /\ handler.off = o THEN 1 ELSE 0

GraphInv ==
  \A p \in Partitions, o \in Offsets :
    /\ accessed[p][o] + Owed(p, o) <= counted[p][o]
    /\ counted[p][o] - accessed[p][o] <= faults + crashes + Owed(p, o)

LEMMA NextGraph == TypeOK /\ OffsetsInv /\ GraphInv /\ [Next]_vars => GraphInv'
<1> SUFFICES ASSUME TypeOK, OffsetsInv, GraphInv, [Next]_vars PROVE GraphInv'
  OBVIOUS
<1>0. /\ \A p \in Partitions, o \in Offsets : counted[p][o] \in Nat /\ accessed[p][o] \in Nat
      /\ faults \in Nat /\ crashes \in Nat
  BY DEF TypeOK
<1>1. CASE UNCHANGED <<handler, counted, accessed, faults, crashes>>
  BY <1>1 DEF GraphInv, Owed
\* A step that ends the handling before its event is counted in the graph is a
\* failure or a crash.
<1>2. ASSUME /\ handler'.pc # "graph" /\ UNCHANGED <<counted, accessed>>
             /\ \/ handler.pc # "graph" /\ faults' = faults /\ crashes' = crashes
                \/ faults' = faults + 1 /\ crashes' = crashes
                \/ faults' = faults /\ crashes' = crashes + 1
      PROVE  GraphInv'
  <2> SUFFICES ASSUME NEW p \in Partitions, NEW o \in Offsets
               PROVE  /\ accessed'[p][o] + Owed(p, o)' <= counted'[p][o]
                      /\ counted'[p][o] - accessed'[p][o] <= faults' + crashes' + Owed(p, o)'
    BY DEF GraphInv
  <2>1. Owed(p, o)' = 0
    BY <1>2 DEF Owed
  <2>2. \/ Owed(p, o) = 0
        \/ Owed(p, o) = 1 /\ handler.pc = "graph"
    BY DEF Owed
  <2>3. /\ counted[p][o] \in Nat /\ accessed[p][o] \in Nat
        /\ accessed[p][o] + Owed(p, o) <= counted[p][o]
        /\ counted[p][o] - accessed[p][o] <= faults + crashes + Owed(p, o)
    BY <1>0 DEF GraphInv
  <2>4. accessed'[p][o] = accessed[p][o] /\ counted'[p][o] = counted[p][o]
    BY <1>2
  <2>5. accessed[p][o] + 0 <= counted[p][o]
        /\ counted[p][o] - accessed[p][o] <= faults' + crashes' + 0
    BY <1>0, <1>2, <2>2, <2>3
  <2> QED
    BY <2>1, <2>4, <2>5
<1>3. CASE HandlerStep \/ StepFails \/ GraphFails
  <2>0. handler \in Working /\ handler.part \in Partitions /\ handler.off \in Offsets
        /\ UNCHANGED crashes
    BY <1>3, HandlerMoves DEF Working
  <2>1. \A pc \in Stages : Proceed(pc) =>
          handler'.pc = pc /\ handler'.part = handler.part /\ handler'.off = handler.off
    BY <2>0, Proceeding
  <2>2. /\ Counted(counted)[handler.part][handler.off] = counted[handler.part][handler.off] + 1
        /\ Counted(accessed)[handler.part][handler.off] = accessed[handler.part][handler.off] + 1
        /\ \A p \in Partitions, o \in Offsets : p # handler.part \/ o # handler.off =>
             Counted(counted)[p][o] = counted[p][o] /\ Counted(accessed)[p][o] = accessed[p][o]
    BY <2>0, CountedOnce DEF TypeOK
  <2>3. CASE Delta
    <3>1. /\ handler.pc = "delta" /\ handler'.pc = "graph"
          /\ handler'.part = handler.part /\ handler'.off = handler.off
          /\ counted' = Counted(counted) /\ UNCHANGED <<accessed, faults, crashes>>
      BY <2>1, <2>3 DEF Delta, At, Stages
    <3> QED
      BY <1>0, <2>0, <2>2, <3>1 DEF GraphInv, Owed
  \* The access of the event in hand is counted, with a failure after it or without.
  <2>4. ASSUME /\ handler.pc = "graph" /\ handler'.pc # "graph"
               /\ accessed' = Counted(accessed) /\ UNCHANGED <<counted, crashes>>
               /\ faults' = faults \/ faults' = faults + 1
        PROVE  GraphInv'
    BY <1>0, <2>0, <2>2, <2>4 DEF GraphInv, Owed
  <2>5. CASE Graph
    BY <1>0, <2>1, <2>4, <2>5 DEF Graph, At, Accessed, Stages
  <2>6. CASE GraphFails
    <3>1. CASE /\ At("graph") /\ Proceed("score") /\ accessed' = Accessed
      BY <1>0, <2>1, <2>4, <1>3, <2>6, <3>1 DEF GraphFails, At, Accessed, Stages
    <3>2. CASE UNCHANGED accessed
      <4>1. handler'.pc # "graph"
        BY <2>1, <2>6 DEF GraphFails, Stages, Rested
      <4>2. UNCHANGED <<counted, crashes>> /\ faults' = faults + 1
        BY <2>6 DEF GraphFails
      <4> QED
        BY <1>0, <1>2, <3>2, <4>1, <4>2
    <3> QED
      BY <2>6, <3>1, <3>2 DEF GraphFails
  <2>7. CASE StepFails
    <3>1. /\ handler.pc # "graph" /\ handler'.pc = "rest" /\ UNCHANGED <<accessed, crashes>>
          /\ faults' = faults + 1 /\ counted' \in {counted, Counted(counted)}
      BY <2>7 DEF StepFails, Rested
    <3>2. \A p \in Partitions, o \in Offsets :
            counted'[p][o] = counted[p][o] \/ counted'[p][o] = counted[p][o] + 1
      BY <2>0, <2>2, <3>1
    <3> QED
      BY <1>0, <3>1, <3>2 DEF GraphInv, Owed
  <2>8. ASSUME /\ handler.pc # "graph" /\ handler'.pc # "graph"
               /\ UNCHANGED <<counted, accessed, faults, crashes>>
        PROVE  GraphInv'
    BY <1>0, <1>2, <2>8
  <2>9. CASE \E x \in Scores : Score(x)
    <3>1. handler.pc # "graph" /\ UNCHANGED <<counted, accessed, faults, crashes>>
      BY <2>9 DEF Score, At, effectVars
    <3>2. handler'.pc # "graph"
      BY <2>0, <2>9 DEF Score, Rested, Working
    <3> QED
      BY <2>8, <3>1, <3>2
  <2>10. CASE Record
    <3>1. handler.pc # "graph" /\ UNCHANGED <<counted, accessed, faults, crashes>>
      BY <2>10 DEF Record, At
    <3>2. handler'.pc # "graph"
      BY <2>0, <2>10 DEF Record, Working
    <3> QED
      BY <2>8, <3>1, <3>2
  <2>11. CASE RecordCommit \/ NewAlert \/ FoldedAlert \/ Fired \/ GraphScore
    <3>1. handler.pc # "graph" /\ UNCHANGED <<counted, accessed, faults, crashes>>
      BY <2>11 DEF RecordCommit, NewAlert, AlertInserted, FoldedAlert, Fired, GraphScore, At, effectVars
    <3>2. handler'.pc # "graph"
      BY <2>1, <2>11
      DEF RecordCommit, NewAlert, AlertInserted, FoldedAlert, AfterFold, Fired, GraphScore, Stages, Rested
    <3> QED
      BY <2>8, <3>1, <3>2
  <2> QED
    BY <1>3, <2>3, <2>5, <2>6, <2>7, <2>9, <2>10, <2>11 DEF HandlerStep
<1>4. ASSUME NEW p \in Partitions, Poll(p) PROVE GraphInv'
  <2>1. handler.pc # "graph" /\ handler'.pc # "graph" /\ UNCHANGED <<counted, accessed, faults, crashes>>
    BY <1>4 DEF Poll, Event, Rested, effectVars
  <2> QED
    BY <1>0, <1>2, <2>1
<1>5. CASE StopEnds
  <2>1. handler.pc # "graph" /\ handler'.pc # "graph" /\ UNCHANGED <<counted, accessed, faults, crashes>>
    BY <1>5 DEF StopEnds, StopReady, Rested, effectVars
  <2> QED
    BY <1>0, <1>2, <2>1
<1>6. CASE StopTimesOut
  BY <1>0, <1>2, <1>6 DEF StopTimesOut, Rested, effectVars
<1>7. CASE ConsumerDies
  BY <1>0, <1>2, <1>7 DEF ConsumerDies, Rested, effectVars
<1>8. CASE Crash
  BY <1>0, <1>2, <1>8 DEF Crash, Rested, effectVars
<1> QED
  BY <1>1, <1>3, <1>4, <1>5, <1>6, <1>7, <1>8
  DEF Next, vars, effectVars, Tick, AutoCommit, Join, Produce, Stop, Restart

\* The deltas in Redis and the access counts in Neo4j never drift further apart
\* than there were failed steps and crashes, beside the event in hand.
THEOREM CountsAgree == Spec => []GraphFollowsDeltas
<1>1. Init => GraphInv
  BY DEF Init, GraphInv, Owed, Rested
<1>2. TypeOK /\ GraphInv => GraphFollowsDeltas
  <2> SUFFICES ASSUME TypeOK, GraphInv, NEW p \in Partitions, NEW o \in Offsets
               PROVE  /\ accessed[p][o] <= counted[p][o]
                      /\ counted[p][o] - accessed[p][o] <=
                           faults + crashes + (IF InHand(p, o) THEN 1 ELSE 0)
    BY DEF GraphFollowsDeltas
  <2>1. counted[p][o] \in Nat /\ accessed[p][o] \in Nat /\ faults \in Nat /\ crashes \in Nat
    BY DEF TypeOK
  <2>2. Owed(p, o) = 0 \/ (Owed(p, o) = 1 /\ InHand(p, o))
    BY DEF Owed, InHand, Rested
  <2> QED
    BY <2>1, <2>2 DEF GraphInv
<1> QED
  BY TypeCorrect, OffsetsHold, NextGraph, <1>1, <1>2, PTL DEF Spec
-----------------------------------------------------------------------------
(* What follows an alert                                                   *)

FollowInv ==
  /\ narrated <= fired /\ fired <= inserted
  /\ handler.pc = "fired" => fired < inserted
  /\ handler.pc = "graphScore" => narrated < fired
  /\ inserted - narrated <=
       faults + crashes + (IF handler.pc \in {"fired", "graphScore"} THEN 1 ELSE 0)

LEMMA NextFollow == TypeOK /\ FollowInv /\ [Next]_vars => FollowInv'
<1> SUFFICES ASSUME TypeOK, FollowInv, [Next]_vars PROVE FollowInv'
  OBVIOUS
<1>0. /\ inserted \in Nat /\ fired \in Nat /\ narrated \in Nat
      /\ faults \in Nat /\ crashes \in Nat
  BY DEF TypeOK
<1> DEFINE Following(h) == h.pc \in {"fired", "graphScore"}
<1>1. CASE UNCHANGED <<handler, inserted, fired, narrated, faults, crashes>>
  BY <1>1 DEF FollowInv
<1>2. ASSUME /\ ~Following(handler') /\ UNCHANGED <<inserted, fired, narrated>>
             /\ \/ ~Following(handler) /\ faults' = faults /\ crashes' = crashes
                \/ faults' = faults + 1 /\ crashes' = crashes
                \/ faults' = faults /\ crashes' = crashes + 1
      PROVE  FollowInv'
  BY <1>0, <1>2 DEF FollowInv
<1>3. CASE HandlerStep \/ StepFails \/ GraphFails
  <2>0. handler \in Working /\ UNCHANGED crashes
    BY <1>3, HandlerMoves
  <2>1. \A pc \in Stages : Proceed(pc) => handler'.pc = pc
    BY <2>0, Proceeding
  <2>2. CASE NewAlert
    <3>1. /\ handler.pc = "alert" /\ handler'.pc = "fired" /\ inserted' = inserted + 1
          /\ UNCHANGED <<fired, narrated, faults, crashes>>
      BY <2>1, <2>2 DEF NewAlert, AlertInserted, At, Stages
    <3> QED
      BY <1>0, <3>1 DEF FollowInv
  <2>3. CASE Fired
    <3>1. /\ handler.pc = "fired" /\ handler'.pc = "graphScore" /\ fired' = fired + 1
          /\ UNCHANGED <<inserted, narrated, faults, crashes>>
      BY <2>1, <2>3 DEF Fired, At, Stages
    <3> QED
      BY <1>0, <3>1 DEF FollowInv
  <2>4. ASSUME /\ handler.pc = "graphScore" /\ handler'.pc = "rest" /\ narrated' = narrated + 1
               /\ UNCHANGED <<inserted, fired, crashes>>
               /\ faults' = faults \/ faults' = faults + 1
        PROVE  FollowInv'
    BY <1>0, <2>4 DEF FollowInv
  <2>5. CASE GraphScore
    BY <1>0, <2>4, <2>5 DEF GraphScore, At, Rested
  <2>6. CASE GraphFails
    <3>1. CASE At("graphScore") /\ handler' = Rested /\ narrated' = narrated + 1
      BY <1>0, <2>0, <2>4, <2>6, <3>1 DEF GraphFails, At, Rested
    <3>2. CASE At("graph") /\ Proceed("score") /\ UNCHANGED narrated
      BY <1>0, <1>2, <2>0, <2>1, <2>6, <3>2 DEF GraphFails, At, Stages
    <3> QED
      BY <2>6, <3>1, <3>2 DEF GraphFails
  <2>7. CASE StepFails
    <3>1. /\ handler'.pc = "rest" /\ UNCHANGED <<narrated, crashes>>
          /\ faults' = faults + 1
          /\ fired' = fired \/ (fired' = fired + 1 /\ handler.pc = "fired")
          /\ inserted' = inserted \/ (inserted' = inserted + 1 /\ handler.pc = "alert")
      BY <2>7 DEF StepFails, AlertInserted, Rested, At
    <3> QED
      BY <1>0, <3>1 DEF FollowInv
  <2>8. ASSUME /\ ~Following(handler) /\ ~Following(handler')
               /\ UNCHANGED <<inserted, fired, narrated, faults, crashes>>
        PROVE  FollowInv'
    BY <1>0, <1>2, <2>8
  <2>9. CASE \E x \in Scores : Score(x)
    <3>1. ~Following(handler) /\ UNCHANGED <<inserted, fired, narrated, faults, crashes>>
      BY <2>9 DEF Score, At, effectVars
    <3>2. ~Following(handler')
      BY <2>0, <2>9 DEF Score, Rested, Working
    <3> QED
      BY <2>8, <3>1, <3>2
  <2>10. CASE Record
    <3>1. ~Following(handler) /\ UNCHANGED <<inserted, fired, narrated, faults, crashes>>
      BY <2>10 DEF Record, At
    <3>2. ~Following(handler')
      BY <2>0, <2>10 DEF Record, Working
    <3> QED
      BY <2>8, <3>1, <3>2
  <2>11. CASE Delta \/ Graph \/ RecordCommit \/ FoldedAlert
    <3>1. ~Following(handler) /\ UNCHANGED <<inserted, fired, narrated, faults, crashes>>
      BY <2>11 DEF Delta, Graph, RecordCommit, FoldedAlert, At, effectVars
    <3>2. ~Following(handler')
      BY <2>1, <2>11 DEF Delta, Graph, RecordCommit, FoldedAlert, AfterFold, Stages, Rested
    <3> QED
      BY <2>8, <3>1, <3>2
  <2> QED
    BY <1>3, <2>2, <2>3, <2>5, <2>6, <2>7, <2>9, <2>10, <2>11 DEF HandlerStep
<1>4. ASSUME NEW p \in Partitions, Poll(p) PROVE FollowInv'
  <2>1. /\ ~Following(handler) /\ ~Following(handler')
        /\ UNCHANGED <<inserted, fired, narrated, faults, crashes>>
    BY <1>4 DEF Poll, Event, Rested, effectVars
  <2> QED
    BY <1>0, <1>2, <2>1
<1>5. CASE StopEnds
  <2>1. /\ ~Following(handler) /\ ~Following(handler')
        /\ UNCHANGED <<inserted, fired, narrated, faults, crashes>>
    BY <1>5 DEF StopEnds, StopReady, Rested, effectVars
  <2> QED
    BY <1>0, <1>2, <2>1
<1>6. CASE StopTimesOut
  BY <1>0, <1>2, <1>6 DEF StopTimesOut, Rested, effectVars
<1>7. CASE ConsumerDies
  BY <1>0, <1>2, <1>7 DEF ConsumerDies, Rested, effectVars
<1>8. CASE Crash
  BY <1>0, <1>2, <1>8 DEF Crash, Rested, effectVars
<1> QED
  BY <1>1, <1>3, <1>4, <1>5, <1>6, <1>7, <1>8
  DEF Next, vars, effectVars, Tick, AutoCommit, Join, Produce, Stop, Restart

\* Every new alert but the one in hand is counted and gets its narrative task,
\* or a failure or a crash answers for it, over runs of any length.
THEOREM AlertsFollowed == Spec => []AlertsFollowedUp
<1>1. Init => FollowInv
  BY DEF Init, FollowInv, Rested
<1>2. FollowInv => AlertsFollowedUp
  BY DEF FollowInv, AlertsFollowedUp
<1> QED
  BY TypeCorrect, NextFollow, <1>1, <1>2, PTL DEF Spec
-----------------------------------------------------------------------------
(* The traces of an alert                                                  *)

\* Without failures the graph lags the newest alert by the one in hand.
ShownInv ==
  faults = 0 /\ crashes = 0 =>
    newest = IF handler.pc \in {"fired", "graphScore"}
             THEN [graphScore EXCEPT ![handler.acct] = handler.score] ELSE graphScore

LEMMA NextShown == TypeOK /\ ShownInv /\ [Next]_vars => ShownInv'
<1> SUFFICES ASSUME TypeOK, ShownInv, [Next]_vars, faults' = 0, crashes' = 0
             PROVE  ShownInv'
  BY DEF ShownInv
<1>0. faults \in Nat /\ crashes \in Nat
  BY DEF TypeOK
<1> DEFINE Following(h) == h.pc \in {"fired", "graphScore"}
<1>1. CASE UNCHANGED <<handler, newest, graphScore, faults, crashes>>
  BY <1>1 DEF ShownInv
<1>2. ASSUME ~Following(handler), ~Following(handler'), UNCHANGED <<newest, graphScore, faults, crashes>>
      PROVE  ShownInv'
  BY <1>2 DEF ShownInv
<1>3. CASE HandlerStep \/ StepFails \/ GraphFails
  <2>0. handler \in Working
    BY <1>3, HandlerMoves
  <2>1. \A pc \in Stages : Proceed(pc) => /\ handler'.pc = pc
                                          /\ handler'.acct = handler.acct
                                          /\ handler'.score = handler.score
    BY <2>0, Proceeding
  <2>2. ~StepFails /\ ~GraphFails
    BY <1>0 DEF StepFails, GraphFails
  <2>3. CASE NewAlert
    <3>1. /\ handler.pc = "alert" /\ Following(handler')
          /\ newest' = [newest EXCEPT ![handler.acct] = handler.score]
          /\ handler'.acct = handler.acct /\ handler'.score = handler.score
          /\ UNCHANGED <<graphScore, faults, crashes>>
      BY <2>1, <2>3 DEF NewAlert, AlertInserted, At, Stages
    <3>2. newest = graphScore
      BY <3>1 DEF ShownInv
    <3> QED
      BY <3>1, <3>2 DEF ShownInv
  <2>4. CASE Fired
    <3>1. /\ handler.pc = "fired" /\ Following(handler')
          /\ handler'.acct = handler.acct /\ handler'.score = handler.score
          /\ UNCHANGED <<newest, graphScore, faults, crashes>>
      BY <2>1, <2>4 DEF Fired, At, Stages
    <3> QED
      BY <3>1 DEF ShownInv
  <2>5. CASE GraphScore
    <3>1. /\ handler.pc = "graphScore" /\ handler'.pc = "rest"
          /\ graphScore' = [graphScore EXCEPT ![handler.acct] = handler.score]
          /\ UNCHANGED <<newest, faults, crashes>>
      BY <2>5 DEF GraphScore, GraphScored, At, Rested
    <3> QED
      BY <3>1 DEF ShownInv
  <2>6. CASE \E x \in Scores : Score(x)
    <3>1. ~Following(handler) /\ UNCHANGED <<newest, graphScore, faults, crashes>>
      BY <2>6 DEF Score, At, effectVars
    <3>2. ~Following(handler')
      BY <2>0, <2>6 DEF Score, Rested, Working
    <3> QED
      BY <1>2, <3>1, <3>2
  <2>7. CASE Record
    <3>1. ~Following(handler) /\ UNCHANGED <<newest, graphScore, faults, crashes>>
      BY <2>7 DEF Record, At
    <3>2. ~Following(handler')
      BY <2>0, <2>7 DEF Record, Working
    <3> QED
      BY <1>2, <3>1, <3>2
  <2>8. CASE Delta \/ Graph \/ RecordCommit \/ FoldedAlert
    <3>1. ~Following(handler) /\ UNCHANGED <<newest, graphScore, faults, crashes>>
      BY <2>8 DEF Delta, Graph, RecordCommit, FoldedAlert, At, effectVars
    <3>2. ~Following(handler')
      BY <2>1, <2>8 DEF Delta, Graph, RecordCommit, FoldedAlert, AfterFold, Stages, Rested
    <3> QED
      BY <1>2, <3>1, <3>2
  <2> QED
    BY <1>3, <2>2, <2>3, <2>4, <2>5, <2>6, <2>7, <2>8 DEF HandlerStep
<1>4. ASSUME NEW p \in Partitions, Poll(p) PROVE ShownInv'
  BY <1>2, <1>4 DEF Poll, Event, Rested, effectVars
<1>5. CASE StopEnds
  BY <1>2, <1>5 DEF StopEnds, StopReady, Rested, effectVars
<1>6. ~StopTimesOut /\ ~ConsumerDies /\ ~Crash
  BY <1>0 DEF StopTimesOut, ConsumerDies, Crash
<1> QED
  BY <1>1, <1>3, <1>4, <1>5, <1>6
  DEF Next, vars, effectVars, Tick, AutoCommit, Join, Produce, Stop, Restart

\* The last time kept for an employee has a row at or after it, except while
\* that row is being written and between two processes.
HasRow(a) == \E i \in RowsOf(a) : history[i].at >= lastRecord[a]
RecordsInv ==
  faults = 0 =>
    /\ process # "down" =>
         \A a \in Accounts : lastRecord[a] \in Nat =>
           HasRow(a) \/ (handler.pc = "recording" /\ handler.acct = a)
    /\ handler.pc = "recording" =>
         handler.checked <= now /\ lastRecord[handler.acct] <= now
    /\ ScoreLeavesHistory

LEMMA NextRecords == TypeOK /\ OffsetsInv /\ RecordsInv /\ [Next]_vars => RecordsInv'
<1> SUFFICES ASSUME TypeOK, OffsetsInv, RecordsInv, [Next]_vars, faults' = 0
             PROVE  RecordsInv'
  BY DEF RecordsInv, ScoreLeavesHistory
<1>0. /\ faults \in Nat /\ now \in Nat /\ SampleEvery \in Nat \ {0}
      /\ lastRecord \in [Accounts -> Nat \union {-SampleEvery}]
      /\ history \in Seq([acct : Accounts, at : Nat])
  BY NumbersAssumption DEF TypeOK
<1>00. \A i \in DOMAIN history : history[i].acct \in Accounts /\ history[i].at \in Nat
  <2>1. DOMAIN history = 1..Len(history)
    BY <1>0
  <2>2. \A i \in 1..Len(history) : history[i] \in [acct : Accounts, at : Nat]
    BY <1>0, ElementOfSeq
  <2> QED
    BY <2>1, <2>2
<1> USE DEF RecordsInv, ScoreLeavesHistory, HasRow, RowsOf
<1> DEFINE After(h) == h.pc \in {"recording", "alert", "fired", "graphScore"}
<1>1. CASE UNCHANGED <<history, lastRecord, handler, process, now, faults>>
  BY <1>1
\* Nobody on the way to an alert, and the rows as they were.
<1>2. ASSUME handler.pc # "recording", ~After(handler'), process = "down" => process' = "down",
             UNCHANGED <<history, lastRecord, faults>>
      PROVE  RecordsInv'
  BY <1>2
<1>3. CASE HandlerStep \/ StepFails \/ GraphFails
  <2>0. handler \in Working /\ handler # Rested /\ process # "down" /\ UNCHANGED process
        /\ handler.acct \in Accounts /\ handler.checked \in Nat
    BY <1>3, HandlerMoves DEF OffsetsInv, Working
  <2>1. \A pc \in Stages : Proceed(pc) => /\ handler'.pc = pc /\ handler'.acct = handler.acct
                                          /\ handler'.checked = handler.checked
    BY <2>0, Proceeding
  <2>2. ~StepFails /\ ~GraphFails
    BY <1>0 DEF StepFails, GraphFails
  <2>3. CASE Record
    <3>1. handler.pc = "record" /\ UNCHANGED <<history, now, faults>>
      BY <2>3 DEF Record, At
    <3>2. CASE RecordDue(handler.acct)
      <4>1. /\ handler'.pc = "recording" /\ handler'.acct = handler.acct /\ handler'.checked = now
            /\ lastRecord' = [lastRecord EXCEPT ![handler.acct] = now]
        BY <2>0, <2>3, <3>2 DEF Record, Working
      <4>2. lastRecord'[handler.acct] = now
            /\ \A a \in Accounts : a # handler.acct => lastRecord'[a] = lastRecord[a]
        BY <1>0, <2>0, <4>1
      <4>3. ASSUME NEW a \in Accounts, a # handler.acct, lastRecord'[a] \in Nat
            PROVE  HasRow(a)'
        <5>1. lastRecord'[a] = lastRecord[a] /\ handler.pc # "recording" /\ faults = 0
          BY <3>1, <4>2, <4>3
        <5>2. HasRow(a)
          BY <2>0, <4>3, <5>1
        <5> QED
          BY <3>1, <5>1, <5>2
      <4>4. \A a \in Accounts : lastRecord'[a] \in Nat =>
              HasRow(a)' \/ (handler'.pc = "recording" /\ handler'.acct = a)
        <5> HIDE DEF HasRow
        <5> QED
          BY <4>1, <4>3
      <4>5. handler'.checked <= now' /\ lastRecord'[handler'.acct] <= now'
        BY <1>0, <3>1, <4>1, <4>2
      <4>6. ScoreLeavesHistory'
        BY <4>1
      <4> HIDE DEF ScoreLeavesHistory, HasRow
      <4> QED
        BY <4>4, <4>5, <4>6
    <3>3. CASE ~RecordDue(handler.acct)
      <4>1. /\ handler'.pc = "alert" /\ handler'.acct = handler.acct /\ handler'.checked = now
            /\ UNCHANGED lastRecord
        BY <2>0, <2>3, <3>3 DEF Record, Working
      <4>2. lastRecord[handler.acct] \in Nat /\ lastRecord[handler.acct] + SampleEvery > now
        BY <1>0, <2>0, <3>3 DEF RecordDue
      <4>3. PICK i \in RowsOf(handler.acct) : history[i].at >= lastRecord[handler.acct]
        BY <2>0, <3>1, <4>2
      <4>4. history[i].at + SampleEvery > now
        BY <1>0, <1>00, <4>2, <4>3
      <4> QED
        BY <2>0, <3>1, <4>1, <4>3, <4>4
    <3> QED
      BY <3>2, <3>3
  <2>4. CASE RecordCommit
    <3>1. /\ handler.pc = "recording" /\ handler'.pc = "alert" /\ handler'.acct = handler.acct
          /\ handler'.checked = handler.checked
          /\ history' = Append(history, [acct |-> handler.acct, at |-> now])
          /\ UNCHANGED <<lastRecord, now, faults>>
      BY <2>1, <2>4 DEF RecordCommit, Recorded, At, Stages
    <3> DEFINE row == [acct |-> handler.acct, at |-> now]
               n == Len(history) + 1
    <3>2. /\ row \in [acct : Accounts, at : Nat] /\ n \in Nat /\ Len(history) \in Nat
      BY <1>0, <2>0
    <3>3. /\ DOMAIN history' = 1..n /\ DOMAIN history = 1..Len(history) /\ history'[n] = row
          /\ \A i \in DOMAIN history : i \in DOMAIN history' /\ history'[i] = history[i]
      BY <1>0, <3>1, <3>2, AppendProperties
    <3>4. n \in DOMAIN history'
      BY <3>2, <3>3
    <3>5. row.acct = handler.acct /\ row.at = now
      OBVIOUS
    <3> HIDE DEF n, row
    <3>6. \A a \in Accounts : (\E i \in RowsOf(a) : history[i].at >= lastRecord[a]) =>
                                \E i \in RowsOf(a)' : history'[i].at >= lastRecord'[a]
      BY <3>1, <3>3
    <3>7. handler.checked <= now /\ lastRecord[handler.acct] <= now
      BY <3>1
    <3>8. n \in RowsOf(handler.acct)' /\ history'[n].at >= lastRecord'[handler.acct]
          /\ history'[n].at + SampleEvery > handler'.checked
      <4>1. history'[n].at = now /\ history'[n].acct = handler.acct
        BY <3>3, <3>5
      <4>2. lastRecord[handler.acct] \in Int
        BY <1>0, <2>0
      <4>3. now >= lastRecord[handler.acct] /\ now + SampleEvery > handler.checked
        BY <1>0, <2>0, <3>7, <4>2
      <4> QED
        BY <3>1, <3>4, <4>1, <4>3
    <3>9. \A a \in Accounts : lastRecord'[a] \in Nat => HasRow(a)'
      <4> SUFFICES ASSUME NEW a \in Accounts, lastRecord'[a] \in Nat PROVE HasRow(a)'
        OBVIOUS
      <4>1. CASE a = handler.acct
        BY <3>1, <3>8, <4>1
      <4>2. CASE a # handler.acct
        <5>1. \E i \in RowsOf(a) : history[i].at >= lastRecord[a]
          BY <2>0, <3>1, <4>2
        <5>2. \E i \in RowsOf(a)' : history'[i].at >= lastRecord'[a]
          BY <3>6, <5>1
        <5> QED
          BY <5>2
      <4> QED
        BY <4>1, <4>2
    <3> QED
      BY <3>1, <3>8, <3>9
  <2>5. CASE NewAlert \/ Fired
    <3>1. /\ handler.pc \in {"alert", "fired"} /\ handler'.pc \in {"fired", "graphScore"}
          /\ handler'.acct = handler.acct /\ handler'.checked = handler.checked
          /\ UNCHANGED <<history, lastRecord, now, faults>>
      BY <2>1, <2>5 DEF NewAlert, AlertInserted, Fired, At, Stages
    <3> QED
      BY <2>0, <3>1
  <2>6. CASE GraphScore \/ FoldedAlert
    <3>1. handler.pc # "recording" /\ ~After(handler') /\ UNCHANGED <<history, lastRecord, faults>>
      BY <2>6 DEF GraphScore, FoldedAlert, AfterFold, At, Rested, effectVars
    <3> QED
      BY <1>2, <2>0, <3>1
  <2>7. CASE \E x \in Scores : Score(x)
    <3>1. handler.pc # "recording" /\ UNCHANGED <<history, lastRecord, faults>>
      BY <2>7 DEF Score, At, effectVars
    <3>2. ~After(handler')
      BY <2>0, <2>7 DEF Score, Rested, Working
    <3> QED
      BY <1>2, <2>0, <3>1, <3>2
  <2>8. CASE Delta \/ Graph
    <3>1. handler.pc # "recording" /\ UNCHANGED <<history, lastRecord, faults>>
      BY <2>8 DEF Delta, Graph, At
    <3>2. ~After(handler')
      BY <2>1, <2>8 DEF Delta, Graph, Stages
    <3> QED
      BY <1>2, <2>0, <3>1, <3>2
  <2> QED
    BY <1>3, <2>2, <2>3, <2>4, <2>5, <2>6, <2>7, <2>8 DEF HandlerStep
<1>4. ASSUME NEW p \in Partitions, Poll(p) PROVE RecordsInv'
  <2>1. handler.pc # "recording" /\ ~After(handler') /\ process # "down"
        /\ UNCHANGED <<history, lastRecord, faults>>
    BY <1>4 DEF Poll, Event, Rested, effectVars
  <2> QED
    BY <1>2, <2>1
<1>5. CASE StopEnds
  <2>1. handler.pc # "recording" /\ ~After(handler') /\ process' = "down"
        /\ UNCHANGED <<history, lastRecord, faults>>
    BY <1>5 DEF StopEnds, StopReady, Rested, effectVars
  <2> QED
    BY <1>2, <2>1
<1>6. CASE Crash
  BY <1>6 DEF Crash, Rested
<1>7. CASE Restart
  <2>1. handler = Rested
    BY <1>7 DEF Restart, OffsetsInv
  <2>2. \A a \in Accounts : lastRecord'[a] = -SampleEvery
    BY <1>7 DEF Restart
  <2>3. -SampleEvery \notin Nat
    BY <1>0
  <2> QED
    BY <1>7, <2>1, <2>2, <2>3 DEF Restart, Rested
<1>8. CASE Tick
  <2>1. now' = now + 1 /\ UNCHANGED <<history, lastRecord, handler, process, faults>>
    BY <1>8 DEF Tick, effectVars
  <2>2. handler.pc = "recording" => handler.checked \in Nat /\ lastRecord[handler.acct] \in Int
    BY <1>0, Handling DEF Working, Rested
  <2> QED
    BY <1>0, <2>1, <2>2
<1>9. CASE Join
  BY <1>9 DEF Join, effectVars
<1>10. CASE Stop
  BY <1>10 DEF Stop, effectVars
<1>11. ~StopTimesOut /\ ~ConsumerDies
  BY <1>0 DEF StopTimesOut, ConsumerDies
<1> QED
  BY <1>1, <1>3, <1>4, <1>5, <1>6, <1>7, <1>8, <1>9, <1>10, <1>11
  DEF Next, vars, effectVars, AutoCommit, Produce

\* An alert has a recent score in the history before it and its score in the
\* graph after it, for every sampling period, threshold and number of accounts;
\* sampling and deduplication leave no alert without the first, nor repeat the second.
THEOREM TracesLeft == Spec => []AlertsLeaveTraces
<1>1. Init => ShownInv /\ RecordsInv
  BY NumbersAssumption DEF Init, ShownInv, RecordsInv, ScoreLeavesHistory, Rested
<1>2. ShownInv /\ RecordsInv => AlertsLeaveTraces
  BY DEF ShownInv, RecordsInv, AlertsLeaveTraces, ScoreLeavesHistory, GraphShowsNewest
<1> QED
  BY TypeCorrect, OffsetsHold, NextShown, NextRecords, <1>1, <1>2, PTL DEF Spec
=============================================================================
