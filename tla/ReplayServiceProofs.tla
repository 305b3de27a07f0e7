------------------------- MODULE ReplayServiceProofs -------------------------
(***************************************************************************)
(* Proofs about ReplayService, for every value of its constants.           *)
(***************************************************************************)
EXTENDS ReplayService, TLAPS, SequenceTheorems

\* What StartLaunch does to the list of loops.
LEMMA AppendLoop ==
  ASSUME NEW S, NEW q \in Seq(S), NEW l \in S
  PROVE  /\ Append(q, l) \in Seq(S)
         /\ Len(Append(q, l)) = Len(q) + 1
         /\ DOMAIN q = 1 .. Len(q) /\ Len(q) \in Nat
         /\ DOMAIN Append(q, l) = 1 .. (Len(q) + 1)
         /\ \A i \in DOMAIN q : Append(q, l)[i] = q[i]
         /\ Append(q, l)[Len(q) + 1] = l
BY AppendProperties, LenProperties

\* What a step of one loop, or of a crash, does to the list.
LEMMA ChangeLoop ==
  ASSUME NEW S, NEW q \in Seq(S), NEW f, f \in [DOMAIN q -> S]
  PROVE  f \in Seq(S) /\ Len(f) = Len(q) /\ DOMAIN f = DOMAIN q
<1>1. DOMAIN q = 1 .. Len(q) /\ Len(q) \in Nat
  BY LenProperties
<1>2. f \in Seq(S)
  BY <1>1, IsASeq
<1> QED
  BY <1>1, <1>2, LenProperties

Pcs == {"idle"} \union Starting \union Stopping \union Injecting

\* The part of TypeOK about requests and the one about loops, in the form the
\* steps use.
LEMMA TypeOf ==
  ASSUME TypeOK
  PROVE  /\ request \in [Clients -> Request]
         /\ \A c \in Clients : /\ request[c].pc \in Pcs
                               /\ request[c].loop \in 0 .. Len(loops)
                               /\ request[c].count \in Nat
         /\ DOMAIN loops = 1 .. Len(loops) /\ Len(loops) \in Nat
         /\ loops \in [DOMAIN loops -> RunLoop]
         /\ \A i \in DOMAIN loops : loops[i] \in RunLoop
BY LenProperties DEF TypeOK, Request, Pcs

-----------------------------------------------------------------------------
(* Type correctness. *)

LEMMA InitType == Init => TypeOK
<1> SUFFICES ASSUME Init PROVE TypeOK
  OBVIOUS
<1>1. Idle \in Request /\ Idle.pc \notin Waiting /\ Idle.loop = 0
  BY DEF Idle, Request, Waiting
<1>2. loops \in Seq(RunLoop) /\ Len(loops) = 0
  BY EmptySeq DEF Init
<1>3. request \in [Clients -> Request] /\ stopEvent \in BOOLEAN
  BY <1>1 DEF Init
<1>4. \A c \in Clients : request[c].loop \in 0 .. Len(loops) /\ request[c].pc \notin Waiting
  BY <1>1, <1>2 DEF Init
<1>5. task \in 0 .. Len(loops) /\ status \in {"idle", "running"}
      /\ events_published \in Nat /\ sent \in Nat /\ faults \in Nat /\ timeouts \in Nat
  BY <1>2 DEF Init
<1> QED
  BY <1>2, <1>3, <1>4, <1>5 DEF TypeOK

\* Moving a request on, or ending it, keeps its type.
LEMMA GotoType ==
  ASSUME TypeOK, NEW c \in Clients, NEW pc \in Pcs,
         Goto(c, pc) \/ Finish(c),
         pc \in Waiting => request[c].pc \in Waiting
  PROVE  /\ request' \in [Clients -> Request]
         /\ \A d \in Clients : /\ request'[d].loop \in 0 .. Len(loops)
                               /\ request'[d].pc \in Waiting => request'[d].loop # 0
<1>1. request \in [Clients -> Request]
  BY TypeOf
<1>2. \A d \in Clients : /\ request[d].loop \in 0 .. Len(loops)
                         /\ request[d].pc \in Waiting => request[d].loop # 0
  BY DEF TypeOK
<1>3. 0 \in 0 .. Len(loops)
  BY TypeOf
<1>4. CASE Goto(c, pc)
  BY <1>1, <1>2, <1>4 DEF Goto, Request, Pcs
<1>5. CASE Finish(c)
  BY <1>1, <1>2, <1>3, <1>5 DEF Finish, Idle, Request, Waiting
<1> QED
  BY <1>4, <1>5

\* A loop step replaces one loop by another.
LEMMA ChangeType ==
  ASSUME TypeOK, NEW i \in DOMAIN loops, NEW l \in RunLoop, Change(i, l)
  PROVE  loops' \in Seq(RunLoop) /\ Len(loops') = Len(loops) /\ DOMAIN loops' = DOMAIN loops
<1>1. loops \in Seq(RunLoop) /\ loops \in [DOMAIN loops -> RunLoop]
  BY TypeOf DEF TypeOK
<1>2. loops' \in [DOMAIN loops -> RunLoop]
  BY <1>1 DEF Change
<1> QED
  BY <1>1, <1>2, ChangeLoop

LEMMA NextType == TypeOK /\ [Next]_vars => TypeOK'
<1> SUFFICES ASSUME TypeOK, [Next]_vars PROVE TypeOK'
  OBVIOUS
<1>t. /\ request \in [Clients -> Request]
      /\ \A c \in Clients : /\ request[c].pc \in Pcs
                            /\ request[c].loop \in 0 .. Len(loops)
                            /\ request[c].count \in Nat
      /\ DOMAIN loops = 1 .. Len(loops) /\ Len(loops) \in Nat
      /\ loops \in [DOMAIN loops -> RunLoop]
      /\ \A i \in DOMAIN loops : loops[i] \in RunLoop
  BY TypeOf
<1>g. \A c \in Clients, pc \in Pcs :
        (Goto(c, pc) \/ Finish(c)) /\ (pc \in Waiting => request[c].pc \in Waiting) =>
          /\ request' \in [Clients -> Request]
          /\ \A d \in Clients : /\ request'[d].loop \in 0 .. Len(loops)
                                /\ request'[d].pc \in Waiting => request'[d].loop # 0
  BY GotoType
<1>c. \A i \in DOMAIN loops, l \in RunLoop : Change(i, l) =>
        loops' \in Seq(RunLoop) /\ Len(loops') = Len(loops) /\ DOMAIN loops' = DOMAIN loops
  BY ChangeType
<1>0. /\ {"idle", "reset", "setRunning", "resetStats", "initStats", "wait",
          "cancel", "setIdle", "inject", "count"} = Pcs
      /\ Request = [pc : Pcs, loop : Nat, count : Nat]
      /\ Waiting = {"wait", "cancel"}
  BY DEF Pcs, Starting, Stopping, Injecting, Request, Waiting
<1>1. ASSUME NEW c \in Clients, StartCheck(c) \/ StartStep(c) PROVE TypeOK'
  <2>1. CASE StartCheck(c) \/ StartReset(c) \/ StartSetRunning(c) \/ StartResetStats(c)
    <3>1. \E pc \in {"reset", "setRunning", "resetStats", "initStats"} : Goto(c, pc)
      BY <2>1 DEF StartCheck, StartReset, StartSetRunning, StartResetStats
    <3>2. /\ request' \in [Clients -> Request]
          /\ \A d \in Clients : /\ request'[d].loop \in 0 .. Len(loops)
                                /\ request'[d].pc \in Waiting => request'[d].loop # 0
      BY <3>1, <1>g, <1>0
    <3>3. stopEvent' \in BOOLEAN
      BY <2>1 DEF TypeOK, StartCheck, StartReset, StartSetRunning, StartResetStats
    <3>4. UNCHANGED <<loops, task, faults, timeouts>>
      BY <2>1 DEF StartCheck, StartReset, StartSetRunning, StartResetStats
    <3>5. status' \in {"idle", "running"} /\ events_published' \in Nat /\ sent' \in Nat
      BY <2>1 DEF TypeOK, StartCheck, StartReset, StartSetRunning, StartResetStats
    <3> QED
      BY <3>2, <3>3, <3>4, <3>5 DEF TypeOK
  <2>2. ASSUME NEW pass \in Passes, StartLaunch(c, pass) PROVE TypeOK'
    <3>1. NewLoop(pass) \in RunLoop
      BY LengthsAssumption DEF NewLoop, RunLoop, Passes, Live
    <3>2. loops' \in Seq(RunLoop) /\ Len(loops') = Len(loops) + 1
      BY <2>2, <3>1, AppendLoop DEF StartLaunch, TypeOK
    <3>3. Finish(c) /\ Len(loops) \in Nat /\ task' = Len(loops) + 1 /\ task' \in 0 .. Len(loops')
      BY <2>2, <3>2, <1>t DEF StartLaunch
    <3>4. /\ request' \in [Clients -> Request]
          /\ \A d \in Clients : /\ request'[d].loop \in 0 .. Len(loops)
                                /\ request'[d].pc \in Waiting => request'[d].loop # 0
      BY <3>3, <1>g, <1>0
    <3>5. \A d \in Clients : request'[d].loop \in 0 .. Len(loops')
      BY <3>2, <3>3, <3>4
    <3>6. stopEvent' \in BOOLEAN
      BY <2>2 DEF StartLaunch, TypeOK
    <3>7. /\ status' \in {"idle", "running"} /\ events_published' \in Nat
          /\ sent' \in Nat /\ faults' \in Nat /\ timeouts' \in Nat
      BY <2>2 DEF StartLaunch, TypeOK
    <3> QED
      BY <3>2, <3>3, <3>4, <3>5, <3>6, <3>7 DEF TypeOK
  <2> QED
    BY <1>1, <2>1, <2>2 DEF StartStep
<1>2. ASSUME NEW c \in Clients, StopSet(c) \/ StopStep(c) \/ StopTimeout(c) PROVE TypeOK'
  <2>1. CASE StopSet(c)
    BY <2>1, <1>t, <1>0 DEF TypeOK, StopSet, StopSignal
  <2>2. CASE StopStep(c)
    <3>1. Goto(c, "setIdle") \/ Finish(c)
      BY <2>2 DEF StopStep, StopWaited, StopSetIdle
    <3>2. /\ request' \in [Clients -> Request]
          /\ \A d \in Clients : /\ request'[d].loop \in 0 .. Len(loops)
                                /\ request'[d].pc \in Waiting => request'[d].loop # 0
      BY <3>1, <1>g, <1>0
    <3>3. UNCHANGED <<loops, task, stopEvent, events_published, sent, faults, timeouts>>
      BY <2>2 DEF StopStep, StopWaited, StopSetIdle
    <3>4. status' = status \/ status' = "idle"
      BY <2>2 DEF StopStep, StopWaited, StopSetIdle
    <3>5. stopEvent' \in BOOLEAN
      BY <3>3 DEF TypeOK
    <3>6. status' \in {"idle", "running"}
      BY <3>4 DEF TypeOK
    <3> QED
      BY <3>2, <3>3, <3>5, <3>6 DEF TypeOK
  <2>3. CASE StopTimeout(c)
    <3>1. request[c].loop \in DOMAIN loops
      BY <2>3, <1>t, <1>0 DEF StopTimeout, TypeOK
    <3>2. ASSUME NEW l \in RunLoop PROVE Cancelled(l) \in RunLoop
      BY DEF Cancelled, RunLoop, Live, Passes, Ended
    <3>3. Change(request[c].loop, Cancelled(loops[request[c].loop]))
      BY <2>3, <3>1 DEF StopTimeout, Change
    <3>4. loops' \in Seq(RunLoop) /\ Len(loops') = Len(loops)
      BY <3>1, <3>2, <3>3, <1>c, <1>t
    <3> QED
      BY <2>3, <3>4, <1>g, <1>0 DEF TypeOK, StopTimeout
  <2> QED
    BY <1>2, <2>1, <2>2, <2>3
<1>3. ASSUME NEW c \in Clients, InjectBegin(c) \/ InjectStep(c) PROVE TypeOK'
  <2>1. CASE InjectPublish(c)
    BY <2>1, <1>t, <1>0 DEF TypeOK, InjectPublish
  <2>2. CASE InjectBegin(c) \/ InjectFlush(c) \/ InjectCount(c)
    <3>1. Goto(c, "inject") \/ Goto(c, "count") \/ Finish(c)
      BY <2>2 DEF InjectBegin, InjectFlush, InjectCount
    <3>2. /\ request' \in [Clients -> Request]
          /\ \A d \in Clients : /\ request'[d].loop \in 0 .. Len(loops)
                                /\ request'[d].pc \in Waiting => request'[d].loop # 0
      BY <3>1, <1>g, <1>0
    <3>3. stopEvent' \in BOOLEAN
      BY <2>2 DEF TypeOK, InjectBegin, InjectFlush, InjectCount
    <3>4. UNCHANGED <<loops, task, status, sent, faults, timeouts>>
      BY <2>2 DEF InjectBegin, InjectFlush, InjectCount
    <3>5. events_published \in Nat /\ request[c].count \in Nat
      BY <1>t DEF TypeOK
    <3>6. events_published' \in Nat
      BY <2>2, <3>5 DEF InjectBegin, InjectFlush, InjectCount
    <3> QED
      BY <3>2, <3>3, <3>4, <3>6 DEF TypeOK
  <2> QED
    BY <1>3, <2>1, <2>2 DEF InjectStep
<1>4. ASSUME NEW i \in DOMAIN loops, LoopPublish(i) \/ LoopStep(i) \/ LoopFails(i) PROVE TypeOK'
  <2> DEFINE l == loops[i]
  <2>0. l \in RunLoop
    BY <1>t
  <2>1. CASE LoopPublish(i)
    <3>1. l.left - 1 \in Nat /\ l.published + 1 \in Nat
      BY <2>1, <2>0 DEF LoopPublish, RunLoop
    <3>2. [l EXCEPT !.left = @ - 1, !.published = @ + 1,
                    !.report = (l.published + 1) % ReportEvery = 0] \in RunLoop
      BY <2>0, <3>1 DEF RunLoop
    <3> QED
      BY <2>1, <3>2, <1>c DEF LoopPublish, TypeOK
  <2>2. CASE LoopReport(i)
    BY <2>0, <2>2, <1>c DEF LoopReport, TypeOK, RunLoop, Reported
  <2>3. CASE LoopPassEnds(i)
    <3>1. [l EXCEPT !.pc = "file", !.left = FileLen] \in RunLoop
           /\ [l EXCEPT !.pc = "closing"] \in RunLoop
      BY <2>0, LengthsAssumption DEF RunLoop, Live, Passes
    <3> QED
      BY <2>3, <3>1, <1>c DEF LoopPassEnds, TypeOK
  <2>4. CASE LoopClose(i)
    BY <2>0, <2>4, <1>c DEF LoopClose, TypeOK, RunLoop, Reported, Live
  <2>5. CASE LoopClear(i)
    BY <2>0, <2>5, <1>c DEF LoopClear, TypeOK, RunLoop, Cleared, Ended
  <2>6. CASE LoopFails(i)
    <3>1. [l EXCEPT !.pc = "closing", !.report = FALSE] \in RunLoop
           /\ [l EXCEPT !.pc = "failed"] \in RunLoop
      BY <2>0 DEF RunLoop, Live, Ended
    <3> QED
      BY <2>6, <3>1, <1>c DEF LoopFails, TypeOK
  <2> QED
    BY <1>4, <2>1, <2>2, <2>3, <2>4, <2>5, <2>6 DEF LoopStep
<1>5. ASSUME NEW c \in Clients, RequestFails(c) PROVE TypeOK'
  BY <1>5, <1>g, <1>0 DEF TypeOK, RequestFails
<1>6. CASE Crash
  <2>1. \A i \in DOMAIN loops : Killed(loops[i]) \in RunLoop
    BY <1>t DEF Killed, RunLoop, Ended
  <2>2. loops' \in [DOMAIN loops -> RunLoop]
    BY <1>6, <1>t, <2>1 DEF Crash
  <2>3. loops' \in Seq(RunLoop) /\ Len(loops') = Len(loops)
    BY <2>2, ChangeLoop DEF TypeOK
  <2>4. stopEvent' \in BOOLEAN
    BY <1>6 DEF Crash
  <2>5. \A c \in Clients : request'[c].loop = 0 /\ request'[c].pc \notin Waiting
    BY <1>6 DEF Crash, Idle, Waiting
  <2>6. request' \in [Clients -> Request]
    BY <1>6, <1>0 DEF Crash, Idle
  <2>7. task' = 0 /\ 0 \in 0 .. Len(loops)
    BY <1>6, <1>t DEF Crash
  <2>8. /\ status' \in {"idle", "running"} /\ events_published' \in Nat
        /\ sent' \in Nat /\ faults' \in Nat /\ timeouts' \in Nat
    BY <1>6 DEF Crash, TypeOK
  <2> QED
    BY <2>3, <2>4, <2>5, <2>6, <2>7, <2>8 DEF TypeOK
<1>7. CASE UNCHANGED vars
  BY <1>7 DEF TypeOK, vars
<1> QED
  BY <1>1, <1>2, <1>3, <1>4, <1>5, <1>6, <1>7 DEF Next

\* Whatever the clients do and whatever fails, the replay's state has its type.
THEOREM TypeCorrect == Spec => []TypeOK
<1>1. Init => TypeOK
  BY InitType
<1>2. TypeOK /\ [Next]_vars => TypeOK'
  BY NextType
<1> QED
  BY <1>1, <1>2, PTL DEF Spec
-----------------------------------------------------------------------------
(* One client. *)

\* What Goto and Finish leave of a request.
LEMMA RequestOf ==
  ASSUME TypeOK, NEW c \in Clients
  PROVE  /\ \A pc \in Pcs : Goto(c, pc) =>
              /\ request'[c].pc = pc
              /\ request'[c].loop = request[c].loop
              /\ request'[c].count = request[c].count
         /\ Finish(c) =>
              request'[c].pc = "idle" /\ request'[c].loop = 0 /\ request'[c].count = 0
         /\ request[c] = Idle =>
              request[c].pc = "idle" /\ request[c].loop = 0 /\ request[c].count = 0
<1>1. request \in [Clients -> Request] /\ request[c] \in Request
  BY DEF TypeOK
<1>2. ASSUME NEW pc \in Pcs, Goto(c, pc)
      PROVE  /\ request'[c].pc = pc
             /\ request'[c].loop = request[c].loop
             /\ request'[c].count = request[c].count
  BY <1>1, <1>2 DEF Goto, Request
<1>3. ASSUME Finish(c)
      PROVE  request'[c].pc = "idle" /\ request'[c].loop = 0 /\ request'[c].count = 0
  BY <1>1, <1>3 DEF Finish, Idle
<1> QED
  BY <1>2, <1>3 DEF Idle

\* What a loop step leaves of the loops.
LEMMA LoopsOf ==
  ASSUME TypeOK, NEW i \in DOMAIN loops, NEW l \in RunLoop, Change(i, l)
  PROVE  /\ DOMAIN loops' = DOMAIN loops
         /\ loops'[i] = l
         /\ \A j \in DOMAIN loops : j # i => loops'[j] = loops[j]
BY TypeOf DEF Change

LEMMA InitSerial ==
  ASSUME NEW c \in Clients, Init PROVE SerialInv(c)
BY DEF Init, SerialInv, LoopKnown, RequestKnown, StaleKnown, Idle, Starting, Waiting

\* The start's steps: before its launch there is no live loop, after it one.
LEMMA StartSerial ==
  ASSUME TypeOK, NEW c \in Clients, SerialInv(c), StartCheck(c) \/ StartStep(c)
  PROVE  SerialInv(c)'
<1>t. /\ request[c].pc \in Pcs /\ request[c].count \in Nat
      /\ DOMAIN loops = 1 .. Len(loops) /\ Len(loops) \in Nat
      /\ task \in 0 .. Len(loops) /\ sent \in Nat /\ events_published \in Nat
  BY TypeOf DEF TypeOK
<1>p. Pcs = {"idle", "reset", "setRunning", "resetStats", "initStats", "wait",
             "cancel", "setIdle", "inject", "count"}
  BY DEF Pcs, Starting, Stopping, Injecting
<1>1. CASE StartCheck(c)
  <2>1. request'[c].pc = "reset" /\ request'[c].count = 0 /\ request[c].count = 0
    BY <1>1, <1>p, RequestOf DEF StartCheck
  <2>2. \A i \in DOMAIN loops : loops[i].pc \notin Live
    BY <1>1, <1>t DEF StartCheck, StartRefused, TaskLive, SerialInv, LoopKnown
  <2>3. request[c].pc = "idle"
    BY <1>1, RequestOf DEF StartCheck
  <2> QED
    BY <1>1, <2>1, <2>2, <2>3 DEF StartCheck, SerialInv, LoopKnown, RequestKnown,
         StaleKnown, TaskLive, Starting, Waiting, Injecting
<1>2. CASE StartReset(c) \/ StartSetRunning(c) \/ StartResetStats(c)
  <2>1. /\ request[c].pc \in {"reset", "setRunning", "resetStats"} /\ request[c].count = 0
        /\ \A i \in DOMAIN loops : loops[i].pc \notin Live
    BY <1>2 DEF StartReset, StartSetRunning, StartResetStats, SerialInv, LoopKnown,
         RequestKnown, Starting, Injecting
  <2>2. /\ request'[c].pc \in {"setRunning", "resetStats", "initStats"}
        /\ request'[c].count = 0 /\ UNCHANGED <<loops, task, faults>>
    BY <1>2, <2>1, <1>p, RequestOf DEF StartReset, StartSetRunning, StartResetStats
  <2>3. LoopKnown(c)'
    BY <2>1, <2>2 DEF SerialInv, LoopKnown
  <2>4. RequestKnown(c)'
    BY <1>2, <2>1, <2>2, <1>p, RequestOf DEF SerialInv, RequestKnown, StartReset,
         StartSetRunning, StartResetStats, Waiting, Injecting
  <2>5. StaleKnown(c)'
    BY <1>2, <2>1, <2>2, <1>p, RequestOf DEF SerialInv, StaleKnown, StartReset,
         StartSetRunning, StartResetStats, TaskLive
  <2> QED
    BY <2>3, <2>4, <2>5 DEF SerialInv
<1>3. ASSUME NEW pass \in Passes, StartLaunch(c, pass) PROVE SerialInv(c)'
  <2>0. NewLoop(pass) \in RunLoop
    BY LengthsAssumption DEF NewLoop, RunLoop, Passes, Live
  <2>1. /\ DOMAIN loops' = 1 .. (Len(loops) + 1)
        /\ \A i \in DOMAIN loops : loops'[i] = loops[i]
        /\ loops'[Len(loops) + 1] = NewLoop(pass)
    BY <1>3, <2>0, AppendLoop DEF StartLaunch, TypeOK
  <2>2. /\ request[c].pc = "initStats" /\ request[c].count = 0 /\ status = "running"
        /\ \A i \in DOMAIN loops : loops[i].pc \notin Live
    BY <1>3 DEF StartLaunch, SerialInv, LoopKnown, RequestKnown, Starting, Injecting
  <2>3. request'[c].pc = "idle" /\ request'[c].count = 0
    BY <1>3, RequestOf DEF StartLaunch
  <2>4. NewLoop(pass).pc \in Live /\ NewLoop(pass).published = 0 /\ NewLoop(pass).pc # "failed"
        /\ ~NewLoop(pass).report
    BY DEF NewLoop, Live, Passes
  <2>5. task' = Len(loops) + 1 /\ events_published' = 0 /\ UNCHANGED <<status, sent, faults>>
    BY <1>3 DEF StartLaunch
  <2>6. LoopKnown(c)'
    BY <2>1, <2>2, <2>3, <2>4, <2>5, <1>t DEF SerialInv, LoopKnown, Starting
  <2>7. RequestKnown(c)'
    BY <2>3, <2>5, <1>t DEF RequestKnown, Waiting
  <2>8. StaleKnown(c)'
    BY <2>1, <2>4, <2>5, <1>t DEF StaleKnown, TaskLive
  <2> QED
    BY <2>6, <2>7, <2>8 DEF SerialInv
<1> QED
  BY <1>1, <1>2, <1>3 DEF StartStep

\* What a cancellation leaves of a loop.
LEMMA CancelledLoop ==
  ASSUME NEW l \in RunLoop
  PROVE  /\ Cancelled(l) \in RunLoop
         /\ Cancelled(l).published = l.published
         /\ Cancelled(l).pc # "failed"
         /\ Cancelled(l).report => l.report /\ l.pc \notin Passes
BY DEF Cancelled, RunLoop, Live, Passes, Ended

\* The stop's steps: it waits for the one live loop, and gets past the wait
\* only when that loop is done.
LEMMA StopSerial ==
  ASSUME TypeOK, NEW c \in Clients, SerialInv(c),
         StopSet(c) \/ StopStep(c) \/ StopTimeout(c)
  PROVE  SerialInv(c)'
<1>t. /\ request[c].pc \in Pcs /\ request[c].count \in Nat
      /\ DOMAIN loops = 1 .. Len(loops) /\ Len(loops) \in Nat
      /\ task \in 0 .. Len(loops) /\ sent \in Nat /\ events_published \in Nat
      /\ \A i \in DOMAIN loops : loops[i] \in RunLoop
  BY TypeOf DEF TypeOK
<1>p. Pcs = {"idle", "reset", "setRunning", "resetStats", "initStats", "wait",
             "cancel", "setIdle", "inject", "count"}
  BY DEF Pcs, Starting, Stopping, Injecting
<1>e. \A pc \in Ended : pc \notin Live
  BY DEF Ended, Live, Passes
<1>1. CASE StopSet(c)
  <2>1. /\ request'[c].pc = IF task = 0 THEN "setIdle" ELSE "wait"
        /\ request'[c].loop = task /\ request'[c].count = 0
    BY <1>1 DEF StopSet, TypeOK
  <2>2. request[c].pc = "idle" /\ request[c].count = 0
    BY <1>1, RequestOf DEF StopSet
  <2>3. UNCHANGED <<loops, task, status, events_published, sent, faults>>
    BY <1>1 DEF StopSet
  <2>4. LoopKnown(c)'
    BY <2>1, <2>2, <2>3, <1>t DEF SerialInv, LoopKnown, Starting
  <2>5. RequestKnown(c)'
    BY <2>1, <2>2, <2>3, <1>t DEF SerialInv, RequestKnown, Waiting
  <2>6. StaleKnown(c)'
    BY <2>1, <2>2, <2>3 DEF SerialInv, StaleKnown, TaskLive
  <2> QED
    BY <2>4, <2>5, <2>6 DEF SerialInv
<1>2. CASE StopWaited(c)
  <2>1. /\ request[c].pc \in Waiting /\ request[c].loop = task /\ task # 0
        /\ request[c].count = 0 /\ loops[task].pc \in Ended
    BY <1>2, <1>t DEF StopWaited, SerialInv, RequestKnown, TypeOK, Waiting, Injecting
  <2>2. \A i \in DOMAIN loops : loops[i].pc \notin Live
    BY <2>1, <1>e DEF SerialInv, LoopKnown
  <2>3. \/ request'[c].pc = "setIdle"
        \/ /\ request'[c].pc = "idle"
           /\ loops[task].pc = "failed" \/ request[c].pc = "wait"
    BY <1>2, <2>1, <1>p, RequestOf DEF StopWaited, Waiting, Ended
  <2>4. request'[c].count = 0
    BY <1>2, <2>1, <1>p, RequestOf DEF StopWaited
  <2>5. UNCHANGED <<loops, task, status, events_published, sent, faults>>
    BY <1>2 DEF StopWaited
  <2>6. LoopKnown(c)'
    BY <2>2, <2>5 DEF SerialInv, LoopKnown
  <2>7. RequestKnown(c)'
    BY <2>1, <2>3, <2>4, <2>5 DEF SerialInv, RequestKnown, Waiting
  <2>8. StaleKnown(c)'
    <3>1. loops[task].pc = "failed" => faults # 0
      BY <1>t, <2>1 DEF SerialInv, LoopKnown, TypeOK
    <3> QED
      BY <2>1, <2>3, <2>5, <3>1 DEF SerialInv, StaleKnown, TaskLive, Waiting
  <2> QED
    BY <2>6, <2>7, <2>8 DEF SerialInv
<1>3. CASE StopSetIdle(c)
  <2>1. request[c].pc = "setIdle" /\ request[c].count = 0
        /\ \A i \in DOMAIN loops : loops[i].pc \notin Live
    BY <1>3 DEF StopSetIdle, SerialInv, LoopKnown, RequestKnown, Injecting
  <2>2. request'[c].pc = "idle" /\ request'[c].count = 0
    BY <1>3, RequestOf DEF StopSetIdle
  <2>3. status' = "idle" /\ UNCHANGED <<loops, task, events_published, sent, faults>>
    BY <1>3 DEF StopSetIdle
  <2> QED
    BY <2>1, <2>2, <2>3 DEF SerialInv, LoopKnown, RequestKnown, StaleKnown, Waiting
<1>4. CASE StopTimeout(c)
  <2> DEFINE k == request[c].loop
             l == Cancelled(loops[k])
  <2>1. /\ k \in DOMAIN loops /\ k = task /\ loops[k].pc \in Live
        /\ request[c].pc = "wait" /\ request[c].count = 0
    BY <1>4, <1>t DEF StopTimeout, SerialInv, RequestKnown, TypeOK, Waiting, Injecting
  <2>2. l \in RunLoop /\ l.published = loops[k].published /\ l.pc # "failed"
    BY <1>t, <2>1, CancelledLoop
  <2>9. ~l.report
    BY <1>t, <2>1, CancelledLoop DEF SerialInv, LoopKnown
  <2>3. /\ DOMAIN loops' = DOMAIN loops /\ loops'[k] = l
        /\ \A j \in DOMAIN loops : j # k => loops'[j] = loops[j]
    BY <1>4, <2>1, <2>2, LoopsOf DEF StopTimeout, Change
  <2>4. request'[c].pc = "cancel" /\ request'[c].loop = k /\ request'[c].count = 0
    BY <1>4, <2>1, <1>p, RequestOf DEF StopTimeout
  <2>5. UNCHANGED <<task, status, events_published, sent, faults>>
    BY <1>4 DEF StopTimeout
  <2> HIDE DEF l
  <2>6. LoopKnown(c)'
    BY <2>1, <2>2, <2>3, <2>4, <2>5, <2>9 DEF SerialInv, LoopKnown, Starting
  <2>7. RequestKnown(c)'
    BY <2>1, <2>4, <2>5 DEF SerialInv, RequestKnown, Waiting
  <2>8. StaleKnown(c)'
    BY <2>4 DEF StaleKnown
  <2> QED
    BY <2>6, <2>7, <2>8 DEF SerialInv
<1> QED
  BY <1>1, <1>2, <1>3, <1>4 DEF StopStep

\* A burst's steps add to what was sent before they add to the counter.
LEMMA InjectSerial ==
  ASSUME TypeOK, NEW c \in Clients, SerialInv(c), InjectBegin(c) \/ InjectStep(c)
  PROVE  SerialInv(c)'
<1>t. /\ request \in [Clients -> Request]
      /\ request[c].pc \in Pcs /\ request[c].count \in Nat
      /\ DOMAIN loops = 1 .. Len(loops) /\ sent \in Nat /\ events_published \in Nat
      /\ \A i \in DOMAIN loops : loops[i].published \in Nat
  BY TypeOf DEF TypeOK, RunLoop
<1>p. Pcs = {"idle", "reset", "setRunning", "resetStats", "initStats", "wait",
             "cancel", "setIdle", "inject", "count"}
  BY DEF Pcs, Starting, Stopping, Injecting
<1>u. UNCHANGED <<loops, task, status, faults>>
  BY DEF InjectBegin, InjectStep, InjectPublish, InjectFlush, InjectCount
<1>1. /\ request[c].pc \in {"idle", "inject", "count"}
      /\ request'[c].pc \in {"idle", "inject", "count"}
      /\ request'[c].pc \notin {"inject", "count"} => request'[c].count = 0
      /\ \E n \in {0, 1} : /\ sent' = sent + n
                           /\ events_published' + request'[c].count <=
                                events_published + request[c].count + n
                           /\ request'[c].count <= request[c].count + n
  <2>1. CASE InjectBegin(c)
    <3>1. request[c].pc = "idle" /\ request[c].count = 0
          /\ request'[c].pc = "inject" /\ request'[c].count = 0
      BY <2>1, <1>p, RequestOf DEF InjectBegin
    <3>2. sent' = sent + 0 /\ events_published' = events_published
      BY <2>1, <1>t DEF InjectBegin
    <3> QED
      BY <3>1, <3>2, <1>t
  <2>2. CASE InjectPublish(c)
    <3>1. request'[c].pc = "inject" /\ request'[c].count = request[c].count + 1
      BY <2>2, <1>t DEF InjectPublish, Request
    <3> QED
      BY <2>2, <3>1, <1>t DEF InjectPublish
  <2>3. CASE InjectFlush(c)
    BY <2>3, <1>t, <1>p, RequestOf DEF InjectFlush
  <2>4. CASE InjectCount(c)
    BY <2>4, <1>t, <1>p, RequestOf DEF InjectCount
  <2> QED
    BY <2>1, <2>2, <2>3, <2>4 DEF InjectStep
<1>2. PICK n \in {0, 1} :
        /\ sent' = sent + n
        /\ events_published' + request'[c].count <= events_published + request[c].count + n
        /\ request'[c].count <= request[c].count + n
  BY <1>1
<1>3. request'[c].count \in Nat /\ events_published' \in Nat
  <2>1. TypeOK'
    BY NextType DEF Next
  <2>2. request'[c] \in Request /\ events_published' \in Nat
    BY <2>1 DEF TypeOK
  <2> QED
    BY <2>2 DEF Request
<1>4. LoopKnown(c)'
  <2>1. ASSUME NEW i \in DOMAIN loops, loops[i].pc \in Live
        PROVE  loops[i].published + request'[c].count <= sent'
    <3>1. loops[i].published + request[c].count <= sent
      BY <2>1 DEF SerialInv, LoopKnown
    <3>2. /\ loops[i].published \in Nat /\ request[c].count \in Nat
          /\ sent \in Nat /\ request'[c].count \in Nat /\ n \in Nat
      BY <1>t, <1>2, <1>3
    <3> QED
      BY <3>1, <3>2, <1>2
  <2>2. ASSUME NEW i \in DOMAIN loops, loops[i].pc \in Live
        PROVE  i = task /\ status = "running"
    BY <2>2 DEF SerialInv, LoopKnown
  <2>3. ASSUME NEW i \in DOMAIN loops
        PROVE  /\ loops[i].report => loops[i].pc \in Passes
               /\ loops[i].pc = "failed" => faults > 0
    BY DEF SerialInv, LoopKnown
  <2> QED
    BY <2>1, <2>2, <2>3, <1>1, <1>u DEF LoopKnown, Starting
<1>5. RequestKnown(c)'
  <2>1. events_published' + request'[c].count <= sent'
    <3>1. events_published + request[c].count <= sent
      BY DEF SerialInv, RequestKnown
    <3>2. /\ events_published \in Nat /\ request[c].count \in Nat /\ sent \in Nat
          /\ events_published' \in Nat /\ request'[c].count \in Nat /\ n \in Nat
      BY <1>t, <1>2, <1>3
    <3>3. /\ sent' = sent + n
          /\ events_published' + request'[c].count <= events_published + request[c].count + n
      BY <1>2
    <3> QED
      BY <3>1, <3>2, <3>3
  <2> QED
    BY <2>1, <1>1 DEF RequestKnown, Waiting, Injecting
<1>6. StaleKnown(c)'
  BY <1>1, <1>u DEF SerialInv, StaleKnown, TaskLive
<1> QED
  BY <1>4, <1>5, <1>6 DEF SerialInv

\* A live loop becomes m: what m and the rest must satisfy.
LEMMA LoopBecomes ==
  ASSUME TypeOK, NEW c \in Clients, SerialInv(c),
         NEW i \in DOMAIN loops, loops[i].pc \in Live,
         NEW m \in RunLoop, Change(i, m), UNCHANGED <<request, task>>,
         m.report => m.pc \in Passes,
         m.pc = "failed" => faults' > 0,
         faults' \in Nat, faults' >= faults,
         m.pc \in Live => status' = status /\ m.published + request[c].count <= sent',
         m.pc \notin Live => status' = "idle" \/ faults' > 0,
         events_published' + request[c].count <= sent'
  PROVE  SerialInv(c)'
<1>1. /\ DOMAIN loops' = DOMAIN loops /\ loops'[i] = m
      /\ \A j \in DOMAIN loops : j # i => loops'[j] = loops[j]
  BY LoopsOf
<1>2. /\ i = task /\ status = "running" /\ faults \in Nat
      /\ request[c].pc \notin Starting \union {"setIdle"}
      /\ \A j \in DOMAIN loops : j # i => loops[j].pc \notin Live
  BY DEF SerialInv, LoopKnown, TypeOK
<1>3. LoopKnown(c)'
  <2>1. ASSUME NEW j \in DOMAIN loops, j # i
        PROVE  /\ loops'[j].pc \notin Live
               /\ loops'[j].report => loops'[j].pc \in Passes
               /\ loops'[j].pc = "failed" => faults' > 0
    BY <2>1, <1>1, <1>2 DEF SerialInv, LoopKnown
  <2>2. m.pc \in Live =>
          /\ i = task' /\ status' = "running"
          /\ request'[c].pc \notin Starting \union {"setIdle"}
          /\ m.published + request'[c].count <= sent'
    BY <1>2
  <2> QED
    BY <2>1, <2>2, <1>1 DEF LoopKnown
<1>4. RequestKnown(c)'
  BY <1>2 DEF SerialInv, RequestKnown, Starting
<1>5. StaleKnown(c)'
  <2>1. task # 0
    BY <1>2, TypeOf
  <2>2. TaskLive' <=> m.pc \in Live
    BY <1>1, <1>2, <2>1 DEF TaskLive
  <2> QED
    BY <2>2, <1>2 DEF StaleKnown
<1> QED
  BY <1>3, <1>4, <1>5 DEF SerialInv

LEMMA LoopSerial ==
  ASSUME TypeOK, NEW c \in Clients, SerialInv(c),
         NEW i \in DOMAIN loops, LoopPublish(i) \/ LoopStep(i) \/ LoopFails(i)
  PROVE  SerialInv(c)'
<1> DEFINE l == loops[i]
<1>t. /\ l \in RunLoop /\ l.published \in Nat /\ l.left \in Nat
      /\ request[c].count \in Nat /\ sent \in Nat /\ events_published \in Nat
      /\ faults \in Nat
  BY TypeOf DEF TypeOK, RunLoop
<1>n. TypeOK'
  BY NextType DEF Next
<1>0. l.pc \in Live /\ (l.report => l.pc \in Passes)
  BY DEF SerialInv, LoopKnown, LoopPublish, LoopStep, LoopReport, LoopPassEnds,
         LoopClose, LoopClear, LoopFails, Live
<1>k. /\ l.published + request[c].count <= sent
      /\ events_published + request[c].count <= sent
      /\ status = "running"
  BY <1>0 DEF SerialInv, LoopKnown, RequestKnown
<1>1. CASE LoopPublish(i)
  <2> DEFINE m == [l EXCEPT !.left = @ - 1, !.published = @ + 1,
                            !.report = (l.published + 1) % ReportEvery = 0]
  <2>1. l.left - 1 \in Nat /\ l.published + 1 \in Nat
    BY <1>1, <1>t DEF LoopPublish
  <2>2. m \in RunLoop /\ m.pc = l.pc /\ m.published = l.published + 1
    BY <2>1, <1>t DEF RunLoop
  <2>3. /\ Change(i, m) /\ sent' = sent + 1 /\ l.pc \in Passes
        /\ UNCHANGED <<request, task, status, events_published, faults>>
    BY <1>1 DEF LoopPublish
  <2>4. /\ m.published + request[c].count <= sent'
        /\ events_published' + request[c].count <= sent'
    BY <2>2, <2>3, <1>t, <1>k
  <2>5. m.pc \in Live /\ m.pc # "failed" /\ m.pc \in Passes
    BY <2>2, <2>3 DEF Passes, Live
  <2> HIDE DEF m, l
  <2> QED
    BY <2>2, <2>3, <2>4, <2>5, <1>0, <1>t, LoopBecomes DEF l
<1>2. CASE LoopReport(i) \/ LoopClose(i)
  <2>1. PICK m \in {[l EXCEPT !.report = FALSE], [l EXCEPT !.pc = "clearing"]} :
          /\ Change(i, m) /\ events_published' = l.published
          /\ m.report => l.pc = "closing" /\ l.report
          /\ UNCHANGED <<request, task, status, sent, faults>>
    BY <1>2, <1>t DEF LoopReport, LoopClose, Reported, RunLoop
  <2>2. m \in RunLoop /\ m.pc \in Live /\ m.pc # "failed" /\ m.published = l.published
    BY <2>1, <1>t, <1>0 DEF RunLoop, Live, Passes
  <2>3. ~m.report
    BY <2>1, <1>0 DEF Passes
  <2> HIDE DEF l
  <2> QED
    BY <2>1, <2>2, <2>3, <1>0, <1>k, <1>t, LoopBecomes DEF l
<1>3. CASE LoopPassEnds(i)
  <2>1. PICK m \in {[l EXCEPT !.pc = "file", !.left = FileLen], [l EXCEPT !.pc = "closing"]} :
          Change(i, m)
    BY <1>3 DEF LoopPassEnds
  <2>2. ~l.report /\ UNCHANGED <<request, task, status, events_published, sent, faults>>
    BY <1>3 DEF LoopPassEnds
  <2>3. m \in RunLoop /\ m.pc \in Live /\ m.pc # "failed"
        /\ m.published = l.published /\ ~m.report
    BY <2>1, <2>2, <1>t, LengthsAssumption DEF RunLoop, Live, Passes
  <2> HIDE DEF l
  <2> QED
    BY <2>1, <2>2, <2>3, <1>0, <1>k, <1>t, LoopBecomes DEF l
<1>4. CASE LoopClear(i)
  <2> DEFINE m == [l EXCEPT !.pc = l.ending]
  <2>1. m \in RunLoop /\ m.pc \in {"done", "cancelled"} /\ m.report = l.report
    BY <1>t DEF RunLoop, Ended
  <2>2. Change(i, m) /\ status' = "idle"
        /\ UNCHANGED <<request, task, events_published, sent, faults>>
    BY <1>4 DEF LoopClear, Cleared
  <2>3. ~m.report
    BY <2>1, <1>0, <1>4 DEF LoopClear, Passes
  <2>4. m.pc \notin Live /\ m.pc # "failed"
    BY <2>1 DEF Live, Passes
  <2> HIDE DEF m, l
  <2> QED
    BY <2>1, <2>2, <2>3, <2>4, <1>0, <1>k, <1>t, LoopBecomes DEF l
<1>5. CASE LoopFails(i)
  <2>1. PICK m \in {[l EXCEPT !.pc = "closing", !.report = FALSE], [l EXCEPT !.pc = "failed"]} :
          Change(i, m) /\ (m.report => l.report /\ l.pc \in {"closing", "clearing"})
    BY <1>5, <1>t DEF LoopFails, RunLoop
  <2>2. faults' = faults + 1 /\ UNCHANGED <<request, task, status, events_published, sent>>
    BY <1>5 DEF LoopFails
  <2>3. m \in RunLoop /\ m.published = l.published
    BY <2>1, <1>t DEF RunLoop, Live, Ended
  <2>4. ~m.report
    BY <2>1, <1>0 DEF Passes
  <2> HIDE DEF l
  <2> QED
    BY <2>1, <2>2, <2>3, <2>4, <1>0, <1>k, <1>t, LoopBecomes DEF l
<1> QED
  BY <1>1, <1>2, <1>3, <1>4, <1>5 DEF LoopStep

LEMMA FailSerial ==
  ASSUME TypeOK, NEW c \in Clients, SerialInv(c), RequestFails(c) \/ Crash
  PROVE  SerialInv(c)'
<1>t. /\ request[c].pc \in Pcs /\ request[c].count \in Nat
      /\ DOMAIN loops = 1 .. Len(loops) /\ sent \in Nat /\ events_published \in Nat
      /\ faults \in Nat
      /\ \A i \in DOMAIN loops : loops[i] \in RunLoop /\ loops[i].published \in Nat
  BY TypeOf DEF TypeOK, RunLoop
<1>1. /\ request'[c].pc = "idle" /\ request'[c].count = 0 /\ faults' = faults + 1
      /\ UNCHANGED <<status, events_published, sent>>
  BY RequestOf DEF RequestFails, Crash, Idle
<1>2. RequestKnown(c)'
  BY <1>1, <1>t DEF SerialInv, RequestKnown, Waiting
<1>3. StaleKnown(c)'
  BY <1>1, <1>t DEF StaleKnown
<1>4. CASE RequestFails(c)
  <2>1. UNCHANGED <<loops, task>>
    BY <1>4 DEF RequestFails
  <2>2. LoopKnown(c)'
    BY <2>1, <1>1, <1>t DEF SerialInv, LoopKnown, Starting
  <2> QED
    BY <2>2, <1>2, <1>3 DEF SerialInv
<1>5. CASE Crash
  <2>1. \A i \in DOMAIN loops' : i \in DOMAIN loops /\ loops'[i] = Killed(loops[i])
    BY <1>5 DEF Crash
  <2>2. \A i \in DOMAIN loops :
          /\ Killed(loops[i]).pc \notin Live
          /\ Killed(loops[i]).report => loops[i].report /\ loops[i].pc \notin Live
    BY <1>t DEF Killed, Live, Passes, RunLoop
  <2>3. faults' > 0
    BY <1>1, <1>t
  <2>4. \A i \in DOMAIN loops : loops[i].report => loops[i].pc \in Live
    BY DEF SerialInv, LoopKnown, Live
  <2>5. LoopKnown(c)'
    BY <2>1, <2>2, <2>3, <2>4 DEF LoopKnown
  <2> QED
    BY <2>5, <1>2, <1>3 DEF SerialInv
<1> QED
  BY <1>4, <1>5

LEMMA NextSerial ==
  ASSUME NEW c, Clients = {c}, TypeOK, SerialInv(c), [Next]_vars
  PROVE  SerialInv(c)'
<1>0. c \in Clients /\ \A d \in Clients : d = c
  OBVIOUS
<1>1. CASE \E d \in Clients : StartCheck(d) \/ StartStep(d)
  BY <1>0, <1>1, StartSerial
<1>2. CASE \E d \in Clients : StopSet(d) \/ StopStep(d) \/ StopTimeout(d)
  BY <1>0, <1>2, StopSerial
<1>3. CASE \E d \in Clients : InjectBegin(d) \/ InjectStep(d)
  BY <1>0, <1>3, InjectSerial
<1>4. CASE \E i \in DOMAIN loops : LoopPublish(i) \/ LoopStep(i) \/ LoopFails(i)
  BY <1>0, <1>4, LoopSerial
<1>5. CASE (\E d \in Clients : RequestFails(d)) \/ Crash
  BY <1>0, <1>5, FailSerial
<1>6. CASE UNCHANGED vars
  BY <1>6 DEF vars, SerialInv, LoopKnown, RequestKnown, StaleKnown, TaskLive
<1> QED
  BY <1>1, <1>2, <1>3, <1>4, <1>5, <1>6 DEF Next

\* What SerialInv says, for the one client there is.
LEMMA SerialGives ==
  ASSUME NEW c, Clients = {c}, TypeOK, SerialInv(c)
  PROVE  OneLoop /\ RunningShown /\ StaleNeedsFault /\ NeverOvercounts
<1>0. c \in Clients
  OBVIOUS
<1>1. OneLoop
  BY DEF OneLoop, Unfinished, SerialInv, LoopKnown
<1>2. RunningShown
  BY DEF RunningShown, Publishing, SerialInv, LoopKnown, Live
<1>3. StaleNeedsFault
  <2> SUFFICES ASSUME Quiet, status = "running", Unfinished = {} PROVE faults > 0
    BY DEF StaleNeedsFault
  <2>1. request[c].pc = "idle"
    BY <1>0, RequestOf DEF Quiet
  <2>2. ~TaskLive
    BY TypeOf DEF TaskLive, Unfinished, TypeOK
  <2>3. faults # 0 /\ faults \in Nat
    BY <2>1, <2>2 DEF SerialInv, StaleKnown, TypeOK
  <2> QED
    BY <2>3
<1>4. NeverOvercounts
  <2>1. request[c].count \in Nat /\ events_published \in Nat /\ sent \in Nat
    BY <1>0, TypeOf DEF TypeOK
  <2> QED
    BY <2>1 DEF NeverOvercounts, SerialInv, RequestKnown
<1> QED
  BY <1>1, <1>2, <1>3, <1>4

\* With one client at a time the invariant holds, through every failure,
\* timeout and crash.
LEMMA SerialHolds ==
  ASSUME NEW CONSTANT c, Clients = {c}
  PROVE  Spec => [](TypeOK /\ SerialInv(c))
<1>1. Init => TypeOK /\ SerialInv(c)
  BY InitType, InitSerial
<1>2. TypeOK /\ SerialInv(c) /\ [Next]_vars => (TypeOK /\ SerialInv(c))'
  BY NextType, NextSerial
<1> QED
  BY <1>1, <1>2, PTL DEF Spec

\* As long as one request is made at a time, at most one loop is live: start's
\* guard is enough, although a stop that timed out leaves its loop in its
\* finally clause and a crash leaves the status behind (start, stop, _run_loop).
THEOREM SerialOneLoop ==
  ASSUME NEW CONSTANT c, Clients = {c}
  PROVE  Spec => []OneLoop
<1>1. TypeOK /\ SerialInv(c) => OneLoop
  BY SerialGives
<1> QED
  BY <1>1, SerialHolds, PTL

\* What publishes is shown as running, and "running" without a loop comes of a
\* failed await or a crash, never of a stop that timed out (start, stop,
\* _run_loop's finally clause).
THEOREM SerialSafe ==
  ASSUME NEW CONSTANT c, Clients = {c}
  PROVE  Spec => []StatusTruthful
<1>1. TypeOK /\ SerialInv(c) => StatusTruthful
  BY SerialGives DEF StatusTruthful
<1> QED
  BY <1>1, SerialHolds, PTL

\* The counter never exceeds the events sent, although a loop sets it and an
\* injected burst adds to it (_run_loop, inject_burst).
THEOREM SerialCounts ==
  ASSUME NEW CONSTANT c, Clients = {c}
  PROVE  Spec => []NeverOvercounts
<1>1. TypeOK /\ SerialInv(c) => NeverOvercounts
  BY SerialGives
<1> QED
  BY <1>1, SerialHolds, PTL
=============================================================================
