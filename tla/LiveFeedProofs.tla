---------------------------- MODULE LiveFeedProofs ----------------------------
(***************************************************************************)
(* Proofs about LiveFeed: type correctness, with the bounds of buffers and *)
(* pages, and that a browser never holds two connections.                  *)
(***************************************************************************)
EXTENDS LiveFeed, TLAPS, SequenceTheorems

\* The page's rows.
LEMMA ListedRows == TypeOK => Listed \in Rows
<1> SUFFICES ASSUME TypeOK PROVE Listed \in Rows
  OBVIOUS
<1> DEFINE n == Smaller(Limit, Len(table))
<1>1. table \in Seq(Row) /\ Len(table) \in Nat
  BY DEF TypeOK
<1>2. n \in Nat /\ n <= Limit /\ n <= Len(table)
  BY <1>1, BoundAssumption DEF Smaller
<1>3. ASSUME NEW i \in 1..n PROVE table[Len(table) + 1 - i] \in Row
  <2>1. Len(table) + 1 - i \in 1..Len(table)
    BY <1>1, <1>2
  <2> QED
    BY <1>1, <2>1, ElementOfSeq
<1>4. Listed = [i \in 1..n |-> table[Len(table) + 1 - i]]
  BY DEF Listed
<1> HIDE DEF n
<1>5. Listed \in Seq(Row)
  BY <1>2, <1>3, <1>4
<1>6. Len(Listed) = n
  BY <1>2, <1>4, <1>5, LenProperties
<1> QED
  BY <1>2, <1>5, <1>6 DEF Rows

\* Where the rows of three sequences in a row are.
Three(a, row, b) == a \o <<row>> \o b

LEMMA Joined ==
  ASSUME NEW a \in Seq(Row), NEW row \in Row, NEW b \in Seq(Row)
  PROVE  /\ Three(a, row, b) \in Seq(Row) /\ Len(Three(a, row, b)) = Len(a) + 1 + Len(b)
         /\ \A i \in 1..Len(Three(a, row, b)) :
              Three(a, row, b)[i] = IF i <= Len(a) THEN a[i]
                                    ELSE IF i = Len(a) + 1 THEN row ELSE b[i - (Len(a) + 1)]
  BY DEF Three

\* The row the seed puts between the older and the newer ones.
With(q, k, row) == SubSeq(q, 1, k) \o <<row>> \o SubSeq(q, k + 1, Len(q))

LEMMA Between ==
  ASSUME NEW q \in Seq(Row), NEW row \in Row, NEW k \in 0..Len(q)
  PROVE  /\ With(q, k, row) \in Seq(Row)
         /\ Len(With(q, k, row)) = Len(q) + 1 /\ Len(q) \in Nat
         /\ \A i \in 1..(Len(q) + 1) :
              With(q, k, row)[i] = IF i <= k THEN q[i] ELSE IF i = k + 1 THEN row ELSE q[i - 1]
<1>1. Len(q) \in Nat /\ k \in Nat /\ k <= Len(q)
  BY LenProperties
<1> DEFINE a == SubSeq(q, 1, k)
           b == SubSeq(q, k + 1, Len(q))
           new == With(q, k, row)
<1>2. \A i \in 1..Len(q) : q[i] \in Row
  BY ElementOfSeq
<1>3. /\ a \in Seq(Row) /\ Len(a) = k
      /\ \A i \in 1..k : a[i] = q[i]
  BY <1>1, <1>2, SubSeqProperties
<1>4. /\ b \in Seq(Row) /\ Len(b) = Len(q) - k
      /\ \A i \in 1..(Len(q) - k) : b[i] = q[k + i]
  BY <1>1, <1>2, SubSeqProperties
<1>5. new = Three(a, row, b)
  BY DEF With, Three
<1> HIDE DEF a, b, new
<1>6. /\ new \in Seq(Row) /\ Len(new) = Len(a) + 1 + Len(b)
      /\ \A i \in 1..Len(new) :
           new[i] = IF i <= Len(a) THEN a[i]
                    ELSE IF i = Len(a) + 1 THEN row ELSE b[i - (Len(a) + 1)]
  <2>1. a \in Seq(Row) /\ b \in Seq(Row)
    BY <1>3, <1>4
  <2> QED
    BY <1>5, <2>1, Joined
<1>7. Len(new) = Len(q) + 1
  BY <1>1, <1>3, <1>4, <1>6
<1>8. ASSUME NEW i \in 1..(Len(q) + 1)
      PROVE  new[i] = IF i <= k THEN q[i] ELSE IF i = k + 1 THEN row ELSE q[i - 1]
  <2>1. CASE i <= k + 1
    BY <1>1, <1>3, <1>6, <1>7, <2>1
  <2>2. CASE i > k + 1
    <3>1. i - (k + 1) \in 1..(Len(q) - k) /\ k + (i - (k + 1)) = i - 1
      BY <1>1, <2>2
    <3>2. new[i] = b[i - (k + 1)]
      BY <1>1, <1>3, <1>6, <1>7, <2>2
    <3>3. b[i - (k + 1)] = q[k + (i - (k + 1))]
      BY <1>4, <3>1
    <3>4. b[i - (k + 1)] = q[i - 1]
      BY <3>1, <3>3
    <3>5. ~(i <= k) /\ i # k + 1
      BY <1>1, <2>2
    <3> QED
      BY <3>2, <3>4, <3>5
  <2> QED
    BY <1>1, <2>1, <2>2
<1> QED
  BY <1>1, <1>6, <1>7, <1>8 DEF new

\* A fold raises the score of the row and leaves the rest of it.
LEMMA RaisedRow ==
  ASSUME NEW row \in Row
  PROVE  /\ Raised(row) \in Row /\ Raised(row).id = row.id /\ Raised(row).status = row.status
         /\ Raised(row).score \in Nat
  BY DEF Raised, Row

\* A new alert's row is put in front, and the page is cut to its limit.
LEMMA PrependedRows ==
  ASSUME TypeOK, NEW row \in Row
  PROVE  Prepended(row) \in Rows
<1> DEFINE next == <<row>> \o (IF cache = None THEN <<>> ELSE cache)
           n == Smaller(Limit, Len(next))
<1>1. next \in Seq(Row) /\ Len(next) \in Nat
  <2>1. (IF cache = None THEN <<>> ELSE cache) \in Seq(Row)
    BY DEF TypeOK, Rows
  <2> QED
    BY <2>1
<1>2. n \in Nat /\ n <= Limit /\ n <= Len(next)
  BY <1>1, BoundAssumption DEF Smaller
<1>3. Prepended(row) = SubSeq(next, 1, n)
  BY DEF Prepended
<1> HIDE DEF next, n
<1>4. SubSeq(next, 1, n) \in Seq(Row) /\ Len(SubSeq(next, 1, n)) = n
  BY <1>1, <1>2, SubSeqProperties
<1> QED
  BY <1>2, <1>3, <1>4 DEF Rows

\* An update replaces one row.
LEMMA MergedRows ==
  ASSUME TypeOK, NEW row \in Row
  PROVE  Merged(row) \in {None} \cup Rows
<1>1. CASE cache = None
  BY <1>1 DEF Merged
<1>2. CASE cache # None
  <2>1. cache \in Seq(Row) /\ Len(cache) \in Nat /\ Len(cache) <= Limit
    BY <1>2 DEF TypeOK, Rows
  <2> DEFINE at(i) == IF cache[i].id = row.id /\ \A j \in 1..(i - 1) : cache[j].id # row.id
                      THEN row ELSE cache[i]
  <2>2. Merged(row) = [i \in 1..Len(cache) |-> at(i)]
    BY <1>2, <2>1 DEF Merged
  <2>3. \A i \in 1..Len(cache) : at(i) \in Row
    BY <2>1, ElementOfSeq
  <2> HIDE DEF at
  <2>4. Merged(row) \in Seq(Row)
    BY <2>1, <2>2, <2>3
  <2>5. Len(Merged(row)) = Len(cache)
    BY <2>1, <2>2, <2>4, LenProperties
  <2> QED
    BY <2>1, <2>4, <2>5 DEF Rows
<1> QED
  BY <1>1, <1>2

LEMMA InitType == Init => TypeOK
<1> SUFFICES ASSUME Init PROVE TypeOK
  OBVIOUS
<1>1. table \in Seq(Row)
  <2>1. \A i \in 1..Seeded : NewRow(i) \in Row
    BY DEF NewRow, Row, Statuses
  <2> QED
    BY <2>1, BoundAssumption DEF Init
<1>2. /\ sock \in [Sockets -> {"none", "connecting", "open", "closed"}]
      /\ queue \in [Sockets -> Queue]
  <2>1. <<>> \in Queue
    BY BoundAssumption DEF Queue
  <2> QED
    BY <2>1 DEF Init
<1>3. 1 \in Own /\ Peer \in Sockets /\ 0 \in 0..MaxFaults
  BY BoundAssumption DEF Own, Sockets
<1>4. /\ writes \in Nat /\ consumer \in ConsumerStates /\ timers \in Nat
      /\ cache \in {None} \cup Rows /\ clean \in BOOLEAN
      /\ fetch \in {Idle} \cup [at : {"answered"}, rows : Rows]
  BY DEF Init, ConsumerStates
<1>5. connections \subseteq Sockets /\ serving \subseteq Sockets /\ socket \in Own
      /\ faults \in 0..MaxFaults
  BY <1>3 DEF Init
<1> QED
  BY <1>1, <1>2, <1>4, <1>5 DEF TypeOK

LEMMA SeedRows ==
  ASSUME TypeOK, NEW k \in 0..Len(table), SeedInsert(k)
  PROVE  LET row == NewRow(Len(table) + 1)
         IN  /\ table' \in Seq(Row) /\ Len(table') = Len(table) + 1
             /\ \A i \in 1..(Len(table) + 1) :
                  table'[i] = IF i <= k THEN table[i] ELSE IF i = k + 1 THEN row ELSE table[i - 1]
<1>1. table \in Seq(Row) /\ Len(table) \in Nat
  <2>1. table \in Seq(Row)
    BY DEF TypeOK
  <2> QED
    BY <2>1, LenProperties
<1>2. NewRow(Len(table) + 1) \in Row
  BY <1>1 DEF NewRow, Row, Statuses
<1>3. table' = With(table, k, NewRow(Len(table) + 1))
  BY DEF SeedInsert, With
<1>4. /\ With(table, k, NewRow(Len(table) + 1)) \in Seq(Row)
      /\ Len(With(table, k, NewRow(Len(table) + 1))) = Len(table) + 1
      /\ \A i \in 1..(Len(table) + 1) :
           With(table, k, NewRow(Len(table) + 1))[i] =
             IF i <= k THEN table[i] ELSE IF i = k + 1 THEN NewRow(Len(table) + 1) ELSE table[i - 1]
  BY <1>1, <1>2, Between
<1> QED
  BY <1>3, <1>4

LEMMA NextType == TypeOK /\ [Next]_vars => TypeOK'
<1> SUFFICES ASSUME TypeOK, [Next]_vars PROVE TypeOK'
  OBVIOUS
<1> USE DEF TypeOK, server, client, page
<1>0. /\ table \in Seq(Row) /\ Len(table) \in Nat /\ DOMAIN table = 1..Len(table)
      /\ \A i \in DOMAIN table : table[i] \in Row
  <2>1. table \in Seq(Row)
    OBVIOUS
  <2> HIDE DEF TypeOK
  <2>2. Len(table) \in Nat /\ DOMAIN table = 1..Len(table)
    BY <2>1
  <2>3. \A i \in 1..Len(table) : table[i] \in Row
    BY <2>1, ElementOfSeq
  <2> QED
    BY <2>1, <2>2, <2>3
<1>n. NewRow(Len(table) + 1) \in Row
  BY <1>0 DEF NewRow, Row, Statuses
<1>1. CASE UNCHANGED vars
  BY <1>1 DEF vars, ConsumerStates
<1>2. CASE Insert
  <2>1. table' \in Seq(Row)
    BY <1>0, <1>2, <1>n DEF Insert
  <2>2. consumer' \in [at : {"refresh", "announce"}, msg : Message]
    BY <1>2, <1>n DEF Insert, Message
  <2> QED
    BY <1>2, <2>1, <2>2 DEF Insert, ConsumerStates
<1>3. ASSUME NEW i \in DOMAIN table, FoldLoad(i) PROVE TypeOK'
  <2>1. table[i] \in Row
    BY <1>0
  <2>2. consumer' \in [at : {"loaded"}, row : Row]
    BY <1>3, <2>1 DEF FoldLoad
  <2> QED
    BY <1>3, <2>2 DEF FoldLoad, ConsumerStates
<1>r. ASSUME consumer.at = "loaded"
      PROVE  /\ consumer.row \in Row /\ Raised(consumer.row) \in Row
             /\ Folded \in Seq(Row)
  <2>1. consumer \in [at : {"loaded"}, row : Row]
    BY <1>r DEF ConsumerStates, Idle
  <2>2. consumer.row \in Row
    BY <2>1
  <2>3. Raised(consumer.row) \in Row /\ Raised(consumer.row).score \in Nat
    BY <2>2, RaisedRow
  <2>4. \A i \in DOMAIN table : [table[i] EXCEPT !.score = Raised(consumer.row).score] \in Row
    BY <1>0, <2>3 DEF Row
  <2>5. Folded \in [1..Len(table) -> Row]
    BY <1>0, <2>4 DEF Folded
  <2>6. Folded \in Seq(Row)
    BY <1>0, <2>5
  <2> QED
    BY <2>2, <2>3, <2>6
<1>4. CASE FoldCommit
  <2>1. consumer' \in [at : {"refresh", "announce"}, msg : Message]
    BY <1>4, <1>r DEF FoldCommit, Message
  <2>2. table' \in Seq(Row)
    BY <1>4, <1>r DEF FoldCommit
  <2> QED
    BY <1>4, <2>1, <2>2 DEF FoldCommit, ConsumerStates
<1>5. ASSUME NEW i \in DOMAIN table, Triage(i) PROVE TypeOK'
  <2>1. table' = [table EXCEPT ![i] = [table[i] EXCEPT !.status = "dismissed"]]
    BY <1>5 DEF Triage
  <2>2. [table[i] EXCEPT !.status = "dismissed"] \in Row
    BY <1>0 DEF Row, Statuses
  <2>3. table' \in Seq(Row)
    BY <1>0, <2>1, <2>2, ExceptSeq
  <2> QED
    BY <1>5, <2>3 DEF Triage, ConsumerStates
<1>21. CASE Refresh
  <2>1. PICK i \in DOMAIN table :
          consumer' = [at |-> "announce", msg |-> [consumer.msg EXCEPT !.alert = table[i]]]
    BY <1>21 DEF Refresh
  <2>2. consumer \in [at : {"refresh", "announce"}, msg : Message]
    BY <1>21 DEF Refresh, ConsumerStates, Idle
  <2>3. [consumer.msg EXCEPT !.alert = table[i]] \in Message
    BY <1>0, <2>2 DEF Message
  <2>4. consumer' \in [at : {"refresh", "announce"}, msg : Message]
    BY <2>1, <2>3
  <2> QED
    BY <1>21, <2>4 DEF Refresh, ConsumerStates
<1>22. CASE RefreshFails
  <2>1. faults' \in 0..MaxFaults
    BY <1>22, BoundAssumption DEF RefreshFails
  <2> QED
    BY <1>22, <2>1 DEF RefreshFails, ConsumerStates
<1>23. CASE FoldFails
  <2>1. faults' \in 0..MaxFaults
    BY <1>23, BoundAssumption DEF FoldFails
  <2>2. table' \in Seq(Row) /\ clean' \in BOOLEAN
    BY <1>23, <1>r DEF FoldFails
  <2> QED
    BY <1>23, <2>1, <2>2 DEF FoldFails, ConsumerStates
<1>24. ASSUME NEW k \in 0..Len(table), SeedInsert(k) PROVE TypeOK'
  <2>1. table' \in Seq(Row)
    <3> HIDE DEF TypeOK
    <3> QED
      BY <1>24, SeedRows
  <2>2. /\ writes' = writes + 1 /\ clean' = FALSE
        /\ consumer' = consumer /\ connections' = connections /\ serving' = serving
        /\ queue' = queue /\ sock' = sock /\ socket' = socket /\ timers' = timers
        /\ cache' = cache /\ fetch' = fetch /\ faults' = faults
    BY <1>24, Zenon DEF SeedInsert
  <2>3. writes' \in Nat /\ clean' \in BOOLEAN
    <3>1. writes' = writes + 1 /\ writes \in Nat
      BY <2>2, Zenon
    <3>2. clean' \in BOOLEAN
      BY <2>2, Zenon
    <3> HIDE DEF TypeOK
    <3> QED
      BY <3>1, <3>2
  <2>4. /\ consumer' \in ConsumerStates /\ connections' \subseteq Sockets
        /\ serving' \subseteq Sockets /\ socket' \in Own
    BY <2>2, Zenon
  <2>5. /\ sock' \in [Sockets -> {"none", "connecting", "open", "closed"}]
        /\ queue' \in [Sockets -> Queue]
    BY <2>2, Zenon
  <2>6. /\ timers' \in Nat /\ faults' \in 0..MaxFaults
        /\ cache' \in {None} \cup Rows
        /\ fetch' \in {Idle} \cup [at : {"answered"}, rows : Rows]
    BY <2>2, Zenon
  <2> QED
    BY <2>1, <2>3, <2>4, <2>5, <2>6
<1>6. CASE Copy
  <2>1. consumer \in [at : {"refresh", "announce"}, msg : Message]
    BY <1>6 DEF Copy, ConsumerStates, Idle
  <2>2. consumer' \in {Idle} \cup
                      [at : {"send"}, msg : Message, waits : SUBSET Sockets, failed : SUBSET Sockets]
    BY <1>6, <2>1 DEF Copy
  <2> QED
    BY <1>6, <2>2 DEF Copy, ConsumerStates
<1> DEFINE Sending == [at : {"send"}, msg : Message, waits : SUBSET Sockets, failed : SUBSET Sockets]
<1>7. consumer.at = "send" => consumer \in Sending
  BY DEF ConsumerStates, Idle
<1>8. ASSUME NEW s \in Sockets, Send(s) PROVE TypeOK'
  <2>1. consumer \in Sending
    BY <1>7, <1>8 DEF Send
  <2>2. consumer' \in Sending
    <3>1. consumer' = [consumer EXCEPT !.waits = consumer.waits \ {s}]
      BY <1>8 DEF Send
    <3> QED
      BY <2>1, <3>1
  <2>3. queue' \in [Sockets -> Queue]
    <3>1. Append(queue[s], consumer.msg) \in Queue
      <4>1. queue[s] \in Seq(Message) /\ Len(queue[s]) \in Nat /\ Len(queue[s]) < Buffer
        BY <1>8 DEF Send, HasRoom, Queue
      <4>2. consumer.msg \in Message
        BY <2>1
      <4> QED
        BY <4>1, <4>2, BoundAssumption DEF Queue
    <3> QED
      BY <1>8, <3>1 DEF Send
  <2> QED
    BY <1>8, <2>2, <2>3 DEF Send, ConsumerStates
<1>9. ASSUME NEW s \in Sockets, SendFails(s) PROVE TypeOK'
  <2>1. consumer \in Sending
    BY <1>7, <1>9 DEF SendFails
  <2>2. consumer' = [consumer EXCEPT !.waits = consumer.waits \ {s},
                                     !.failed = consumer.failed \cup {s}]
    BY <1>9 DEF SendFails, Failed
  <2>3. consumer' \in Sending
    BY <2>1, <2>2
  <2> QED
    BY <1>9, <2>3 DEF SendFails, ConsumerStates
<1>10. CASE Reap
  BY <1>10 DEF Reap, ConsumerStates
<1>11. ASSUME NEW s \in Sockets, Leave(s) PROVE TypeOK'
  BY <1>11 DEF Leave, Left, ConsumerStates
<1>12. CASE Keepalive
  BY <1>12 DEF Keepalive, ConsumerStates
<1>13. ASSUME NEW s \in Own, Accept(s) PROVE TypeOK'
  BY <1>13 DEF Accept, ConsumerStates, Sockets
<1>14. ASSUME NEW s \in Own, Receive(s) PROVE TypeOK'
  <2>1. s \in Sockets /\ queue[s] \in Seq(Message) /\ queue[s] # <<>> /\ Len(queue[s]) <= Buffer
    BY <1>14 DEF Receive, Queue, Sockets
  <2>2. Head(queue[s]) \in Message /\ Head(queue[s]).alert \in Row
    <3>1. Head(queue[s]) \in Message
      BY <2>1, HeadTailProperties
    <3> QED
      BY <3>1 DEF Message
  <2>3. cache' \in {None} \cup Rows
    BY <1>14, <2>2, PrependedRows, MergedRows DEF Receive
  <2>4. queue' \in [Sockets -> Queue]
    <3>1. Tail(queue[s]) \in Queue
      BY <2>1, BoundAssumption DEF Queue
    <3> QED
      BY <1>14, <3>1 DEF Receive
  <2> QED
    BY <1>14, <2>3, <2>4 DEF Receive, ConsumerStates
<1>15. ASSUME NEW s \in Own, Break(s) PROVE TypeOK'
  <2>1. queue' \in [Sockets -> Queue]
    <3>1. <<>> \in Queue
      BY BoundAssumption DEF Queue
    <3> QED
      BY <1>15, <3>1 DEF Break
  <2>2. sock' \in [Sockets -> {"none", "connecting", "open", "closed"}]
    BY <1>15 DEF Break
  <2>3. faults' \in 0..MaxFaults /\ timers' \in Nat
    BY <1>15, BoundAssumption DEF Break, Rescheduled
  <2> QED
    BY <1>15, <2>1, <2>2, <2>3 DEF Break, ConsumerStates
<1>16. ASSUME Connected
       PROVE  socket' \in Own /\ sock' \in [Sockets -> {"none", "connecting", "open", "closed"}]
  <2>1. CASE MayConnect /\ socket < MaxFaults + 1
    <3>1. socket \in Nat /\ socket + 1 \in Own
      BY <2>1, BoundAssumption DEF Own
    <3>2. socket' = socket + 1 /\ sock' = [sock EXCEPT ![socket + 1] = "connecting"]
      BY <1>16, <2>1 DEF Connected
    <3> QED
      BY <3>1, <3>2
  <2>2. CASE ~(MayConnect /\ socket < MaxFaults + 1)
    <3>1. UNCHANGED <<socket, sock>>
      BY <1>16, <2>2 DEF Connected
    <3> QED
      BY <3>1
  <2> QED
    BY <2>1, <2>2
<1>17. CASE Mount \/ TimerFires
  <2>1. CASE Mount
    BY <1>16, <2>1 DEF Mount, ConsumerStates
  <2>2. CASE TimerFires
    BY <1>16, <2>2 DEF TimerFires, ConsumerStates
  <2> QED
    BY <1>17, <2>1, <2>2
<1>18. CASE Die
  <2>1. queue' \in [Sockets -> Queue]
    <3>1. <<>> \in Queue
      BY BoundAssumption DEF Queue
    <3> QED
      BY <1>18, <3>1 DEF Die
  <2>2. sock' \in [Sockets -> {"none", "connecting", "open", "closed"}]
    BY <1>18 DEF Die
  <2>3. faults' \in 0..MaxFaults /\ timers' \in Nat
    BY <1>18, BoundAssumption DEF Die, Rescheduled
  <2> QED
    BY <1>18, <2>1, <2>2, <2>3 DEF Die, ConsumerStates
<1>19. CASE Refetch
  <2>1. Listed \in Rows
    BY ListedRows
  <2>2. fetch' \in [at : {"answered"}, rows : Rows]
    BY <1>19, <2>1 DEF Refetch
  <2> QED
    BY <1>19, <2>2 DEF Refetch, ConsumerStates
<1>20. CASE FetchDone
  <2>1. fetch \in [at : {"answered"}, rows : Rows]
    BY <1>20 DEF FetchDone, Idle
  <2>2. cache' \in Rows
    BY <1>20, <2>1 DEF FetchDone, Answer
  <2>3. clean' \in BOOLEAN
    BY <1>20 DEF FetchDone
  <2> QED
    BY <1>20, <2>2, <2>3 DEF FetchDone, ConsumerStates
<1> QED
  BY <1>1, <1>2, <1>3, <1>4, <1>5, <1>6, <1>8, <1>9, <1>10, <1>11, <1>12, <1>13, <1>14, <1>15,
     <1>17, <1>18, <1>19, <1>20, <1>21, <1>22, <1>23, <1>24 DEF Next

\* The variables hold what both sides can hold; no connection holds more messages
\* than its buffer and no page more rows than its limit, for every limit.
THEOREM TypeCorrect == Spec => []TypeOK
BY InitType, NextType, PTL DEF Spec
-----------------------------------------------------------------------------
(* One socket                                                              *)

\* Older sockets than this.socket are closed, newer ones do not exist.
SocketInv ==
  \A s \in Own : /\ s < socket => sock[s] = "closed"
                 /\ s > socket => sock[s] = "none"

LEMMA NextSocket ==
  TypeOK /\ SocketInv /\ [Next]_vars => SocketInv'
<1> SUFFICES ASSUME TypeOK, SocketInv, [Next]_vars PROVE SocketInv'
  OBVIOUS
<1>0. /\ sock \in [Sockets -> {"none", "connecting", "open", "closed"}]
      /\ socket \in Own /\ Own \subseteq Sockets /\ Own \subseteq Nat \ {0}
  BY BoundAssumption DEF TypeOK, Own, Sockets
<1>1. CASE UNCHANGED <<sock, socket>>
  BY <1>1 DEF SocketInv
<1>2. CASE Connected
  <2>1. CASE MayConnect /\ socket < MaxFaults + 1
    <3>1. socket' = socket + 1 /\ sock' = [sock EXCEPT ![socket + 1] = "connecting"]
      BY <1>2, <2>1 DEF Connected
    <3>2. sock[socket] = "closed"
      BY <2>1 DEF MayConnect
    <3> QED
      BY <1>0, <3>1, <3>2 DEF SocketInv
  <2>2. CASE ~(MayConnect /\ socket < MaxFaults + 1)
    BY <1>1, <1>2, <2>2 DEF Connected
  <2> QED
    BY <2>1, <2>2
<1>3. ASSUME NEW s \in Own, Accept(s) PROVE SocketInv'
  BY <1>0, <1>3 DEF Accept, SocketInv, client
<1>4. ASSUME NEW s \in Own, Break(s) PROVE SocketInv'
  BY <1>0, <1>4 DEF Break, SocketInv
<1>5. CASE Keepalive
  BY <1>0, <1>5 DEF Keepalive, SocketInv, client, Peer
<1>6. CASE Die
  BY <1>0, <1>6 DEF Die, SocketInv
<1> QED
  BY <1>1, <1>2, <1>3, <1>4, <1>5, <1>6
  DEF Next, vars, client, page, server, Insert, Refresh, RefreshFails, FoldCommit, FoldFails,
      FoldLoad, Triage, SeedInsert, Copy, Reap, Send, SendFails, Leave, Receive, Mount,
      TimerFires, Refetch, FetchDone

\* A browser has at most one socket that is connecting or open, and it is the
\* newest, for any number of lost connections and mounts: connect() and the
\* reconnect timers, which nothing cancels, never make a second one.
THEOREM OneSocketHolds == Spec => []OneSocket
<1>1. Init => SocketInv
  BY BoundAssumption DEF Init, SocketInv, Own, Sockets, Peer
<1>2. TypeOK /\ SocketInv => OneSocket
  <2> SUFFICES ASSUME TypeOK, SocketInv, NEW s \in Own, sock[s] \in {"connecting", "open"}
               PROVE  s = socket
    BY DEF OneSocket
  <2>1. s \in Nat /\ socket \in Nat
    BY DEF TypeOK, Own
  <2> QED
    BY <2>1 DEF SocketInv
<1> QED
  BY TypeCorrect, NextSocket, <1>1, <1>2, PTL DEF Spec
-----------------------------------------------------------------------------
(* The feed keeps up                                                       *)

\* The ids and scores of rows, newest last, no id twice: a view.
Cell == [id : Nat \ {0}, score : Nat]
Unique(v) == \A i, j \in 1..Len(v) : v[i].id = v[j].id => i = j
Views == {v \in Seq(Cell) : Unique(v)}

\* The table's view.
Scores == [i \in 1..Len(table) |-> [id |-> table[i].id, score |-> table[i].score]]

\* A page shows a view.
Shows(rows, v) ==
  /\ Len(rows) = Smaller(Limit, Len(v))
  /\ \A i \in 1..Len(rows) : /\ rows[i].id = v[Len(v) + 1 - i].id
                             /\ rows[i].score = v[Len(v) + 1 - i].score

\* A message tells what makes the view w of the view v.
Follows(v, w, msg) ==
  LET cell == [id |-> msg.alert.id, score |-> msg.alert.score]
  IN  \/ /\ msg.type = "alert.new" /\ Len(w) = Len(v) + 1
         /\ w[Len(v) + 1] = cell /\ \A i \in 1..Len(v) : w[i] = v[i]
      \/ /\ msg.type = "alert.updated" /\ Len(w) = Len(v)
         /\ \A i \in 1..Len(v) : w[i] = IF v[i].id = cell.id THEN cell ELSE v[i]

\* The consumer holds a message that the browser's connection will be sent, or the
\* row of one: the refresh changes neither its id nor its score.
Awaited ==
  \/ consumer.at \in {"refresh", "announce"}
  \/ consumer.at = "send" /\ socket \in consumer.waits

\* The page shows the first of the views, each message on its way leads from one
\* to the next, and the last, with what the consumer holds, is the table's.
Explains(views) ==
  LET n == Len(queue[socket])
  IN  /\ Shows(cache, views[1])
      /\ \A i \in 1..n : Follows(views[i], views[i + 1], queue[socket][i])
      /\ IF Awaited THEN Follows(views[n + 1], Scores, consumer.msg)
                    ELSE views[n + 1] = Scores

Explained == \E views \in [1..(Len(queue[socket]) + 1) -> Views] : Explains(views)

\* Each row has an id of its own, and ids are given out in turn.
IdsInv ==
  \A i \in DOMAIN table : /\ table[i].id <= Len(table)
                          /\ \A j \in DOMAIN table : table[i].id = table[j].id => i = j

FailedAreDead == consumer.at = "send" => \A s \in consumer.failed : sock[s] = "closed"
CleanIsExplained ==
  clean => sock[socket] = "open" /\ socket \in connections /\ cache # None /\ Explained
KeepsUpInv == FailedAreDead /\ CleanIsExplained

\* What a well-typed table says of itself.
LEMMA TableRows ==
  ASSUME TypeOK
  PROVE  /\ table \in Seq(Row) /\ Len(table) \in Nat /\ DOMAIN table = 1..Len(table)
         /\ \A i \in 1..Len(table) : table[i] \in Row
<1>1. table \in Seq(Row)
  BY DEF TypeOK
<1>2. Len(table) \in Nat /\ DOMAIN table = 1..Len(table)
  BY <1>1
<1> QED
  BY <1>1, <1>2, ElementOfSeq

LEMMA ScoresOfTable ==
  ASSUME TypeOK
  PROVE  /\ Scores \in Seq(Cell) /\ Len(Scores) = Len(table) /\ Len(table) \in Nat
         /\ \A i \in 1..Len(table) :
              /\ Scores[i] = [id |-> table[i].id, score |-> table[i].score]
              /\ Scores[i].id = table[i].id /\ Scores[i].score = table[i].score
<1>1. \A i \in 1..Len(table) : [id |-> table[i].id, score |-> table[i].score] \in Cell
  BY TableRows DEF Row, Cell
<1> DEFINE n == Len(table)
<1>2. n \in Nat /\ Scores = [i \in 1..n |-> [id |-> table[i].id, score |-> table[i].score]]
  BY TableRows DEF Scores
<1> HIDE DEF n
<1>3. /\ Scores \in Seq(Cell) /\ Len(Scores) = n
      /\ \A i \in 1..n : /\ Scores[i] = [id |-> table[i].id, score |-> table[i].score]
                         /\ Scores[i].id = table[i].id /\ Scores[i].score = table[i].score
  BY <1>1, <1>2 DEF n
<1> QED
  BY <1>2, <1>3 DEF n

LEMMA ScoresIsView ==
  ASSUME TypeOK, IdsInv
  PROVE  Scores \in Views
<1>1. ASSUME NEW i \in 1..Len(table), NEW j \in 1..Len(table), Scores[i].id = Scores[j].id
      PROVE  i = j
  <2>1. table[i].id = table[j].id
    BY <1>1, ScoresOfTable
  <2>2. i \in DOMAIN table /\ j \in DOMAIN table
    BY TableRows
  <2> QED
    BY <2>1, <2>2 DEF IdsInv
<1>2. Scores \in Seq(Cell) /\ Len(Scores) = Len(table)
  BY ScoresOfTable
<1> QED
  BY <1>1, <1>2 DEF Views, Unique

\* Every row's id is new, the seed's too, and no write changes one.
LEMMA NextIds ==
  TypeOK /\ IdsInv /\ [Next]_vars => IdsInv'
<1> SUFFICES ASSUME TypeOK, IdsInv, [Next]_vars PROVE IdsInv'
  OBVIOUS
<1>0. /\ table \in Seq(Row) /\ Len(table) \in Nat /\ DOMAIN table = 1..Len(table)
      /\ \A i \in 1..Len(table) : table[i] \in Row
      /\ NewRow(Len(table) + 1) \in Row /\ NewRow(Len(table) + 1).id = Len(table) + 1
  BY TableRows DEF NewRow, Row, Statuses
<1>1. CASE UNCHANGED table
  BY <1>1 DEF IdsInv
<1>2. CASE Insert
  <2>1. /\ Len(table') = Len(table) + 1 /\ DOMAIN table' = 1..(Len(table) + 1)
        /\ \A i \in 1..Len(table) : table'[i] = table[i]
        /\ table'[Len(table) + 1].id = Len(table) + 1
    BY <1>0, <1>2 DEF Insert
  <2>2. \A i \in 1..Len(table) : table[i].id <= Len(table) /\ table[i].id \in Nat
    BY <1>0 DEF IdsInv, Row
  <2>3. ASSUME NEW i \in 1..(Len(table) + 1), NEW j \in 1..(Len(table) + 1),
               table'[i].id = table'[j].id
        PROVE  i = j
    <3>1. CASE i <= Len(table) /\ j <= Len(table)
      BY <1>0, <2>1, <2>3, <3>1 DEF IdsInv
    <3>2. CASE i = Len(table) + 1 \/ j = Len(table) + 1
      BY <1>0, <2>1, <2>2, <2>3, <3>2
    <3> QED
      BY <1>0, <3>1, <3>2
  <2>4. \A i \in 1..(Len(table) + 1) : table'[i].id <= Len(table) + 1
    BY <1>0, <2>1, <2>2
  <2> QED
    BY <2>1, <2>3, <2>4 DEF IdsInv
<1>3. ASSUME DOMAIN table' = DOMAIN table, Len(table') = Len(table),
             \A i \in 1..Len(table) : table'[i].id = table[i].id
      PROVE  IdsInv'
  BY <1>0, <1>3 DEF IdsInv
<1>4. ASSUME table' = Folded PROVE IdsInv'
  <2>1. \A i \in 1..Len(table) : table'[i].id = table[i].id
    BY <1>0, <1>4 DEF Folded, Row
  <2>2. DOMAIN table' = 1..Len(table)
    BY <1>0, <1>4 DEF Folded
  <2>3. table' \in Seq(Row)
    <3>1. TypeOK'
      BY NextType
    <3> QED
      BY <3>1 DEF TypeOK
  <2> QED
    BY <1>0, <1>3, <2>1, <2>2, <2>3, LenProperties
<1>5. ASSUME NEW k \in DOMAIN table, Triage(k) PROVE IdsInv'
  <2>1. table' = [table EXCEPT ![k] = [table[k] EXCEPT !.status = "dismissed"]]
    BY <1>5 DEF Triage
  <2>2. \A i \in 1..Len(table) : table'[i].id = table[i].id
    BY <1>0, <2>1 DEF Row
  <2>3. DOMAIN table' = DOMAIN table /\ Len(table') = Len(table)
    BY <1>0, <2>1
  <2> QED
    BY <1>3, <2>2, <2>3
<1>6. ASSUME NEW k \in 0..Len(table), SeedInsert(k) PROVE IdsInv'
  <2>1. /\ table' \in Seq(Row) /\ Len(table') = Len(table) + 1
        /\ \A i \in 1..(Len(table) + 1) :
             table'[i] = IF i <= k THEN table[i]
                         ELSE IF i = k + 1 THEN NewRow(Len(table) + 1) ELSE table[i - 1]
    BY <1>6, SeedRows, Zenon
  <2>2. DOMAIN table' = 1..(Len(table) + 1) /\ k \in Nat
    BY <1>0, <2>1
  <2> DEFINE from(i) == IF i <= k THEN i ELSE i - 1
  <2>3. ASSUME NEW i \in DOMAIN table'
        PROVE  /\ i = k + 1 => table'[i].id = Len(table) + 1
               /\ i # k + 1 => /\ from(i) \in DOMAIN table
                               /\ table'[i].id = table[from(i)].id
    BY <1>0, <2>1, <2>2
  <2>4. \A i \in DOMAIN table : table[i].id <= Len(table) /\ table[i].id \in Nat
    BY <1>0 DEF IdsInv, Row
  <2>5. ASSUME NEW i \in DOMAIN table', NEW j \in DOMAIN table', table'[i].id = table'[j].id
        PROVE  i = j
    <3>1. i \in Nat /\ j \in Nat
      BY <2>2
    <3>2. CASE i = k + 1 \/ j = k + 1
      BY <1>0, <2>3, <2>4, <2>5, <3>2
    <3>3. CASE i # k + 1 /\ j # k + 1
      <4>1. from(i) = from(j)
        BY <2>3, <2>5, <3>3 DEF IdsInv
      <4> QED
        BY <2>2, <3>1, <3>3, <4>1
    <3> QED
      BY <3>2, <3>3
  <2>6. \A i \in DOMAIN table' : table'[i].id <= Len(table')
    BY <1>0, <2>1, <2>3, <2>4
  <2> QED
    BY <2>5, <2>6 DEF IdsInv
<1> QED
  BY <1>1, <1>2, <1>4, <1>5, <1>6
  DEF Next, vars, client, page, server, Refresh, RefreshFails, FoldCommit, FoldFails, FoldLoad,
      Copy, Reap, Send, SendFails, Leave, Accept, Receive, Break, Keepalive, Mount, TimerFires,
      Die, Refetch, FetchDone

LEMMA InitIds == Init => IdsInv
<1> SUFFICES ASSUME Init PROVE IdsInv
  OBVIOUS
<1>1. table = [i \in 1..Seeded |-> NewRow(i)] /\ Seeded \in Nat
  BY BoundAssumption DEF Init
<1>2. DOMAIN table = 1..Seeded /\ Len(table) = Seeded
  BY <1>1
<1>3. \A i \in 1..Seeded : table[i].id = i
  BY <1>1 DEF NewRow
<1> QED
  BY <1>1, <1>2, <1>3 DEF IdsInv

\* A page that shows a view shows the next one when the new row is put in front.
LEMMA NewOnTop ==
  ASSUME TypeOK, cache # None, NEW v \in Views, NEW w \in Views, NEW msg \in Message,
         msg.type = "alert.new", Shows(cache, v), Follows(v, w, msg)
  PROVE  Shows(Prepended(msg.alert), w)
<1> DEFINE row == msg.alert
           next == <<row>> \o cache
           n == Smaller(Limit, Len(next))
<1>1. /\ row \in Row /\ cache \in Seq(Row) /\ Len(cache) \in Nat
      /\ Len(v) \in Nat /\ Len(w) \in Nat /\ Limit \in Nat
  BY BoundAssumption DEF TypeOK, Rows, Message, Views
<1>2. /\ Len(w) = Len(v) + 1
      /\ w[Len(v) + 1].id = row.id /\ w[Len(v) + 1].score = row.score
      /\ \A i \in 1..Len(v) : w[i] = v[i]
  BY DEF Follows
<1>3. /\ next \in Seq(Row) /\ Len(next) = Len(cache) + 1 /\ next[1] = row
      /\ \A i \in 1..Len(cache) : next[i + 1] = cache[i]
  BY <1>1
<1>4. /\ Len(cache) = Smaller(Limit, Len(v))
      /\ \A i \in 1..Len(cache) : /\ cache[i].id = v[Len(v) + 1 - i].id
                                 /\ cache[i].score = v[Len(v) + 1 - i].score
  BY DEF Shows
<1>5. n \in Nat /\ n <= Len(next) /\ n = Smaller(Limit, Len(w)) /\ Len(cache) <= Len(v)
  BY <1>1, <1>2, <1>3, <1>4 DEF Smaller
<1>6. Prepended(row) = SubSeq(next, 1, n)
  BY DEF Prepended
<1> HIDE DEF next, n, row
<1>7. /\ Len(Prepended(row)) = n
      /\ \A i \in 1..n : Prepended(row)[i] = next[i]
  <2>1. 1 \in 1..(Len(next) + 1) /\ n \in (1 - 1)..Len(next)
    BY <1>1, <1>3, <1>5
  <2>2. Len(SubSeq(next, 1, n)) = n - 1 + 1 /\ \A i \in 1..(n - 1 + 1) : SubSeq(next, 1, n)[i] = next[1 + i - 1]
    BY <1>3, <2>1, SubSeqProperties
  <2> QED
    BY <1>5, <1>6, <2>2
<1>8. ASSUME NEW i \in 1..n
      PROVE  next[i].id = w[Len(w) + 1 - i].id /\ next[i].score = w[Len(w) + 1 - i].score
  <2>1. CASE i = 1
    BY <1>1, <1>2, <1>3, <2>1
  <2>2. CASE i # 1
    <3> DEFINE j == i - 1
    <3>1. j \in 1..Len(cache) /\ i = j + 1
      BY <1>1, <1>3, <1>5, <2>2
    <3>2. /\ next[i] = cache[j] /\ cache[j].id = v[Len(v) + 1 - j].id
          /\ cache[j].score = v[Len(v) + 1 - j].score
      BY <1>3, <1>4, <3>1
    <3>3. Len(v) + 1 - j \in 1..Len(v) /\ Len(w) + 1 - i = Len(v) + 1 - j
      BY <1>1, <1>2, <1>5, <3>1
    <3> QED
      BY <1>2, <3>2, <3>3
  <2> QED
    BY <2>1, <2>2
<1> QED
  BY <1>5, <1>7, <1>8 DEF Shows, row

\* A page that shows a view shows the next one when the row is merged: the ids of
\* its rows differ.
LEMMA MergedIn ==
  ASSUME TypeOK, cache # None, NEW v \in Views, NEW w \in Views, NEW msg \in Message,
         msg.type = "alert.updated", Shows(cache, v), Follows(v, w, msg)
  PROVE  Shows(Merged(msg.alert), w) /\ Merged(msg.alert) # None
<1> DEFINE row == msg.alert
<1>1. /\ row \in Row /\ cache \in Seq(Row) /\ Len(cache) \in Nat
      /\ Len(v) \in Nat /\ Len(w) \in Nat /\ Limit \in Nat
  BY BoundAssumption DEF TypeOK, Rows, Message, Views
<1>2. /\ Len(w) = Len(v)
      /\ \A i \in 1..Len(v) : w[i] = IF v[i].id = row.id
                                     THEN [id |-> row.id, score |-> row.score] ELSE v[i]
  BY DEF Follows
<1>3. /\ Len(cache) = Smaller(Limit, Len(v)) /\ Len(cache) <= Len(v)
      /\ \A i \in 1..Len(cache) : /\ cache[i].id = v[Len(v) + 1 - i].id
                                 /\ cache[i].score = v[Len(v) + 1 - i].score
  BY <1>1 DEF Shows, Smaller
<1> HIDE DEF row
<1>4. ASSUME NEW i \in 1..Len(cache), NEW j \in 1..(i - 1)
      PROVE  cache[i].id # cache[j].id
  <2>1. j \in 1..Len(cache) /\ i # j /\ i \in Nat /\ j \in Nat
    BY <1>1
  <2>2. cache[i].id = v[Len(v) + 1 - i].id /\ cache[j].id = v[Len(v) + 1 - j].id
    BY <1>3, <2>1
  <2>3. /\ Len(v) + 1 - i # Len(v) + 1 - j
        /\ Len(v) + 1 - i \in 1..Len(v) /\ Len(v) + 1 - j \in 1..Len(v)
    BY <1>1, <1>3, <2>1
  <2> QED
    BY <2>2, <2>3 DEF Views, Unique
<1>5. Merged(row) = [i \in 1..Len(cache) |-> IF cache[i].id = row.id THEN row ELSE cache[i]]
  <2>1. DOMAIN cache = 1..Len(cache)
    BY <1>1
  <2>2. \A i \in 1..Len(cache) :
          (cache[i].id = row.id /\ \A j \in 1..(i - 1) : cache[j].id # row.id) <=> cache[i].id = row.id
    BY <1>4
  <2>3. Merged(row) =
          [ i \in 1..Len(cache) |->
              IF cache[i].id = row.id /\ \A j \in 1..(i - 1) : cache[j].id # row.id
              THEN row ELSE cache[i] ]
    BY <2>1 DEF Merged
  <2> QED
    BY <2>2, <2>3
<1>6. Merged(row) \in Seq(Row) /\ Len(Merged(row)) = Len(cache)
  <2>1. \A i \in 1..Len(cache) : cache[i] \in Row
    BY <1>1, ElementOfSeq
  <2>2. Merged(row) \in [1..Len(cache) -> Row]
    BY <1>1, <1>5, <2>1
  <2>3. Merged(row) \in Seq(Row)
    BY <1>1, <2>2
  <2> QED
    BY <1>1, <2>2, <2>3, LenProperties
<1>7. ASSUME NEW i \in 1..Len(cache)
      PROVE  /\ Merged(row)[i].id = w[Len(w) + 1 - i].id
             /\ Merged(row)[i].score = w[Len(w) + 1 - i].score
  <2>1. Len(v) + 1 - i \in 1..Len(v)
    BY <1>1, <1>3
  <2>2. w[Len(w) + 1 - i] = IF v[Len(v) + 1 - i].id = row.id
                            THEN [id |-> row.id, score |-> row.score] ELSE v[Len(v) + 1 - i]
    BY <1>2, <2>1
  <2>3. Merged(row)[i] = IF cache[i].id = row.id THEN row ELSE cache[i]
    BY <1>5
  <2>4. /\ cache[i].id = v[Len(v) + 1 - i].id
        /\ cache[i].score = v[Len(v) + 1 - i].score
    BY <1>3
  <2> QED
    BY <2>2, <2>3, <2>4
<1> QED
  BY <1>2, <1>3, <1>6, <1>7, NoneAssumption DEF Shows, row

\* What list_alerts answers shows the table's view, and only that.
LEMMA ListedShows ==
  ASSUME TypeOK, NEW rows \in Rows
  PROVE  Shows(rows, Scores) <=> Shown(rows) = Shown(Listed)
<1> DEFINE n == Smaller(Limit, Len(table))
           m == Len(rows)
<1>1. /\ Len(table) \in Nat /\ rows \in Seq(Row) /\ m \in Nat /\ DOMAIN rows = 1..m
      /\ Limit \in Nat
  BY BoundAssumption DEF TypeOK, Rows
<1>2. n \in Nat /\ n <= Len(table)
  BY <1>1 DEF Smaller
<1>3. /\ DOMAIN Listed = 1..n
      /\ \A i \in 1..n : /\ Listed[i].id = table[Len(table) + 1 - i].id
                         /\ Listed[i].score = table[Len(table) + 1 - i].score
  BY DEF Listed
<1>4. /\ Len(Scores) = Len(table)
      /\ \A i \in 1..Len(table) : Scores[i].id = table[i].id /\ Scores[i].score = table[i].score
  BY ScoresOfTable
<1>5. \A i \in 1..n : Len(table) + 1 - i \in 1..Len(table)
  BY <1>1, <1>2
<1>6. Shows(rows, Scores) <=>
        /\ m = n
        /\ \A i \in 1..m : /\ rows[i].id = Scores[Len(table) + 1 - i].id
                           /\ rows[i].score = Scores[Len(table) + 1 - i].score
  BY <1>4 DEF Shows
<1> HIDE DEF n, m
<1>7. Shown(rows) = [i \in 1..m |-> <<rows[i].id, rows[i].score>>]
  BY <1>1 DEF Shown
<1>8. Shown(Listed) = [i \in 1..n |-> <<Listed[i].id, Listed[i].score>>]
  BY <1>3 DEF Shown
<1>9. ASSUME Shown(rows) = Shown(Listed)
      PROVE  Shows(rows, Scores)
  <2>1. m = n
    <3>1. 1..m = 1..n
      BY <1>7, <1>8, <1>9
    <3> QED
      BY <1>1, <1>2, <3>1
  <2>2. \A i \in 1..m : rows[i].id = Listed[i].id /\ rows[i].score = Listed[i].score
    <3> SUFFICES ASSUME NEW i \in 1..m
                 PROVE  rows[i].id = Listed[i].id /\ rows[i].score = Listed[i].score
      OBVIOUS
    <3>1. Shown(rows)[i] = <<rows[i].id, rows[i].score>>
      BY <1>7
    <3>2. Shown(Listed)[i] = <<Listed[i].id, Listed[i].score>>
      BY <1>8, <2>1
    <3> QED
      BY <1>9, <3>1, <3>2
  <2> QED
    BY <1>3, <1>4, <1>5, <1>6, <2>1, <2>2
<1>10. ASSUME Shows(rows, Scores)
       PROVE  Shown(rows) = Shown(Listed)
  <2>1. m = n
    BY <1>6, <1>10
  <2>2. \A i \in 1..n : rows[i].id = Listed[i].id /\ rows[i].score = Listed[i].score
    BY <1>3, <1>4, <1>5, <1>6, <1>10, <2>1
  <2> QED
    BY <1>7, <1>8, <2>1, <2>2
<1> QED
  BY <1>9, <1>10

\* Only an open or connecting socket changes while it is in use: a dead one stays dead.
LEMMA DeadStaysDead ==
  TypeOK /\ SocketInv /\ FailedAreDead /\ [Next]_vars => FailedAreDead'
<1> SUFFICES ASSUME TypeOK, SocketInv, FailedAreDead, [Next]_vars PROVE FailedAreDead'
  OBVIOUS
<1>0. /\ sock \in [Sockets -> {"none", "connecting", "open", "closed"}]
      /\ socket \in Own /\ Own \subseteq Sockets /\ Own \subseteq Nat \ {0}
      /\ consumer \in ConsumerStates
  BY BoundAssumption DEF TypeOK, Own, Sockets
<1>1. ASSUME \A s \in Sockets : sock[s] = "closed" => sock'[s] = "closed",
             consumer' = consumer
      PROVE  FailedAreDead'
  <2>1. consumer.at = "send" => consumer.failed \subseteq Sockets
    BY <1>0 DEF ConsumerStates, Idle
  <2> QED
    BY <1>1, <2>1 DEF FailedAreDead
<1>2. CASE UNCHANGED <<sock, consumer>>
  BY <1>2 DEF FailedAreDead
<1>3. ASSUME Connected, consumer' = consumer
      PROVE  FailedAreDead'
  <2>1. CASE MayConnect /\ socket < MaxFaults + 1
    <3>1. socket + 1 \in Own /\ sock' = [sock EXCEPT ![socket + 1] = "connecting"]
      BY <1>0, <1>3, <2>1, BoundAssumption DEF Connected, Own
    <3>2. sock[socket + 1] = "none"
      BY <1>0, <3>1 DEF SocketInv
    <3> QED
      BY <1>0, <1>1, <1>3, <3>1, <3>2
  <2>2. CASE ~(MayConnect /\ socket < MaxFaults + 1)
    BY <1>2, <1>3, <2>2 DEF Connected
  <2> QED
    BY <2>1, <2>2
<1>4. CASE Mount \/ TimerFires
  BY <1>3, <1>4 DEF Mount, TimerFires, server
<1>5. CASE Insert \/ Refresh \/ RefreshFails
  BY <1>5 DEF Insert, Refresh, RefreshFails, FailedAreDead, Idle
<1>6. CASE FoldCommit \/ FoldFails
  BY <1>6 DEF FoldCommit, FoldFails, FailedAreDead, Idle
<1>7. ASSUME NEW i \in DOMAIN table, FoldLoad(i) PROVE FailedAreDead'
  BY <1>7 DEF FoldLoad, FailedAreDead
<1>8. CASE Copy
  BY <1>8 DEF Copy, FailedAreDead, Idle
<1>9. ASSUME consumer.at = "send"
      PROVE  consumer \in [at : {"send"}, msg : Message, waits : SUBSET Sockets, failed : SUBSET Sockets]
  BY <1>0, <1>9 DEF ConsumerStates, Idle
<1>10. ASSUME NEW s \in Sockets, Send(s) PROVE FailedAreDead'
  <2>1. consumer'.failed = consumer.failed /\ consumer.at = "send" /\ sock' = sock
    BY <1>9, <1>10 DEF Send
  <2> QED
    BY <2>1 DEF FailedAreDead
<1>11. ASSUME NEW s \in Sockets, SendFails(s) PROVE FailedAreDead'
  <2>1. /\ consumer'.failed = consumer.failed \cup {s} /\ consumer.at = "send"
        /\ sock' = sock /\ sock[s] = "closed"
    BY <1>9, <1>11 DEF SendFails, Failed
  <2> QED
    BY <2>1 DEF FailedAreDead
<1>12. CASE Reap \/ Die
  BY <1>12 DEF Reap, Die, FailedAreDead, Idle
<1>13. CASE Keepalive
  BY <1>0, <1>1, <1>13 DEF Keepalive, server
<1>14. ASSUME NEW s \in Own, Accept(s) PROVE FailedAreDead'
  BY <1>0, <1>1, <1>14 DEF Accept
<1>15. ASSUME NEW s \in Own, Break(s) PROVE FailedAreDead'
  BY <1>0, <1>1, <1>15 DEF Break, server
<1> QED
  BY <1>2, <1>4, <1>5, <1>6, <1>7, <1>8, <1>10, <1>11, <1>12, <1>13, <1>14, <1>15
  DEF Next, vars, server, client, page, Triage, SeedInsert, Leave, Receive, Refetch, FetchDone

\* Nothing that the explanation is about changes; the message awaited may be
\* another one with the same type, id and score.
LEMMA SameExplanation ==
  ASSUME Explained, UNCHANGED <<cache, socket, Scores>>, Awaited' <=> Awaited,
         queue'[socket] = queue[socket],
         Awaited => /\ consumer'.msg.type = consumer.msg.type
                    /\ consumer'.msg.alert.id = consumer.msg.alert.id
                    /\ consumer'.msg.alert.score = consumer.msg.alert.score
  PROVE  Explained'
<1>1. PICK views \in [1..(Len(queue[socket]) + 1) -> Views] : Explains(views)
  BY DEF Explained
<1>2. ASSUME NEW v, Awaited, Follows(v, Scores, consumer.msg)
      PROVE  Follows(v, Scores, consumer'.msg)
  BY <1>2 DEF Follows
<1>3. Explains(views)'
  BY <1>1, <1>2 DEF Explains
<1> QED
  BY <1>1, <1>3 DEF Explained

\* Nothing is awaited, and the table's view gets a successor that is announced.
LEMMA Announced ==
  ASSUME TypeOK, Explained, ~Awaited, Awaited', UNCHANGED <<cache, socket, queue>>,
         Follows(Scores, Scores', consumer'.msg)
  PROVE  Explained'
<1>1. PICK views \in [1..(Len(queue[socket]) + 1) -> Views] : Explains(views)
  BY DEF Explained
<1>2. Explains(views)'
  BY <1>1 DEF Explains
<1> QED
  BY <1>1, <1>2 DEF Explained

\* The announcement is on its way: one view more.
LEMMA OnItsWay ==
  ASSUME TypeOK, TypeOK', IdsInv, Explained, Awaited, ~Awaited', UNCHANGED <<cache, socket, Scores>>,
         queue'[socket] = Append(queue[socket], consumer.msg)
  PROVE  Explained'
<1> DEFINE n == Len(queue[socket])
<1>1. PICK views \in [1..(n + 1) -> Views] : Explains(views)
  BY DEF Explained
<1>2. /\ Shows(cache, views[1])
      /\ \A i \in 1..n : Follows(views[i], views[i + 1], queue[socket][i])
      /\ Follows(views[n + 1], Scores, consumer.msg)
  BY <1>1 DEF Explains
<1>3. queue[socket] \in Seq(Message) /\ n \in Nat
  BY DEF TypeOK, Queue, Own, Sockets
<1>4. /\ Len(queue'[socket]) = n + 1
      /\ \A i \in 1..(n + 1) : queue'[socket][i] = IF i = n + 1 THEN consumer.msg ELSE queue[socket][i]
  BY <1>3
<1>5. Scores \in Views
  BY ScoresIsView
<1> HIDE DEF n
<1> DEFINE more == [i \in 1..((n + 1) + 1) |-> IF i = (n + 1) + 1 THEN Scores ELSE views[i]]
<1>6. more \in [1..((n + 1) + 1) -> Views]
  BY <1>1, <1>3, <1>5
<1>7. more[1] = views[1] /\ more[(n + 1) + 1] = Scores
  BY <1>3
<1>8. ASSUME NEW i \in 1..(n + 1)
      PROVE  Follows(more[i], more[i + 1], queue'[socket][i])
  <2>1. CASE i = n + 1
    <3>1. more[i] = views[n + 1] /\ more[i + 1] = Scores /\ queue'[socket][i] = consumer.msg
      BY <1>3, <1>4, <2>1
    <3> QED
      BY <1>2, <3>1
  <2>2. CASE i # n + 1
    <3>1. i \in 1..n
      BY <1>3, <2>2
    <3>2. more[i] = views[i] /\ more[i + 1] = views[i + 1] /\ queue'[socket][i] = queue[socket][i]
      BY <1>3, <1>4, <3>1
    <3> QED
      BY <1>2, <3>1, <3>2
  <2> QED
    BY <2>1, <2>2
<1> HIDE DEF more
<1>9. PICK longer \in [1..((n + 1) + 1) -> Views] : longer = more
  BY <1>6
<1>10. /\ Shows(cache, longer[1]) /\ longer[(n + 1) + 1] = Scores
       /\ \A i \in 1..(n + 1) : Follows(longer[i], longer[i + 1], queue'[socket][i])
  BY <1>2, <1>7, <1>8, <1>9
<1>11. Explains(longer)'
  BY <1>4, <1>10 DEF Explains
<1> QED
  BY <1>4, <1>9, <1>11 DEF Explained

\* The page takes the oldest message: one view less.
LEMMA Taken ==
  ASSUME TypeOK, Explained, cache # None, NEW msg \in Message, queue[socket] # <<>>,
         msg = Head(queue[socket]), queue'[socket] = Tail(queue[socket]),
         cache' = IF msg.type = "alert.new" THEN Prepended(msg.alert) ELSE Merged(msg.alert),
         UNCHANGED <<socket, Scores, consumer>>, Awaited' <=> Awaited
  PROVE  Explained' /\ cache' # None
<1> DEFINE n == Len(queue[socket])
<1>1. PICK views \in [1..(n + 1) -> Views] : Explains(views)
  BY DEF Explained
<1>2. /\ Shows(cache, views[1])
      /\ \A i \in 1..n : Follows(views[i], views[i + 1], queue[socket][i])
      /\ IF Awaited THEN Follows(views[n + 1], Scores, consumer.msg) ELSE views[n + 1] = Scores
  BY <1>1 DEF Explains
<1>3. queue[socket] \in Seq(Message) /\ n \in Nat \ {0} /\ msg = queue[socket][1]
  BY DEF TypeOK, Queue, Own, Sockets
<1>4. /\ Len(queue'[socket]) = n - 1
      /\ \A i \in 1..(n - 1) : queue'[socket][i] = queue[socket][i + 1]
  BY <1>3
<1> HIDE DEF n
<1>5. /\ 1 \in 1..n /\ views[1] \in Views /\ views[2] \in Views
      /\ Follows(views[1], views[2], msg)
  <2>1. 1 \in 1..n /\ 1 \in 1..(n + 1) /\ 2 \in 1..(n + 1) /\ 1 + 1 = 2
    BY <1>3
  <2>2. Follows(views[1], views[1 + 1], queue[socket][1])
    BY <1>2, <2>1
  <2> QED
    BY <1>1, <1>3, <2>1, <2>2
<1>6. Shows(cache', views[2]) /\ cache' # None
  <2>1. CASE msg.type = "alert.new"
    <3>1. Shows(Prepended(msg.alert), views[2])
      BY <1>2, <1>5, <2>1, NewOnTop
    <3>2. Prepended(msg.alert) \in Rows
      BY PrependedRows DEF Message
    <3> QED
      BY <2>1, <3>1, <3>2, NoneAssumption DEF Rows
  <2>2. CASE msg.type # "alert.new"
    <3>1. msg.type = "alert.updated"
      BY <2>2 DEF Message
    <3> QED
      BY <1>2, <1>5, <2>2, <3>1, MergedIn
  <2> QED
    BY <2>1, <2>2
<1> DEFINE less == [i \in 1..((n - 1) + 1) |-> views[i + 1]]
<1>7. less \in [1..((n - 1) + 1) -> Views]
  BY <1>1, <1>3
<1>8. less[1] = views[2] /\ less[(n - 1) + 1] = views[n + 1]
  BY <1>3
<1>9. ASSUME NEW i \in 1..(n - 1)
      PROVE  Follows(less[i], less[i + 1], queue'[socket][i])
  <2>1. i \in 1..((n - 1) + 1) /\ i + 1 \in 1..((n - 1) + 1) /\ i + 1 \in 1..n
    BY <1>3
  <2>2. less[i] = views[i + 1] /\ less[i + 1] = views[(i + 1) + 1]
    BY <2>1
  <2>3. Follows(views[i + 1], views[(i + 1) + 1], queue[socket][i + 1])
    BY <1>2, <2>1
  <2> QED
    BY <1>4, <2>2, <2>3
<1> HIDE DEF less
<1>10. PICK shorter \in [1..((n - 1) + 1) -> Views] : shorter = less
  BY <1>7
<1>11. /\ Shows(cache', shorter[1])
       /\ \A i \in 1..(n - 1) : Follows(shorter[i], shorter[i + 1], queue'[socket][i])
       /\ IF Awaited' THEN Follows(shorter[(n - 1) + 1], Scores', consumer'.msg)
                      ELSE shorter[(n - 1) + 1] = Scores'
  BY <1>2, <1>6, <1>8, <1>9, <1>10
<1>12. Explains(shorter)'
  BY <1>4, <1>11 DEF Explains
<1> QED
  BY <1>4, <1>6, <1>10, <1>12 DEF Explained

LEMMA NextExplained ==
  TypeOK /\ TypeOK' /\ IdsInv /\ SocketInv /\ OneSocket /\ KeepsUpInv /\ [Next]_vars
    => CleanIsExplained'
<1> SUFFICES ASSUME TypeOK, TypeOK', IdsInv, SocketInv, OneSocket, KeepsUpInv, [Next]_vars, clean'
             PROVE  sock'[socket'] = "open" /\ socket' \in connections' /\ cache' # None /\ Explained'
  BY DEF CleanIsExplained
<1> DEFINE Goal == sock'[socket'] = "open" /\ socket' \in connections' /\ cache' # None /\ Explained'
<1>0. /\ sock \in [Sockets -> {"none", "connecting", "open", "closed"}]
      /\ socket \in Own /\ socket \in Sockets /\ socket # Peer
      /\ consumer \in ConsumerStates /\ connections \subseteq Sockets
      /\ queue \in [Sockets -> Queue]
  BY BoundAssumption DEF TypeOK, Own, Sockets, Peer
<1>a. ASSUME clean
      PROVE  sock[socket] = "open" /\ socket \in connections /\ cache # None /\ Explained
  BY <1>a DEF KeepsUpInv, CleanIsExplained
<1>b. ASSUME consumer.at = "send"
      PROVE  /\ consumer \in [at : {"send"}, msg : Message, waits : SUBSET Sockets, failed : SUBSET Sockets]
             /\ \A s \in consumer.failed : sock[s] = "closed"
  BY <1>0, <1>b DEF ConsumerStates, Idle, KeepsUpInv, FailedAreDead
<1>c. /\ Scores \in Views /\ Len(Scores) = Len(table) /\ Len(table) \in Nat
      /\ \A i \in 1..Len(table) : /\ Scores[i] = [id |-> table[i].id, score |-> table[i].score]
                                  /\ Scores[i].id = table[i].id /\ Scores[i].score = table[i].score
  BY ScoresOfTable, ScoresIsView
<1>d. /\ table \in Seq(Row) /\ table' \in Seq(Row) /\ DOMAIN table = 1..Len(table)
      /\ \A i \in 1..Len(table) : table[i] \in Row
  BY TableRows DEF TypeOK
<1>e. UNCHANGED table => Scores' = Scores
  BY DEF Scores
<1>1. CASE UNCHANGED vars
  <2>1. /\ UNCHANGED <<cache, socket, Scores, queue, consumer, sock, connections, clean>>
        /\ Awaited' <=> Awaited
    BY <1>1, <1>e DEF vars, Awaited
  <2> QED
    BY <1>a, <2>1, SameExplanation
<1>v. ASSUME NEW n, n = Len(table')
      PROVE  /\ Len(Scores') = n
             /\ \A i \in 1..n : /\ Scores'[i] = [id |-> table'[i].id, score |-> table'[i].score]
                                /\ Scores'[i].id = table'[i].id
                                /\ Scores'[i].score = table'[i].score
  <2>1. n \in Nat
    BY <1>d, <1>v
  <2>2. Scores' = [i \in 1..n |-> [id |-> table'[i].id, score |-> table'[i].score]]
    BY <1>v DEF Scores
  <2> QED
    BY <2>1, <2>2
<1>2. CASE Insert
  <2> DEFINE row == NewRow(Len(table) + 1)
  <2>1. /\ consumer = Idle /\ table' = Append(table, row)
        /\ consumer' = [at |-> "refresh", msg |-> [type |-> "alert.new", alert |-> row]]
        /\ UNCHANGED <<queue, socket, cache, connections, sock, clean>>
    BY <1>2 DEF Insert, client, page
  <2>2. ~Awaited /\ Awaited'
    BY <2>1 DEF Awaited, Idle
  <2>3. row \in Row
    BY <1>c DEF NewRow, Row, Statuses
  <2>4. /\ Len(table') = Len(table) + 1
        /\ \A i \in 1..Len(table) : table'[i] = table[i]
        /\ table'[Len(table) + 1] = row
    BY <1>c, <1>d, <2>1, <2>3
  <2>5. /\ Len(Scores') = Len(Scores) + 1
        /\ Scores'[Len(Scores) + 1] = [id |-> row.id, score |-> row.score]
        /\ \A i \in 1..Len(Scores) : Scores'[i] = Scores[i]
    <3>1. Len(table') = Len(table) + 1 /\ Len(Scores) = Len(table) /\ Len(table) \in Nat
      BY <1>c, <2>4
    <3>2. /\ Len(Scores') = Len(table) + 1
          /\ \A i \in 1..(Len(table) + 1) :
               Scores'[i] = [id |-> table'[i].id, score |-> table'[i].score]
      BY <1>v, <3>1
    <3>3. Scores'[Len(table) + 1] = [id |-> row.id, score |-> row.score]
      BY <2>4, <3>1, <3>2
    <3>4. \A i \in 1..Len(table) : Scores'[i] = Scores[i]
      BY <1>c, <2>4, <3>1, <3>2
    <3> QED
      BY <3>1, <3>2, <3>3, <3>4
  <2>6. Follows(Scores, Scores', consumer'.msg)
    <3>1. consumer'.msg.type = "alert.new" /\ consumer'.msg.alert = row
      BY <2>1
    <3> QED
      BY <2>5, <3>1 DEF Follows
  <2> QED
    BY <1>a, <2>1, <2>2, <2>6, Announced
<1>3. ASSUME NEW i \in DOMAIN table, FoldLoad(i) PROVE Goal
  <2>1. UNCHANGED <<cache, socket, table, queue, sock, connections, clean>> /\ ~Awaited /\ ~Awaited'
    BY <1>3 DEF FoldLoad, Awaited, Idle, client, page
  <2> QED
    BY <1>a, <1>e, <2>1, SameExplanation
<1>4. CASE FoldCommit
  <2> DEFINE row == Raised(consumer.row)
  <2>1. /\ consumer.at = "loaded" /\ table' = Folded
        /\ consumer' = [at |-> "announce", msg |-> [type |-> "alert.updated", alert |-> row]]
        /\ UNCHANGED <<queue, socket, cache, connections, sock, clean>>
    BY <1>4 DEF FoldCommit, client, page
  <2>2. row \in Row /\ row.id = consumer.row.id
    <3>1. consumer \in [at : {"loaded"}, row : Row]
      BY <1>0, <2>1 DEF ConsumerStates, Idle
    <3> QED
      BY <3>1 DEF Raised, Row
  <2>3. ~Awaited /\ Awaited'
    BY <2>1 DEF Awaited
  <2>4. /\ Len(table') = Len(table)
        /\ \A i \in 1..Len(table) :
             table'[i] = IF table[i].id = row.id THEN [table[i] EXCEPT !.score = row.score]
                         ELSE table[i]
    <3>1. table' = [i \in 1..Len(table) |->
                     IF table[i].id = row.id THEN [table[i] EXCEPT !.score = row.score]
                     ELSE table[i]]
      BY <1>d, <2>1, <2>2 DEF Folded
    <3> QED
      BY <1>c, <3>1
  <2>5. \A i \in 1..Len(table) :
          [table[i] EXCEPT !.score = row.score].id = table[i].id
          /\ [table[i] EXCEPT !.score = row.score].score = row.score
    BY <1>d DEF Row
  <2> HIDE DEF row
  <2>6. /\ Len(Scores') = Len(Scores)
        /\ \A i \in 1..Len(Scores) :
             Scores'[i] = IF Scores[i].id = row.id THEN [id |-> row.id, score |-> row.score]
                          ELSE Scores[i]
    <3>1. Len(table') = Len(table) /\ Len(Scores) = Len(table) /\ Len(table) \in Nat
      BY <1>c, <2>4
    <3>2. /\ Len(Scores') = Len(table)
          /\ \A i \in 1..Len(table) :
               Scores'[i] = [id |-> table'[i].id, score |-> table'[i].score]
      BY <1>v, <3>1
    <3>3. ASSUME NEW i \in 1..Len(table)
          PROVE  Scores'[i] = IF Scores[i].id = row.id THEN [id |-> row.id, score |-> row.score]
                              ELSE Scores[i]
      <4>1. CASE table[i].id = row.id
        <5>1. table'[i].id = row.id /\ table'[i].score = row.score
          BY <2>4, <2>5, <4>1
        <5>2. Scores[i].id = row.id
          BY <1>c, <4>1
        <5> QED
          BY <3>2, <5>1, <5>2
      <4>2. CASE table[i].id # row.id
        BY <1>c, <2>4, <3>2, <4>2
      <4> QED
        BY <4>1, <4>2
    <3> QED
      BY <3>1, <3>2, <3>3
  <2>7. Follows(Scores, Scores', consumer'.msg)
    <3>1. consumer'.msg.type = "alert.updated" /\ consumer'.msg.alert = row
      BY <2>1
    <3> QED
      BY <2>6, <3>1 DEF Follows
  <2> QED
    BY <1>a, <2>1, <2>3, <2>7, Announced
<1>5. ASSUME NEW k \in DOMAIN table, Triage(k) PROVE Goal
  <2>1. /\ table' = [table EXCEPT ![k] = [table[k] EXCEPT !.status = "dismissed"]]
        /\ UNCHANGED <<consumer, queue, socket, cache, connections, sock, clean>>
    BY <1>5 DEF Triage, client, page
  <2>2. /\ Len(table') = Len(table)
        /\ \A i \in 1..Len(table) : /\ table'[i].id = table[i].id
                                      /\ table'[i].score = table[i].score
    BY <1>c, <1>d, <2>1 DEF Row
  <2>3. Scores' = Scores
    BY <2>2 DEF Scores
  <2>4. Awaited' <=> Awaited
    BY <2>1 DEF Awaited
  <2> QED
    BY <1>a, <2>1, <2>3, <2>4, SameExplanation
<1>20. CASE Refresh
  <2>1. PICK k \in DOMAIN table :
          /\ table[k].id = consumer.msg.alert.id
          /\ consumer' = [at |-> "announce", msg |-> [consumer.msg EXCEPT !.alert = table[k]]]
    BY <1>20 DEF Refresh
  <2>2. consumer.at = "refresh" /\ UNCHANGED <<table, queue, socket, cache, connections, sock, clean>>
    BY <1>20 DEF Refresh, client, page
  <2>3. consumer.msg \in Message
    BY <1>0, <2>2 DEF ConsumerStates, Idle
  <2>4. /\ consumer'.msg.type = consumer.msg.type
        /\ consumer'.msg.alert = table[k]
    BY <2>1, <2>3 DEF Message
  <2>5. Awaited /\ Awaited'
    BY <2>1, <2>2 DEF Awaited
  <2>6. table[k].score = consumer.msg.alert.score
    <3>1. PICK views \in [1..(Len(queue[socket]) + 1) -> Views] : Explains(views)
      BY <1>a, <2>2 DEF Explained
    <3> DEFINE v == views[Len(queue[socket]) + 1]
    <3>2. Follows(v, Scores, consumer.msg)
      BY <2>5, <3>1 DEF Explains
    <3>3. k \in 1..Len(table) /\ Scores[k].id = consumer.msg.alert.id
          /\ Scores[k].score = table[k].score
      BY <1>c, <1>d, <2>1
    <3>4. v \in Seq(Cell) /\ Len(v) \in Nat
      <4>1. Len(queue[socket]) \in Nat
        BY <1>0 DEF Queue
      <4>2. v \in Views
        BY <3>1, <4>1
      <4> QED
        BY <4>2 DEF Views
    <3> HIDE DEF v
    <3>5. CASE consumer.msg.type = "alert.new"
      <4>1. /\ Len(Scores) = Len(v) + 1
            /\ Scores[Len(v) + 1] = [id |-> consumer.msg.alert.id, score |-> consumer.msg.alert.score]
        BY <3>2, <3>5 DEF Follows
      <4>2. Len(v) + 1 \in 1..Len(Scores) /\ k \in 1..Len(Scores)
        BY <1>c, <3>3, <3>4, <4>1
      <4>3. Scores[Len(v) + 1].id = Scores[k].id
        BY <3>3, <4>1
      <4>4. k = Len(v) + 1
        BY <1>c, <4>2, <4>3 DEF Views, Unique
      <4> QED
        BY <3>3, <4>1, <4>4
    <3>6. CASE consumer.msg.type # "alert.new"
      <4>1. /\ Len(Scores) = Len(v)
            /\ \A i \in 1..Len(v) :
                 Scores[i] = IF v[i].id = consumer.msg.alert.id
                             THEN [id |-> consumer.msg.alert.id, score |-> consumer.msg.alert.score]
                             ELSE v[i]
        BY <3>2, <3>6 DEF Follows
      <4> QED
        BY <1>c, <3>3, <4>1
    <3> QED
      BY <3>5, <3>6
  <2> QED
    BY <1>a, <1>e, <2>1, <2>2, <2>4, <2>5, <2>6, SameExplanation
<1>21. ASSUME NEW k \in 0..Len(table), SeedInsert(k) PROVE Goal
  BY <1>21 DEF SeedInsert
<1>22. CASE RefreshFails
  BY <1>22 DEF RefreshFails
<1>23. CASE FoldFails
  <2>1. /\ consumer.at = "loaded" /\ consumer' = Idle
        /\ UNCHANGED <<table, clean, queue, socket, cache, connections, sock>>
    BY <1>23 DEF FoldFails, client, page
  <2>2. ~Awaited /\ ~Awaited'
    BY <2>1 DEF Awaited, Idle
  <2> QED
    BY <1>a, <1>e, <2>1, <2>2, SameExplanation
<1>6. CASE Copy
  <2>1. consumer.at = "announce" /\ UNCHANGED <<table, queue, socket, cache, connections, sock, clean>>
    BY <1>6 DEF Copy, client, page
  <2>2. socket \in connections /\ connections # {}
    BY <1>a, <2>1
  <2>3. consumer' = [at |-> "send", msg |-> consumer.msg, waits |-> connections, failed |-> {}]
    BY <1>6, <2>2 DEF Copy
  <2>4. Awaited /\ Awaited' /\ consumer'.msg = consumer.msg
    BY <2>1, <2>2, <2>3 DEF Awaited
  <2> QED
    BY <1>a, <1>e, <2>1, <2>4, SameExplanation
<1>7. ASSUME NEW s \in Sockets, Send(s) PROVE Goal
  <2>1. /\ consumer.at = "send" /\ s \in consumer.waits
        /\ queue' = IF s = Peer THEN queue ELSE [queue EXCEPT ![s] = Append(queue[s], consumer.msg)]
        /\ UNCHANGED <<table, socket, cache, connections, sock, clean>>
    BY <1>7 DEF Send, client, page
  <2>2. consumer'.at = "send" /\ consumer'.msg = consumer.msg /\ consumer'.waits = consumer.waits \ {s}
    BY <1>b, <1>7, <2>1 DEF Send
  <2>3. CASE s = socket
    <3>1. Awaited /\ ~Awaited'
      BY <2>1, <2>2, <2>3 DEF Awaited
    <3>2. queue'[socket] = Append(queue[socket], consumer.msg)
      BY <1>0, <2>1, <2>3
    <3> QED
      BY <1>a, <1>e, <2>1, <3>1, <3>2, OnItsWay
  <2>4. CASE s # socket
    <3>1. Awaited' <=> Awaited
      BY <2>1, <2>2, <2>4 DEF Awaited
    <3>2. queue'[socket] = queue[socket]
      BY <1>0, <2>1, <2>4
    <3> QED
      BY <1>a, <1>e, <2>1, <2>2, <3>1, <3>2, SameExplanation
  <2> QED
    BY <2>3, <2>4
<1>8. ASSUME NEW s \in Sockets, SendFails(s) PROVE Goal
  <2>1. /\ consumer.at = "send" /\ sock[s] = "closed"
        /\ UNCHANGED <<table, queue, socket, cache, connections, sock, clean>>
    BY <1>8 DEF SendFails, client, page
  <2>2. consumer'.at = "send" /\ consumer'.msg = consumer.msg /\ consumer'.waits = consumer.waits \ {s}
    BY <1>b, <1>8, <2>1 DEF SendFails, Failed
  <2>3. s # socket
    BY <1>a, <2>1
  <2>4. Awaited' <=> Awaited
    BY <2>1, <2>2, <2>3 DEF Awaited
  <2> QED
    BY <1>a, <1>e, <2>1, <2>2, <2>4, SameExplanation
<1>9. CASE Reap
  <2>1. /\ consumer.at = "send" /\ consumer.waits = {} /\ consumer' = Idle
        /\ connections' = connections \ consumer.failed
        /\ UNCHANGED <<table, queue, socket, cache, sock, clean>>
    BY <1>9 DEF Reap, client, page
  <2>2. ~Awaited /\ ~Awaited'
    BY <2>1 DEF Awaited, Idle
  <2>3. clean /\ Explained'
    BY <1>a, <1>e, <2>1, <2>2, SameExplanation
  <2>4. socket \notin consumer.failed
    BY <1>a, <1>b, <2>1, <2>3
  <2> QED
    BY <1>a, <2>1, <2>3, <2>4
<1>10. ASSUME UNCHANGED <<table, consumer, socket, cache, clean>>, queue'[socket] = queue[socket],
              clean => sock'[socket] = "open" /\ socket \in connections'
       PROVE  Goal
  <2>1. Awaited' <=> Awaited
    BY <1>10 DEF Awaited
  <2> QED
    BY <1>a, <1>e, <1>10, <2>1, SameExplanation
<1>11. ASSUME NEW s \in Sockets, Leave(s) PROVE Goal
  <2>1. clean => s # socket
    BY <1>a, <1>11 DEF Leave
  <2> QED
    BY <1>a, <1>10, <1>11, <2>1 DEF Leave, Left, client, page
<1>12. CASE Keepalive
  BY <1>0, <1>a, <1>10, <1>12 DEF Keepalive, server, client, page
<1>13. ASSUME NEW s \in Own, Accept(s) PROVE Goal
  <2>1. clean => s # socket
    BY <1>a, <1>13 DEF Accept
  <2> QED
    BY <1>0, <1>a, <1>10, <1>13, <2>1 DEF Accept, client, page
<1>14. ASSUME NEW s \in Own, Receive(s) PROVE Goal
  <2>1. /\ sock[s] = "open" /\ queue[s] # <<>> /\ queue' = [queue EXCEPT ![s] = Tail(queue[s])]
        /\ UNCHANGED <<table, consumer, socket, connections, sock, clean>>
    BY <1>14 DEF Receive, server, client
  <2>2. s = socket
    BY <2>1 DEF OneSocket
  <2>3. PICK msg \in Message : msg = Head(queue[socket])
    <3>1. queue[s] \in Seq(Message)
      BY <1>0, <2>2 DEF Queue
    <3> QED
      BY <2>1, <2>2, <3>1, HeadTailProperties
  <2>4. cache' = IF msg.type = "alert.new" THEN Prepended(msg.alert) ELSE Merged(msg.alert)
    BY <1>14, <2>2, <2>3 DEF Receive
  <2>5. (Awaited' <=> Awaited) /\ queue'[socket] = Tail(queue[socket])
    BY <1>0, <2>1, <2>2 DEF Awaited
  <2>6. Explained /\ cache # None /\ sock[socket] = "open" /\ socket \in connections
    BY <1>a, <2>1
  <2>7. UNCHANGED <<socket, Scores, consumer>> /\ queue[socket] # <<>>
    BY <1>e, <2>1, <2>2
  <2>8. Explained' /\ cache' # None
    BY <2>3, <2>4, <2>5, <2>6, <2>7, Taken
  <2> QED
    BY <2>1, <2>6, <2>8
<1>15. ASSUME NEW s \in Own, Break(s) PROVE Goal
  BY <1>15 DEF Break
<1>16. CASE Mount \/ TimerFires
  <2>1. Connected /\ UNCHANGED <<table, consumer, connections, queue, cache, clean>>
    BY <1>16 DEF Mount, TimerFires, server, page
  <2>2. ~MayConnect
    BY <1>a, <2>1 DEF MayConnect
  <2>3. UNCHANGED <<socket, sock>>
    BY <2>1, <2>2 DEF Connected
  <2> QED
    BY <1>a, <1>10, <2>1, <2>3
<1>17. CASE Die
  BY <1>17 DEF Die
<1>18. CASE Refetch
  BY <1>a, <1>10, <1>18 DEF Refetch, server, client
<1>19. CASE FetchDone
  <2>1. /\ fetch.at = "answered" /\ cache' = fetch.rows /\ Quiet /\ Shown(fetch.rows) = Shown(Listed)
        /\ UNCHANGED <<table, consumer, connections, queue, sock, socket>>
    BY <1>19 DEF FetchDone, Answer, server, client
  <2>2. fetch.rows \in Rows
    BY <2>1 DEF TypeOK, Idle
  <2>3. Shows(fetch.rows, Scores)
    BY <2>1, <2>2, ListedShows
  <2>4. /\ sock[socket] = "open" /\ socket \in connections /\ queue[socket] = <<>>
        /\ Scores' = Scores /\ ~Awaited'
    BY <1>e, <2>1 DEF Quiet, Awaited
  <2>5. PICK views \in [1..(0 + 1) -> Views] : views = [i \in 1..(0 + 1) |-> Scores]
    BY <1>c
  <2>6. views[1] = Scores /\ views[0 + 1] = Scores
    BY <2>5
  <2>7. Len(queue'[socket']) = 0
    BY <2>1, <2>4
  <2>8. Explains(views)'
    BY <2>1, <2>3, <2>4, <2>6, <2>7 DEF Explains
  <2>9. Explained'
    BY <2>5, <2>7, <2>8 DEF Explained
  <2>10. cache' # None
    BY <2>1, <2>2, NoneAssumption DEF Rows
  <2> QED
    BY <2>1, <2>4, <2>9, <2>10
<1> QED
  BY <1>1, <1>2, <1>3, <1>4, <1>5, <1>6, <1>7, <1>8, <1>9, <1>11, <1>12, <1>13, <1>14, <1>15,
     <1>16, <1>17, <1>18, <1>19, <1>20, <1>21, <1>22, <1>23 DEF Next

\* From an answer that raced nothing on, until the connection is lost or a row is
\* committed that nobody announces, the page shows the table's rows, their order
\* and their scores whenever nothing is under way, for any number of writes, faults,
\* rows and any buffer: what makes up for a message not yet received is on the
\* browser's queue or in the consumer's hands, once and in order, a refresh reads
\* what the message was to say, and a message put in front or merged leads from
\* one state of the table to the next.
THEOREM FeedFollows == Spec => []FeedKeepsUp
<1>1. Init => KeepsUpInv
  BY DEF Init, KeepsUpInv, FailedAreDead, CleanIsExplained, Idle
<1>2. TypeOK /\ TypeOK' /\ IdsInv /\ SocketInv /\ OneSocket /\ KeepsUpInv /\ [Next]_vars => KeepsUpInv'
  BY DeadStaysDead, NextExplained DEF KeepsUpInv
<1>3. TypeOK /\ KeepsUpInv => FeedKeepsUp
  <2> SUFFICES ASSUME TypeOK, KeepsUpInv, clean, Quiet PROVE Shown(cache) = Shown(Listed)
    BY DEF FeedKeepsUp
  <2>1. Explained /\ cache \in Rows
    BY DEF KeepsUpInv, CleanIsExplained, TypeOK
  <2>2. ~Awaited /\ Len(queue[socket]) = 0
    BY DEF Quiet, Awaited
  <2>3. PICK views \in [1..(0 + 1) -> Views] : Explains(views)
    BY <2>1, <2>2 DEF Explained
  <2>4. Shows(cache, Scores)
    BY <2>2, <2>3 DEF Explains
  <2> QED
    BY <2>1, <2>4, ListedShows
<1>4. Init => SocketInv
  BY BoundAssumption DEF Init, SocketInv, Own, Sockets, Peer
<1> QED
  BY TypeCorrect, OneSocketHolds, NextSocket, NextIds, InitIds, <1>1, <1>2, <1>3, <1>4, PTL
  DEF Spec
-----------------------------------------------------------------------------
(* A lost connection is answered                                           *)

\* While the newest socket is closed a reconnect is scheduled, and a socket was
\* made per fault at most, so that there is one left to make.
AttemptsInv ==
  /\ socket <= faults + 1
  /\ sock[socket] = "closed" => timers > 0 /\ socket <= faults

\* An open connection is registered, and a registered one has its ws_alerts, which
\* will find it closed; nothing else has one.
RegisteredInv ==
  /\ \A s \in Sockets : sock[s] = "open" => s \in connections
  /\ connections \subseteq serving
  /\ \A s \in serving : sock[s] \in {"open", "closed"}

LEMMA NextAttempt ==
  TypeOK /\ AttemptsInv /\ [Next]_vars => AttemptsInv'
<1> SUFFICES ASSUME TypeOK, AttemptsInv, [Next]_vars PROVE AttemptsInv'
  OBVIOUS
<1>0. /\ sock \in [Sockets -> {"none", "connecting", "open", "closed"}] /\ timers \in Nat
      /\ socket \in Own /\ Own \subseteq Sockets /\ Own \subseteq Nat \ {0}
      /\ faults \in 0..MaxFaults /\ MaxFaults \in Nat
  BY BoundAssumption DEF TypeOK, Own, Sockets
<1>1. CASE UNCHANGED <<sock, socket, timers, faults>>
  BY <1>1 DEF AttemptsInv
<1>2. ASSUME Connected, timers' \in Nat, UNCHANGED faults, ~MayConnect => timers' > 0 \/ sock[socket] # "closed"
      PROVE  AttemptsInv'
  <2>1. CASE MayConnect
    <3>1. socket <= faults /\ socket < MaxFaults + 1
      BY <1>0, <2>1 DEF AttemptsInv, MayConnect
    <3>2. socket' = socket + 1 /\ sock' = [sock EXCEPT ![socket + 1] = "connecting"]
      BY <1>2, <2>1, <3>1 DEF Connected
    <3>3. socket + 1 \in Sockets
      BY <1>0, <3>1 DEF Own
    <3> QED
      BY <1>0, <1>2, <3>1, <3>2, <3>3 DEF AttemptsInv
  <2>2. CASE ~MayConnect
    BY <1>2, <2>2 DEF Connected, MayConnect, AttemptsInv
  <2> QED
    BY <2>1, <2>2
<1>3. CASE Mount
  BY <1>0, <1>2, <1>3 DEF Mount, MayConnect
<1>4. CASE TimerFires
  BY <1>0, <1>2, <1>4 DEF TimerFires, MayConnect
<1>5. ASSUME NEW s \in Own, Accept(s) PROVE AttemptsInv'
  BY <1>0, <1>5 DEF Accept, AttemptsInv, client
<1>6. ASSUME NEW s \in Own, Break(s) PROVE AttemptsInv'
  BY <1>0, <1>6 DEF Break, Rescheduled, AttemptsInv
<1>7. CASE Keepalive
  <2>1. socket # Peer
    BY <1>0 DEF Peer
  <2> QED
    BY <1>0, <1>7, <2>1 DEF Keepalive, AttemptsInv, client
<1>8. CASE Die
  BY <1>0, <1>8 DEF Die, Rescheduled, AttemptsInv
<1>9. CASE RefreshFails \/ FoldFails
  <2>1. UNCHANGED <<sock, socket, timers>> /\ faults' = faults + 1
    BY <1>9 DEF RefreshFails, FoldFails, client
  <2> QED
    BY <1>0, <2>1 DEF AttemptsInv
<1> QED
  BY <1>1, <1>3, <1>4, <1>5, <1>6, <1>7, <1>8, <1>9
  DEF Next, vars, client, page, server, Insert, Refresh, FoldCommit, FoldLoad, Triage,
      SeedInsert, Copy, Reap, Send, SendFails, Leave, Receive, Refetch, FetchDone

LEMMA NextRegistered ==
  TypeOK /\ SocketInv /\ FailedAreDead /\ RegisteredInv /\ [Next]_vars => RegisteredInv'
<1> SUFFICES ASSUME TypeOK, SocketInv, FailedAreDead, RegisteredInv, [Next]_vars
             PROVE  RegisteredInv'
  OBVIOUS
<1>0. /\ sock \in [Sockets -> {"none", "connecting", "open", "closed"}]
      /\ connections \subseteq Sockets /\ serving \subseteq Sockets
      /\ socket \in Own /\ Own \subseteq Sockets /\ Own \subseteq Nat \ {0} /\ MaxFaults \in Nat
  BY BoundAssumption DEF TypeOK, Own, Sockets
<1>1. CASE UNCHANGED <<connections, serving, sock>>
  BY <1>1 DEF RegisteredInv
<1>2. ASSUME Connected, UNCHANGED <<connections, serving>> PROVE RegisteredInv'
  <2>1. CASE MayConnect /\ socket < MaxFaults + 1
    <3>1. sock' = [sock EXCEPT ![socket + 1] = "connecting"]
      BY <1>2, <2>1 DEF Connected
    <3>2. socket + 1 \in Own /\ sock[socket + 1] = "none"
      BY <1>0, <2>1 DEF Own, SocketInv
    <3>3. socket + 1 \notin serving
      BY <3>2 DEF RegisteredInv
    <3> QED
      BY <1>0, <1>2, <3>1, <3>2, <3>3 DEF RegisteredInv
  <2>2. CASE ~(MayConnect /\ socket < MaxFaults + 1)
    BY <1>1, <1>2, <2>2 DEF Connected
  <2> QED
    BY <2>1, <2>2
<1>3. CASE Mount \/ TimerFires
  BY <1>2, <1>3 DEF Mount, TimerFires, server
<1>4. CASE Reap
  BY <1>0, <1>4 DEF Reap, FailedAreDead, RegisteredInv, client
<1>5. ASSUME NEW s \in Own, Accept(s) PROVE RegisteredInv'
  BY <1>0, <1>5 DEF Accept, RegisteredInv
<1>6. ASSUME NEW s \in Sockets, Leave(s) PROVE RegisteredInv'
  BY <1>0, <1>6 DEF Leave, Left, RegisteredInv
<1>7. ASSUME NEW s \in Own, Break(s) PROVE RegisteredInv'
  BY <1>0, <1>7 DEF Break, RegisteredInv, server
<1>8. CASE Keepalive
  BY <1>0, <1>8 DEF Keepalive, RegisteredInv, server
<1>9. CASE Die
  BY <1>0, <1>9 DEF Die, RegisteredInv
<1> QED
  BY <1>1, <1>3, <1>4, <1>5, <1>6, <1>7, <1>8, <1>9
  DEF Next, vars, client, page, server, Insert, Refresh, RefreshFails, FoldCommit, FoldFails,
      FoldLoad, Triage, SeedInsert, Copy, Send, SendFails, Receive, Refetch, FetchDone

\* No browser is left alone, whatever was lost and whichever timers fire: while the
\* newest socket is closed a timer will call connect(), and it will make a new one.
\* While a socket is open it is among the connections a broadcast copies, and what
\* is among them is open or has a handler that will take it out.
THEOREM LossAnswered ==
  Spec => [](/\ sock[socket] = "closed" => timers > 0 /\ socket < MaxFaults + 1
             /\ \A s \in Sockets : sock[s] = "open" => s \in connections
             /\ \A s \in connections : sock[s] = "open" \/ (s \in serving /\ sock[s] = "closed"))
<1> DEFINE Answered ==
      /\ sock[socket] = "closed" => timers > 0 /\ socket < MaxFaults + 1
      /\ \A s \in Sockets : sock[s] = "open" => s \in connections
      /\ \A s \in connections : sock[s] = "open" \/ (s \in serving /\ sock[s] = "closed")
<1>1. Init => AttemptsInv /\ RegisteredInv /\ FailedAreDead /\ SocketInv
  BY BoundAssumption
  DEF Init, AttemptsInv, RegisteredInv, FailedAreDead, SocketInv, Idle, Own, Sockets, Peer
<1>2. TypeOK /\ AttemptsInv /\ RegisteredInv => Answered
  <2> SUFFICES ASSUME TypeOK, AttemptsInv, RegisteredInv PROVE Answered
    OBVIOUS
  <2>1. socket \in Nat /\ faults \in 0..MaxFaults /\ MaxFaults \in Nat
    BY BoundAssumption DEF TypeOK, Own
  <2>2. sock[socket] = "closed" => timers > 0 /\ socket < MaxFaults + 1
    BY <2>1 DEF AttemptsInv
  <2> QED
    BY <2>2 DEF RegisteredInv
<1> HIDE DEF Answered
<1>3. Spec => []Answered
  BY TypeCorrect, NextSocket, DeadStaysDead, NextAttempt, NextRegistered, <1>1, <1>2, PTL DEF Spec
<1> QED
  BY <1>3 DEF Answered
=============================================================================
