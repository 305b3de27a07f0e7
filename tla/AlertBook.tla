----------------------------- MODULE AlertBook -----------------------------
(***************************************************************************)
(* What the alert table promises to an analyst: every alert-level event is *)
(* either a new row that climbs at least Delta above every open alert the  *)
(* employee got within the window, or it is recorded in one existing row   *)
(* that is at most Delta below it.  Rows are never deleted, never change   *)
(* employee, and their score never falls.                                  *)
(*                                                                         *)
(* This is the atomic specification; AlertLifecycle implements it with a   *)
(* consumer and API handlers that read, suspend and write.                 *)
(***************************************************************************)
EXTENDS Integers, Sequences

CONSTANTS Employees,   \* employee ids
          Scores,      \* fused scores, in hundredths
          Delta,       \* ALERT_DEDUP_DELTA, in hundredths
          Window,      \* ALERT_DEDUP_WINDOW_MINUTES, in clock units
          Analysts     \* user names that triage

VARIABLES book,        \* the rows of the alerts table; the index is the id
          clock        \* wall clock

bookVars == <<book, clock>>

Unassigned == "unassigned"

BookRow == [emp : Employees, score : Scores,
            status : {"open", "dismissed", "investigating", "escalated"},
            source : {"seed", "replay"}, at : Nat, seen : Nat,
            owner : Analysts \union {Unassigned}]

OpenRecent(e) == {i \in DOMAIN book : /\ book[i].emp = e
                                      /\ book[i].status = "open"
                                      /\ book[i].at + Window >= clock}

\* A table the seed script left behind: at most one row per employee.
BookInit ==
  /\ clock \in Nat
  /\ book \in Seq(BookRow)
  /\ \A i, j \in DOMAIN book : book[i].emp = book[j].emp => i = j

\* A new row is always a step up from what is open and recent.
Raise(e, s) ==
  /\ \A i \in OpenRecent(e) : s >= book[i].score + Delta
  /\ book' = Append(book, [emp |-> e, score |-> s, status |-> "open",
                           source |-> "replay", at |-> clock,
                           seen |-> clock, owner |-> Unassigned])
  /\ UNCHANGED clock

Touched(row, s) == [row EXCEPT !.seen = clock, !.score = IF s > @ THEN s ELSE @]

\* An event that is not a step up leaves its trace in a row of its employee.
Fold(e, s) ==
  /\ \E i \in DOMAIN book :
       /\ book[i].emp = e
       /\ s < book[i].score + Delta
       /\ book' = [book EXCEPT ![i] = Touched(@, s)]
  /\ UNCHANGED clock

\* Triage changes nothing but statuses and owners.
Triage ==
  /\ book' \in Seq(BookRow)
  /\ DOMAIN book' = DOMAIN book
  /\ \A i \in DOMAIN book :
       book'[i] = [book[i] EXCEPT !.status = book'[i].status,
                                  !.owner = book'[i].owner]
  /\ UNCHANGED clock

TimePasses == /\ clock' > clock
              /\ UNCHANGED book

BookNext == \/ \E e \in Employees, s \in Scores : Raise(e, s) \/ Fold(e, s)
            \/ Triage
            \/ TimePasses

BookSpec == BookInit /\ [][BookNext]_bookVars
=============================================================================
