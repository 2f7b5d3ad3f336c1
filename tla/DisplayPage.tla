---------------------------- MODULE DisplayPage ----------------------------
(***************************************************************************)
(* The display page of the panel.  The main thread runs the LVGL loop and  *)
(* every button callback under lvgl_mutex; each visit of the page opens a  *)
(* connection to user.db and starts a thread tunc that reads the sensor    *)
(* line, inserts it and writes the labels under the same mutex.  The       *)
(* return button cancels the thread and joins it.                          *)
(*                                                                         *)
(* A visit, its connection, its thread and its labels share one number.    *)
(* Cancellation is deferred: a thread dies only where it calls read,       *)
(* sleep, printf or, inside sqlite3_exec, the file system.                 *)
(***************************************************************************)
EXTENDS Naturals, FiniteSets

CONSTANTS
  MaxVisits,  \* bound on the visits of the page
  MaxOpen     \* connections the process has descriptors for

ASSUME DisplayAssumption == MaxVisits \in Nat /\ MaxOpen \in Nat

VARIABLES
  ui,         \* where the main thread is
  page,       \* the screen shown
  visits,     \* visits so far; the globals t_id, obj and db are of the last
  mutex,      \* who holds lvgl_mutex: Free, Main, or the thread of a visit
  tunc,       \* where the thread of each visit is
  labels,     \* the visit whose labels the thread has got
  cancelled,  \* the threads with a cancellation pending
  conn,       \* the connection of each visit
  dbLock,     \* the connection that holds the write lock of user.db, or 0
  misused     \* history: a closed connection was used

screen == <<ui, page, visits>>
thread == <<tunc, labels, cancelled>>
store  == <<conn, dbLock, misused>>
vars   == <<screen, mutex, thread, store>>

Visit == 1 .. MaxVisits
Free  == 0
Main  == MaxVisits + 1

TypeOK ==
  /\ ui \in {"lock", "handle", "join"}
  /\ page \in {"main", "display", "blank"}
  /\ visits \in 0 .. MaxVisits
  /\ mutex \in Visit \cup {Free, Main}
  /\ tunc \in [Visit -> {"none", "start", "read", "insert", "commit", "print", "lock",
                         "label", "sleep", "dead", "joined"}]
  /\ labels \in [Visit -> 0 .. MaxVisits]
  /\ cancelled \subseteq Visit
  /\ conn \in [Visit -> {"none", "open", "closed"}]
  /\ dbLock \in 0 .. MaxVisits
  /\ misused \in BOOLEAN

Init ==
  /\ ui = "lock" /\ page = "main" /\ visits = 0 /\ mutex = Free
  /\ tunc = [v \in Visit |-> "none"]
  /\ labels = [v \in Visit |-> 0]
  /\ cancelled = {}
  /\ conn = [v \in Visit |-> "none"]
  /\ dbLock = 0
  /\ misused = FALSE

-----------------------------------------------------------------------------
(* The main thread: the loop, and the callbacks lv_timer_handler calls. *)

UiLock ==
  /\ ui = "lock"
  /\ mutex = Free
  /\ mutex' = Main
  /\ ui' = "handle"
  /\ UNCHANGED <<page, visits, thread, store>>

UiUnlock ==
  /\ ui = "handle"
  /\ mutex' = Free
  /\ ui' = "lock"
  /\ UNCHANGED <<page, visits, thread, store>>

Open == {v \in Visit : conn[v] = "open"}

\* DisplayPageRun.  If the database cannot be opened the page is left empty, and
\* is shown all the same.  The connection of an earlier visit is not closed.
ClickDisplay ==
  /\ ui = "handle"
  /\ page = "main"
  /\ visits < MaxVisits
  /\ IF Cardinality(Open) < MaxOpen
     THEN /\ visits' = visits + 1
          /\ conn' = [conn EXCEPT ![visits'] = "open"]
          /\ tunc' = [tunc EXCEPT ![visits'] = "start"]
          /\ page' = "display"
     ELSE /\ page' = "blank"
          /\ UNCHANGED <<visits, conn, tunc>>
  /\ UNCHANGED <<ui, mutex, labels, cancelled, dbLock, misused>>

\* Faults of the return button: the thread is not joined; it is not cancelled;
\* the thread of the visit before is cancelled.
ClickReturnNoJoin ==
  /\ ui = "handle" /\ page = "display" /\ page' = "main"
  /\ cancelled' = cancelled \cup {visits}
  /\ UNCHANGED <<ui, visits, mutex, tunc, labels, store>>

ClickReturnCancelling(threads) ==
  /\ ui = "handle" /\ page = "display" /\ ui' = "join"
  /\ cancelled' = cancelled \cup threads
  /\ UNCHANGED <<page, visits, mutex, tunc, labels, store>>

ClickReturnNoCancel == ClickReturnCancelling({})
ClickReturnOldId    == ClickReturnCancelling({visits - 1})

\* The return button: pthread_cancel, then pthread_join, under lvgl_mutex.
ClickReturn ==
  /\ ui = "handle"
  /\ page = "display"
  /\ cancelled' = cancelled \cup {visits}
  /\ ui' = "join"
  /\ UNCHANGED <<page, visits, mutex, tunc, labels, store>>

Join ==
  /\ ui = "join"
  /\ tunc[visits] = "dead"
  /\ tunc' = [tunc EXCEPT ![visits] = "joined"]
  /\ page' = "main"
  /\ ui' = "handle"
  /\ UNCHANGED <<visits, mutex, labels, cancelled, store>>

\* Fault: the callback closes the connection when it is done.
ClickQueryCloses ==
  /\ ui = "handle" /\ page = "display" /\ tunc[visits] # "commit"
  /\ misused' = (misused \/ conn[visits] = "closed")
  /\ conn' = [conn EXCEPT ![visits] = "closed"]
  /\ UNCHANGED <<screen, mutex, thread, dbLock>>

\* The query button waits for an exec of the thread on the same connection.  A
\* write lock of another connection may make it fail; the callback then closes
\* the connection, which stays in db.
ClickQuery ==
  /\ ui = "handle"
  /\ page = "display"
  /\ tunc[visits] # "commit"
  /\ misused' = (misused \/ conn[visits] = "closed")
  /\ conn' \in {conn} \cup
       IF dbLock \notin {0, visits} THEN {[conn EXCEPT ![visits] = "closed"]} ELSE {}
  /\ UNCHANGED <<screen, mutex, thread, dbLock>>

-----------------------------------------------------------------------------
(* The thread of a visit. *)

Goto(v, from, to) == tunc[v] = from /\ tunc' = [tunc EXCEPT ![v] = to]

\* A call that is a cancellation point does not return to a cancelled thread.
Pass(v, from, to) == v \notin cancelled /\ Goto(v, from, to)

\* lv_obj_get_child on the global obj.
GetLabels(v) ==
  /\ Goto(v, "start", "read")
  /\ labels' = [labels EXCEPT ![v] = visits]
  /\ UNCHANGED <<screen, mutex, cancelled, store>>

\* A line that does not parse is skipped.
Read(v) ==
  /\ Pass(v, "read", "insert") \/ Pass(v, "read", "sleep")
  /\ UNCHANGED <<screen, mutex, labels, cancelled, store>>

\* The INSERT takes the write lock, or fails at once; the error is only printed.
Insert(v) ==
  /\ tunc[v] = "insert"
  /\ misused' = (misused \/ conn[visits] = "closed")
  /\ IF conn[visits] = "open" /\ dbLock = 0
     THEN Goto(v, "insert", "commit") /\ dbLock' = visits
     ELSE Goto(v, "insert", "print") /\ UNCHANGED dbLock
  /\ UNCHANGED <<screen, mutex, labels, cancelled, conn>>

Commit(v) ==
  /\ Pass(v, "commit", "print")
  /\ dbLock' = 0
  /\ UNCHANGED <<screen, mutex, labels, cancelled, conn, misused>>

PrintResult(v) ==
  /\ Pass(v, "print", "lock")
  /\ UNCHANGED <<screen, mutex, labels, cancelled, store>>

\* Fault: the lock is tried, and its result is not looked at.
TryLock(v) ==
  /\ Goto(v, "lock", "label")
  /\ mutex' = IF mutex = Free THEN v ELSE mutex
  /\ UNCHANGED <<screen, labels, cancelled, store>>

\* pthread_mutex_lock is no cancellation point.
Lock(v) ==
  /\ Goto(v, "lock", "label")
  /\ mutex = Free
  /\ mutex' = v
  /\ UNCHANGED <<screen, labels, cancelled, store>>

\* The labels are written and the mutex is released.
Unlock(v) ==
  /\ Goto(v, "label", "sleep")
  /\ mutex' = Free
  /\ UNCHANGED <<screen, labels, cancelled, store>>

Sleep(v) ==
  /\ Pass(v, "sleep", "read")
  /\ UNCHANGED <<screen, mutex, labels, cancelled, store>>

\* Nothing is cleaned up: a transaction that is cut keeps its lock.  sqlite3_exec
\* may meet its first cancellation point before or after it takes the lock.
CancellationPoint == {"read", "insert", "commit", "print", "sleep"}

Die(v) ==
  /\ v \in cancelled
  /\ \E l \in CancellationPoint : Goto(v, l, "dead")
  /\ UNCHANGED <<screen, mutex, labels, cancelled, store>>

-----------------------------------------------------------------------------
Thread(v) ==
  \/ GetLabels(v) \/ Read(v) \/ Insert(v) \/ Commit(v)
  \/ PrintResult(v) \/ Lock(v) \/ Unlock(v) \/ Sleep(v)

Ui == UiLock \/ UiUnlock \/ ClickDisplay \/ ClickReturn \/ Join \/ ClickQuery

Next == Ui \/ \E v \in Visit : Thread(v) \/ Die(v)

Spec == Init /\ [][Next]_vars

\* The threads are scheduled fairly, a waiter of the mutex gets it in the end, a
\* callback returns and a cancellation acts at the next point; the user need
\* not click.
FairSpec ==
  /\ Spec
  /\ SF_vars(UiLock) /\ WF_vars(UiUnlock) /\ WF_vars(Join)
  /\ \A v \in Visit : WF_vars(Thread(v) \/ Die(v)) /\ SF_vars(Lock(v))

-----------------------------------------------------------------------------

Alive(v) == tunc[v] \notin {"none", "dead", "joined"}

\* A cancelled thread never takes lvgl_mutex with it: who holds it will unlock.
MutexNotOrphaned ==
  /\ \A v \in Visit : mutex = v <=> tunc[v] = "label"
  /\ mutex = Main <=> ui \in {"handle", "join"}

\* One thread at a time reads the serial line and the globals of the page.
OneUpdater == \A v, w \in Visit : Alive(v) /\ Alive(w) => v = w

\* The labels a thread writes are those of the page on the screen: leaving the
\* page, which deletes them, waits for the thread.
LabelsLive ==
  \A v \in Visit : tunc[v] = "label" => page = "display" /\ labels[v] = visits

\* The return button leaves the page unless it finds the thread waiting for
\* lvgl_mutex, or about to: wherever else the thread is, it gets cancelled.
CleanReturn ==
  \A v \in Visit : (ui = "join" /\ visits = v /\ tunc[v] # "lock") ~> page = "main"

\* A closed connection is used only after a return cut an insert in its middle.
MisuseNeedsCut == misused => dbLock # 0 /\ tunc[dbLock] \in {"dead", "joined"}

\* main: while(1) { handle LVGL tasks }
UiKeepsRunning == []<>(ui = "lock")
=============================================================================
