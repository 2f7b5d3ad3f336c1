------------------------- MODULE DisplayPageProofs -------------------------
(***************************************************************************)
(* Proofs about module DisplayPage, for any number of visits and of        *)
(* descriptors.                                                            *)
(***************************************************************************)
EXTENDS DisplayPage, TLAPS

Gone(v) == tunc[v] \in {"dead", "joined"}

\* All visits but the last are over, and so is the last when its page is left; it
\* is cancelled only by a return that then waits for it.
Visits ==
  /\ \A v \in Visit : v > visits =>
       tunc[v] = "none" /\ conn[v] = "none" /\ v \notin cancelled
  /\ \A v \in Visit : v < visits => tunc[v] = "joined"
  /\ \A v \in Visit : v = visits /\ page # "display" => tunc[v] = "joined"
  /\ page = "display" => visits \in Visit /\ tunc[visits] \notin {"none", "joined"}
  /\ ui = "join" => page = "display" /\ visits \in cancelled
  /\ page = "display" /\ visits \in cancelled => ui = "join"
  /\ \A v \in Visit : tunc[v] = "dead" => v \in cancelled

\* A thread past its start holds the labels of its own visit.
OwnLabels == \A v \in Visit : tunc[v] \notin {"none", "start"} => labels[v] = v

\* The write lock belongs to the thread inside an insert, or to one that was cut
\* there; that one keeps it.
WriteLock ==
  /\ \A v \in Visit : tunc[v] = "commit" => dbLock = v
  /\ dbLock # 0 => tunc[dbLock] = "commit" \/ Gone(dbLock)

\* A connection is closed only by a query that failed, which needs such a lock.
Cut      == dbLock # 0 /\ Gone(dbLock)
ClosedBy == (misused \/ \E v \in Visit : conn[v] = "closed") => Cut

IInv == TypeOK /\ MutexNotOrphaned /\ Visits /\ OwnLabels /\ WriteLock /\ ClosedBy
-----------------------------------------------------------------------------

LEMMA InitIInv == Init => IInv
<1> SUFFICES ASSUME Init PROVE IInv
  OBVIOUS
<1> USE DisplayAssumption DEF Init, Visit, Main, Free
<1>1. TypeOK
  <2>1. 0 \in 0 .. MaxVisits
    OBVIOUS
  <2>2. tunc \in [Visit -> {"none"}] /\ conn \in [Visit -> {"none"}]
    OBVIOUS
  <2>3. labels \in [Visit -> 0 .. MaxVisits]
    BY <2>1
  <2>4. QED
    BY <2>1, <2>2, <2>3 DEF TypeOK
<1>5. MutexNotOrphaned
  BY DEF MutexNotOrphaned
<1>2. Visits /\ OwnLabels
  BY DEF Visits, OwnLabels
<1>3. WriteLock /\ ClosedBy
  BY DEF WriteLock, ClosedBy
<1>4. QED
  BY <1>1, <1>5, <1>2, <1>3 DEF IInv

-----------------------------------------------------------------------------

LEMMA UiLockKeeps ==
  ASSUME IInv, UiLock
  PROVE  IInv'
<1> USE DisplayAssumption DEF IInv, UiLock, screen, thread, store, Visit, Main, Free, TypeOK
<1>1. TypeOK'
  OBVIOUS
<1>2. MutexNotOrphaned'
  BY DEF MutexNotOrphaned
<1>3. Visits'
  BY DEF Visits
<1>4. OwnLabels'
  BY DEF OwnLabels, Visits
<1>5. WriteLock'
  BY DEF WriteLock, Gone, Visits
<1>6. ClosedBy'
  BY DEF ClosedBy, Cut, WriteLock, Gone, Visits
<1>7. QED
  BY <1>1, <1>2, <1>3, <1>4, <1>5, <1>6

LEMMA UiUnlockKeeps ==
  ASSUME IInv, UiUnlock
  PROVE  IInv'
<1> USE DisplayAssumption DEF IInv, UiUnlock, screen, thread, store, Visit, Main, Free, TypeOK
<1>1. TypeOK'
  OBVIOUS
<1>2. MutexNotOrphaned'
  BY DEF MutexNotOrphaned
<1>3. Visits'
  BY DEF Visits
<1>4. OwnLabels'
  BY DEF OwnLabels, Visits
<1>5. WriteLock'
  BY DEF WriteLock, Gone, Visits
<1>6. ClosedBy'
  BY DEF ClosedBy, Cut, WriteLock, Gone, Visits
<1>7. QED
  BY <1>1, <1>2, <1>3, <1>4, <1>5, <1>6

LEMMA ClickDisplayKeeps ==
  ASSUME IInv, ClickDisplay
  PROVE  IInv'
<1> USE DisplayAssumption DEF IInv, ClickDisplay, screen, thread, store, Open, Visit, Main, Free, TypeOK
<1>9. CASE page' = "blank"
  <2>1. TypeOK'
    BY <1>9
  <2>2. Visits'
    BY <1>9 DEF Visits
  <2>3. QED
    BY <1>9, <2>1, <2>2 DEF MutexNotOrphaned, OwnLabels, WriteLock, Gone, ClosedBy, Cut
<1>10. CASE page' = "display"
  <2>1. /\ visits' = visits + 1 /\ visits' \in Visit
        /\ conn' = [conn EXCEPT ![visits'] = "open"]
        /\ tunc' = [tunc EXCEPT ![visits'] = "start"]
        /\ UNCHANGED <<ui, mutex, labels, cancelled, dbLock, misused>>
    BY <1>10
  <2>2. TypeOK'
    BY <1>10, <2>1
  <2>3. MutexNotOrphaned'
    BY <2>1 DEF MutexNotOrphaned, Visits
  <2>4. Visits'
    <3>1. visits' \notin cancelled
      BY <2>1 DEF Visits
    <3>2. \A v \in Visit : v > visits' => tunc'[v] = "none" /\ conn'[v] = "none"
      BY <2>1 DEF Visits
    <3>3. \A v \in Visit : v < visits' => tunc'[v] = "joined"
      BY <2>1 DEF Visits
    <3>4. QED
      BY <1>10, <2>1, <3>1, <3>2, <3>3 DEF Visits
  <2>5. OwnLabels'
    BY <2>1 DEF OwnLabels, Visits
  <2>6. WriteLock'
    BY <2>1 DEF WriteLock, Gone, Visits
  <2>7. ClosedBy'
    BY <2>1 DEF ClosedBy, Cut, WriteLock, Gone, Visits
  <2>8. QED
    BY <2>2, <2>3, <2>4, <2>5, <2>6, <2>7
<1>11. QED
  BY <1>9, <1>10


LEMMA ClickReturnKeeps ==
  ASSUME IInv, ClickReturn
  PROVE  IInv'
<1> USE DisplayAssumption DEF IInv, ClickReturn, screen, thread, store, Visit, Main, Free, TypeOK
<1>1. TypeOK'
  <2>1. visits \in Visit
    BY DEF Visits
  <2>2. cancelled' \subseteq Visit
    BY <2>1
  <2>3. QED
    BY <2>2
<1>2. MutexNotOrphaned'
  BY DEF MutexNotOrphaned
<1>3. Visits'
  BY DEF Visits
<1>4. OwnLabels'
  BY DEF OwnLabels, Visits
<1>5. WriteLock'
  BY DEF WriteLock, Gone, Visits
<1>6. ClosedBy'
  BY DEF ClosedBy, Cut, WriteLock, Gone, Visits
<1>7. QED
  BY <1>1, <1>2, <1>3, <1>4, <1>5, <1>6

LEMMA JoinKeeps ==
  ASSUME IInv, Join
  PROVE  IInv'
<1> USE DisplayAssumption DEF IInv, Join, screen, thread, store, Visit, Main, Free, TypeOK
<1>1. TypeOK'
  OBVIOUS
<1>2. MutexNotOrphaned'
  BY DEF MutexNotOrphaned
<1>3. Visits'
  BY DEF Visits
<1>4. OwnLabels'
  BY DEF OwnLabels, Visits
<1>5. WriteLock'
  BY DEF WriteLock, Gone, Visits
<1>6. ClosedBy'
  BY DEF ClosedBy, Cut, WriteLock, Gone, Visits
<1>7. QED
  BY <1>1, <1>2, <1>3, <1>4, <1>5, <1>6

LEMMA ClickQueryKeeps ==
  ASSUME IInv, ClickQuery
  PROVE  IInv'
<1> USE DisplayAssumption DEF IInv, ClickQuery, screen, thread, store, Visit, Main, Free, TypeOK
<1>1. TypeOK'
  OBVIOUS
<1>2. MutexNotOrphaned'
  BY DEF MutexNotOrphaned
<1>3. Visits'
  BY DEF Visits
<1>4. OwnLabels'
  BY DEF OwnLabels, Visits
<1>5. WriteLock'
  BY DEF WriteLock, Gone, Visits
<1>6. ClosedBy'
  BY DEF ClosedBy, Cut, WriteLock, Gone, Visits
<1>7. QED
  BY <1>1, <1>2, <1>3, <1>4, <1>5, <1>6

LEMMA GetLabelsKeeps ==
  ASSUME IInv, NEW v \in Visit, GetLabels(v)
  PROVE  IInv'
<1> USE DisplayAssumption DEF IInv, GetLabels, screen, thread, store, Goto, Pass, Visit, Main, Free, TypeOK
<1>1. TypeOK'
  OBVIOUS
<1>2. MutexNotOrphaned'
  BY DEF MutexNotOrphaned
<1>3. Visits'
  BY DEF Visits
<1>4. OwnLabels'
  BY DEF OwnLabels, Visits
<1>5. WriteLock'
  BY DEF WriteLock, Gone, Visits
<1>6. ClosedBy'
  BY DEF ClosedBy, Cut, WriteLock, Gone, Visits
<1>7. QED
  BY <1>1, <1>2, <1>3, <1>4, <1>5, <1>6

LEMMA ReadKeeps ==
  ASSUME IInv, NEW v \in Visit, Read(v)
  PROVE  IInv'
<1> USE DisplayAssumption DEF IInv, Read, screen, thread, store, Goto, Pass, Visit, Main, Free, TypeOK
<1>1. TypeOK'
  OBVIOUS
<1>2. MutexNotOrphaned'
  BY DEF MutexNotOrphaned
<1>3. Visits'
  BY DEF Visits
<1>4. OwnLabels'
  BY DEF OwnLabels, Visits
<1>5. WriteLock'
  BY DEF WriteLock, Gone, Visits
<1>6. ClosedBy'
  BY DEF ClosedBy, Cut, WriteLock, Gone, Visits
<1>7. QED
  BY <1>1, <1>2, <1>3, <1>4, <1>5, <1>6

LEMMA InsertKeeps ==
  ASSUME IInv, NEW v \in Visit, Insert(v)
  PROVE  IInv'
<1> USE DisplayAssumption DEF IInv, Insert, screen, thread, store, Goto, Pass, Visit, Main, Free, TypeOK
<1>1. TypeOK'
  OBVIOUS
<1>2. MutexNotOrphaned'
  BY DEF MutexNotOrphaned
<1>3. Visits'
  BY DEF Visits
<1>4. OwnLabels'
  BY DEF OwnLabels, Visits
<1>5. WriteLock'
  BY DEF WriteLock, Gone, Visits
<1>6. ClosedBy'
  BY DEF ClosedBy, Cut, WriteLock, Gone, Visits
<1>7. QED
  BY <1>1, <1>2, <1>3, <1>4, <1>5, <1>6

LEMMA CommitKeeps ==
  ASSUME IInv, NEW v \in Visit, Commit(v)
  PROVE  IInv'
<1> USE DisplayAssumption DEF IInv, Commit, screen, thread, store, Goto, Pass, Visit, Main, Free, TypeOK
<1>1. TypeOK'
  OBVIOUS
<1>2. MutexNotOrphaned'
  BY DEF MutexNotOrphaned
<1>3. Visits'
  BY DEF Visits
<1>4. OwnLabels'
  BY DEF OwnLabels, Visits
<1>5. WriteLock'
  BY DEF WriteLock, Gone, Visits
<1>6. ClosedBy'
  BY DEF ClosedBy, Cut, WriteLock, Gone, Visits
<1>7. QED
  BY <1>1, <1>2, <1>3, <1>4, <1>5, <1>6

LEMMA PrintResultKeeps ==
  ASSUME IInv, NEW v \in Visit, PrintResult(v)
  PROVE  IInv'
<1> USE DisplayAssumption DEF IInv, PrintResult, screen, thread, store, Goto, Pass, Visit, Main, Free, TypeOK
<1>1. TypeOK'
  OBVIOUS
<1>2. MutexNotOrphaned'
  BY DEF MutexNotOrphaned
<1>3. Visits'
  BY DEF Visits
<1>4. OwnLabels'
  BY DEF OwnLabels, Visits
<1>5. WriteLock'
  BY DEF WriteLock, Gone, Visits
<1>6. ClosedBy'
  BY DEF ClosedBy, Cut, WriteLock, Gone, Visits
<1>7. QED
  BY <1>1, <1>2, <1>3, <1>4, <1>5, <1>6

LEMMA LockKeeps ==
  ASSUME IInv, NEW v \in Visit, Lock(v)
  PROVE  IInv'
<1> USE DisplayAssumption DEF IInv, Lock, screen, thread, store, Goto, Pass, Visit, Main, Free, TypeOK
<1>1. TypeOK'
  OBVIOUS
<1>2. MutexNotOrphaned'
  BY DEF MutexNotOrphaned
<1>3. Visits'
  BY DEF Visits
<1>4. OwnLabels'
  BY DEF OwnLabels, Visits
<1>5. WriteLock'
  BY DEF WriteLock, Gone, Visits
<1>6. ClosedBy'
  BY DEF ClosedBy, Cut, WriteLock, Gone, Visits
<1>7. QED
  BY <1>1, <1>2, <1>3, <1>4, <1>5, <1>6

LEMMA UnlockKeeps ==
  ASSUME IInv, NEW v \in Visit, Unlock(v)
  PROVE  IInv'
<1> USE DisplayAssumption DEF IInv, Unlock, screen, thread, store, Goto, Pass, Visit, Main, Free, TypeOK
<1>1. TypeOK'
  OBVIOUS
<1>2. MutexNotOrphaned'
  BY DEF MutexNotOrphaned
<1>3. Visits'
  BY DEF Visits
<1>4. OwnLabels'
  BY DEF OwnLabels, Visits
<1>5. WriteLock'
  BY DEF WriteLock, Gone, Visits
<1>6. ClosedBy'
  BY DEF ClosedBy, Cut, WriteLock, Gone, Visits
<1>7. QED
  BY <1>1, <1>2, <1>3, <1>4, <1>5, <1>6

LEMMA SleepKeeps ==
  ASSUME IInv, NEW v \in Visit, Sleep(v)
  PROVE  IInv'
<1> USE DisplayAssumption DEF IInv, Sleep, screen, thread, store, Goto, Pass, Visit, Main, Free, TypeOK
<1>1. TypeOK'
  OBVIOUS
<1>2. MutexNotOrphaned'
  BY DEF MutexNotOrphaned
<1>3. Visits'
  BY DEF Visits
<1>4. OwnLabels'
  BY DEF OwnLabels, Visits
<1>5. WriteLock'
  BY DEF WriteLock, Gone, Visits
<1>6. ClosedBy'
  BY DEF ClosedBy, Cut, WriteLock, Gone, Visits
<1>7. QED
  BY <1>1, <1>2, <1>3, <1>4, <1>5, <1>6

LEMMA DieKeeps ==
  ASSUME IInv, NEW v \in Visit, Die(v)
  PROVE  IInv'
<1> USE DisplayAssumption DEF IInv, Die, screen, thread, store, Goto, Pass, CancellationPoint, Visit, Main, Free, TypeOK
<1>1. TypeOK'
  OBVIOUS
<1>2. MutexNotOrphaned'
  BY DEF MutexNotOrphaned
<1>3. Visits'
  BY DEF Visits
<1>4. OwnLabels'
  BY DEF OwnLabels, Visits
<1>5. WriteLock'
  BY DEF WriteLock, Gone, Visits
<1>6. ClosedBy'
  BY DEF ClosedBy, Cut, WriteLock, Gone, Visits
<1>7. QED
  BY <1>1, <1>2, <1>3, <1>4, <1>5, <1>6

-----------------------------------------------------------------------------

LEMMA StepIInv == IInv /\ [Next]_vars => IInv'
<1> SUFFICES ASSUME IInv, [Next]_vars PROVE IInv'
  OBVIOUS
<1>1. CASE Ui
  BY <1>1, UiLockKeeps, UiUnlockKeeps, ClickDisplayKeeps, ClickReturnKeeps,
     JoinKeeps, ClickQueryKeeps DEF Ui
<1>2. ASSUME NEW v \in Visit, Thread(v) PROVE IInv'
  BY <1>2, GetLabelsKeeps, ReadKeeps, InsertKeeps, CommitKeeps, PrintResultKeeps,
     LockKeeps, UnlockKeeps, SleepKeeps DEF Thread
<1>3. ASSUME NEW v \in Visit, Die(v) PROVE IInv'
  BY <1>3, DieKeeps
<1>4. CASE UNCHANGED vars
  BY <1>4 DEF vars, screen, thread, store, IInv, TypeOK, MutexNotOrphaned, Visits,
     OwnLabels, WriteLock, ClosedBy, Cut, Gone, Main
<1>5. QED
  BY <1>1, <1>2, <1>3, <1>4 DEF Next

\* The invariant the results below are read from.
THEOREM Invariance == Spec => []IInv
  BY InitIInv, StepIInv, PTL DEF Spec

\* TypeOK: the page never counts a visit it has no room for, and every thread,
\* connection and lock is in one of its states.
THEOREM TypeCorrect == Spec => []TypeOK
<1>1. IInv => TypeOK
  BY DEF IInv
<1>2. QED
  BY <1>1, Invariance, PTL

\* MutexNotOrphaned: lvgl_mutex is held exactly by the thread that writes labels or
\* by the main thread in its callbacks, so no cancelled thread dies with it.
THEOREM MutexOwned == Spec => []MutexNotOrphaned
<1>1. IInv => MutexNotOrphaned
  BY DEF IInv
<1>2. QED
  BY <1>1, Invariance, PTL

\* OneUpdater: however often the page is left and opened again, one thread at most
\* reads the sensor line.
THEOREM OneThread == Spec => []OneUpdater
<1>1. IInv => OneUpdater
  BY DisplayAssumption DEF IInv, TypeOK, Visits, OneUpdater, Alive, Visit
<1>2. QED
  BY <1>1, Invariance, PTL

\* LabelsLive: a thread inside the mutex writes labels of the page on the screen.
THEOREM NoDeadLabels == Spec => []LabelsLive
<1>1. IInv => LabelsLive
  BY DisplayAssumption DEF IInv, TypeOK, Visits, OwnLabels, LabelsLive, Visit
<1>2. QED
  BY <1>1, Invariance, PTL

\* MisuseNeedsCut: no closed connection is used unless a return cut an insert.
THEOREM MisuseOnlyAfterCut == Spec => []MisuseNeedsCut
<1>1. IInv => MisuseNeedsCut
  BY DEF IInv, ClosedBy, Cut, Gone, MisuseNeedsCut
<1>2. QED
  BY <1>1, Invariance, PTL

-----------------------------------------------------------------------------
(* How a return ends. *)

\* The steps that the thread has still to take when it is cancelled.
Left ==
  LET at == tunc[visits]
  IN IF at \in {"insert", "label", "start"} THEN 3
     ELSE IF at \in CancellationPoint THEN 2 ELSE 1

Stuck == ui = "join" /\ tunc[visits] = "lock"

\* CleanReturn says that a return ends unless it is stuck.  What it says of each
\* step: every step that is taken while the main thread joins brings it nearer to
\* the page, and none goes to the lock that would stop it.
ReturnGoesOn ==
  [][ui = "join" /\ ~ Stuck =>
       \/ ui' = "handle" /\ page' = "main"
       \/ ui' = "join" /\ ~ Stuck' /\ Left' < Left]_vars

THEOREM EveryStepOfAReturn == Spec => ReturnGoesOn
<1>1. ASSUME IInv, Next, ui = "join", ~ Stuck
      PROVE  \/ ui' = "handle" /\ page' = "main"
             \/ ui' = "join" /\ ~ Stuck' /\ Left' < Left
  <2>1. visits \in Visit /\ visits \in cancelled /\ tunc[visits] # "lock"
    BY <1>1 DEF IInv, Visits, Stuck
  <2>2. tunc \in [Visit -> {"none", "start", "read", "insert", "commit", "print", "lock",
                            "label", "sleep", "dead", "joined"}]
    BY <1>1 DEF IInv, TypeOK
  <2>3. \A v \in Visit : v # visits => tunc[v] \in {"none", "joined"}
    <3>1. visits \in Nat /\ \A v \in Visit : v \in Nat
      BY <2>1, DisplayAssumption DEF Visit
    <3>2. \A v \in Visit : v # visits => v < visits \/ v > visits
      BY <3>1
    <3>3. QED
      BY <1>1, <3>2 DEF IInv, Visits
  <2>4. CASE Join
    BY <2>4 DEF Join
  <2>5. ASSUME NEW v \in Visit, Thread(v) \/ Die(v)
        PROVE  ui' = "join" /\ ~ Stuck' /\ Left' < Left
    <3>1. v = visits
      BY <2>3, <2>5 DEF Thread, Die, GetLabels, Read, Insert, Commit, PrintResult, Lock, Unlock, Sleep, Pass, Goto,
        CancellationPoint
    <3>2. UNCHANGED <<ui, visits>>
      BY <2>5 DEF Thread, Die, GetLabels, Read, Insert, Commit, PrintResult, Lock, Unlock, Sleep, screen
    <3>3. \/ tunc[visits] = "start" /\ tunc'[visits] = "read"
          \/ tunc[visits] = "insert" /\ tunc'[visits] \in {"commit", "print"}
          \/ tunc[visits] = "label" /\ tunc'[visits] = "sleep"
          \/ tunc[visits] \in CancellationPoint /\ tunc'[visits] = "dead"
      BY <2>1, <2>2, <2>5, <3>1 DEF Thread, Die, GetLabels, Read, Insert, Commit, PrintResult, Lock, Unlock,
        Sleep, Pass, Goto
    <3>4. QED
      BY <1>1, <3>2, <3>3 DEF Left, Stuck, CancellationPoint
  <2>6. ~ (UiLock \/ UiUnlock \/ ClickDisplay \/ ClickReturn \/ ClickQuery)
    BY <1>1 DEF UiLock, UiUnlock, ClickDisplay, ClickReturn, ClickQuery
  <2>7. QED
    BY <1>1, <2>4, <2>5, <2>6 DEF Next, Ui
<1>2. IInv /\ [Next]_vars =>
        [ui = "join" /\ ~ Stuck =>
           \/ ui' = "handle" /\ page' = "main"
           \/ ui' = "join" /\ ~ Stuck' /\ Left' < Left]_vars
  BY <1>1
<1>3. QED
  BY Invariance, <1>2, PTL DEF Spec, ReturnGoesOn

\* Once a return finds the thread at pthread_mutex_lock, nothing in the process
\* moves again: the main thread, the thread and the threads of earlier visits.
StuckIsForEver == [][~ Stuck]_vars

THEOREM StuckForEver == Spec => StuckIsForEver
<1>1. ASSUME IInv, Next PROVE ~ Stuck
  <2>1. SUFFICES ASSUME Stuck PROVE FALSE
    OBVIOUS
  <2>2. visits \in Visit /\ ui = "join" /\ tunc[visits] = "lock" /\ mutex = Main
    BY <1>1, <2>1 DEF IInv, Visits, Stuck, MutexNotOrphaned
  <2>3. \A v \in Visit : v # visits => tunc[v] \in {"none", "joined"}
    <3>1. visits \in Nat /\ \A v \in Visit : v \in Nat
      BY <2>2, DisplayAssumption DEF Visit
    <3>2. \A v \in Visit : v # visits => v < visits \/ v > visits
      BY <3>1
    <3>3. QED
      BY <1>1, <3>2 DEF IInv, Visits
  <2>4. ~ Ui
    BY <2>2 DEF Ui, UiLock, UiUnlock, ClickDisplay, ClickReturn, Join, ClickQuery
  <2>5. mutex # Free
    BY <2>2, DisplayAssumption DEF Main, Free
  <2>6. ASSUME NEW v \in Visit, Thread(v) \/ Die(v) PROVE FALSE
    BY <2>2, <2>3, <2>5, <2>6 DEF Thread, Die, GetLabels, Read, Insert, Commit, PrintResult, Lock, Unlock, Sleep,
      Pass, Goto, CancellationPoint
  <2>7. QED
    BY <1>1, <2>4, <2>6 DEF Next
<1>2. IInv /\ [Next]_vars => [~ Stuck]_vars
  BY <1>1
<1>3. QED
  BY Invariance, <1>2, PTL DEF Spec, StuckIsForEver
=============================================================================
