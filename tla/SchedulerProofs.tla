-------------------------- MODULE SchedulerProofs ---------------------------
(***************************************************************************)
(* Proofs about Scheduler, for any number of threads and calls: one thread *)
(* at a time runs a task, it is linked in one queue at most, and nothing   *)
(* uses it once it was released.                                           *)
(*                                                                         *)
(* The inductive invariant IInv says who may do what with the task:        *)
(*   Tokens    whoever set TASK_QUEUED is the only one to link the task,   *)
(*             and whoever unlinked it is the only one to acquire it;      *)
(*   Runner    TASK_RUNNING is a lock, and the thread that runs the task   *)
(*             has consumed TASK_QUEUED;                                   *)
(*   Labelled  what a thread knows of the task at each of its labels;      *)
(*   Ends      what is left of a task that is being destroyed.             *)
(***************************************************************************)
EXTENDS Scheduler, FiniteSetTheorems, TLAPS

Step(p) == Inside(p) \/ Loop(p) \/ Call(p)

Flags == {"RUNNING", "QUEUED", "KILLED"} \cup Woken
Tids == -1 - NbThread .. NbThread - 1
Dates == 0 .. MaxNow + 2
Runs == {"free", "handler", "ran", "queued"}
Labels == {"idle", "wake", "rewake", "wake_cas", "insert", "tq", "wq_insert",
           "drop", "drop_cas", "acquire", "hand_over", "sched", "sched_set",
           "kill_insert"} \cup Runs
Returns == {"idle", "drop", "drop_cas", "queued"}
Places == {"rqueue", "rqueue_shared", "shared_list", "list"}
Local == [st : SUBSET Flags, tid : Tids, f : SUBSET Woken, when : Dates]

PlacesOK ==
  /\ pc \in [Threads -> Labels] /\ ret \in [Threads -> Returns]
  /\ call \in [Threads -> BOOLEAN]

LocalsOK == loc \in [Threads -> Local]

TaskOK ==
  /\ state \subseteq Flags /\ tid \in Tids
  /\ place \subseteq Places \X Threads
  /\ wq = <<>> \/ wq \in Threads \X (Dates \ {0})
  /\ expire \in Dates /\ dead \in {"no", "own", "other"}
  /\ process \in BOOLEAN /\ freed \in BOOLEAN
  /\ now \in 1 .. MaxNow /\ calls \in 0 .. MaxCalls

Types == PlacesOK /\ LocalsOK /\ TaskOK

(* Threads that have unlinked the task or are about to link it. *)
Token(p) == pc[p] \in {"insert", "kill_insert", "acquire"}

(* There is one link or one such thread for TASK_QUEUED, and the task is   *)
(* linked to its owner, unless it was killed while nobody owned it.        *)
Tokens ==
  /\ \A x, y \in place : x = y
  /\ \A p, q \in Threads : Token(p) /\ Token(q) => p = q
  /\ \A p \in Threads : Token(p) => place = {} /\ "QUEUED" \in state
  /\ place # {} => "QUEUED" \in state
  /\ \A x \in place : x[2] = Owner(tid) \/ (tid = -1 /\ "KILLED" \in state)

(* Threads that run the task after they took it from a list. *)
Consumed(p) ==
  pc[p] \in Runs \/ (pc[p] \in {"tq", "wq_insert"} /\ ret[p] = "queued")

Runner ==
  /\ \A p, q \in Threads : Holds(p) /\ Holds(q) => p = q
  /\ \A p \in Threads : Holds(p) /\ ~freed => "RUNNING" \in state
  /\ \A p \in Threads : Consumed(p) => "QUEUED" \notin state

Mine(p) == Owner(tid) = p

At(p) ==
  /\ pc[p] \in {"wake", "hand_over", "insert"} => ret[p] = "idle"
  /\ pc[p] = "wake_cas" => ret[p] = "idle" /\ loc[p].st \cap Busy = {}
  /\ pc[p] = "rewake" => ret[p] = "drop"
  /\ pc[p] \in {"wake", "wake_cas"} => call[p] \/ Mine(p)
  /\ pc[p] = "insert" => tid # -1
  /\ pc[p] = "tq" => ((call[p] /\ ret[p] = "drop") \/ Mine(p)) /\ expire # ETERNITY
  /\ pc[p] = "wq_insert" => Mine(p) /\ expire # ETERNITY
  /\ pc[p] \in {"handler", "ran", "queued"} => Mine(p)
  /\ pc[p] \in {"acquire", "free"} => Mine(p) \/ (tid = -1 /\ "KILLED" \in state)
  /\ pc[p] = "free" => ~Alive
  /\ pc[p] = "kill_insert" => "KILLED" \in state
  /\ pc[p] \in {"drop", "drop_cas", "rewake"} => tid # -1
  /\ pc[p] = "hand_over" => Mine(p) /\ tid < 0 /\ ~InWq
  /\ pc[p] = "sched" => call[p] /\ (tid >= 0 => tid = p) /\ loc[p].when # 0
  /\ pc[p] = "sched_set" => /\ call[p] /\ loc[p].when # 0
                            /\ ret[p] = "idle" => tid = p
                            /\ ret[p] \in {"idle", "drop"}

Labelled == \A p \in Threads : At(p)

(* Only a dead task is killed or released, nobody calls on a dead task,    *)
(* and a timer is in the wait queue of the task's owner.                   *)
Ends ==
  /\ "KILLED" \in state \/ ~process \/ freed => ~Alive
  /\ ~Alive => \A p \in Threads : ~call[p]
  /\ InWq => Owner(tid) = wq[1]
  /\ FreedIsUnused

IInv == Types /\ Tokens /\ Runner /\ Labelled /\ Ends
-----------------------------------------------------------------------------
(* What a local variable of a thread may be. *)
LEMMA LocalsTyped ==
  ASSUME LocalsOK, NEW p \in Threads
  PROVE  /\ loc[p].st \in SUBSET Flags /\ loc[p].f \in SUBSET Woken
         /\ loc[p].tid \in Tids /\ loc[p].when \in Dates
BY DEF LocalsOK, Local

(* A local variable that is given a value of its type keeps it. *)
LEMMA LocalsSet ==
  ASSUME LocalsOK, NEW p \in Threads
  PROVE  /\ \A v \in SUBSET Flags : Set(p, "st", v) \in [Threads -> Local]
         /\ \A v \in SUBSET Woken : Set(p, "f", v) \in [Threads -> Local]
         /\ \A v \in SUBSET Flags, w \in Tids : [loc EXCEPT ![p].st = v, ![p].tid = w] \in [Threads -> Local]
         /\ \A v \in Dates, w \in SUBSET Woken : [loc EXCEPT ![p].when = v, ![p].f = w] \in [Threads -> Local]
BY Zenon DEF LocalsOK, Local, Set

(* A local variable that was set is read back. *)
LEMMA LocalsRead ==
  ASSUME LocalsOK, NEW p \in Threads, NEW v \in SUBSET Flags
  PROVE  Set(p, "st", v)[p].st = v
BY DEF LocalsOK, Local, Set

(* __task_get_new_tid_field(): a thread takes a task that has no owner. *)
LEMMA TidsTyped ==
  ASSUME NEW p \in Threads, NEW id \in Tids
  PROVE  /\ NewTid(p, id) \in Tids /\ NewTid(p, id) # -1
         /\ Owner(id) \in Threads \cup {-1}
         /\ Owner(id) = -1 <=> id = -1
         /\ NewTid(p, id) = IF id = -1 THEN -2 - p ELSE id
         /\ Owner(-2 - p) = p /\ -2 - p \in Tids /\ -1 \in Tids /\ p \in Int
BY SchedulerAssumption DEF NewTid, Tids, Threads, Owner


(* A step leaves every thread at a label of the model.                     *)
LEMMA PlacesKept ==
  ASSUME PlacesOK, NEW a \in Threads, Step(a)
  PROVE  PlacesOK'
<1> USE DEF PlacesOK, Labels, Returns, Runs, Goto, GotoRet
<1>1. CASE Wake(a)
  BY <1>1 DEF Wake, WakeTest
<1>2. CASE Rewake(a)
  BY <1>2 DEF Rewake, WakeTest
<1>3. CASE WakeCas(a)
  BY <1>3, Zenon DEF WakeCas
<1>4. CASE Insert(a)
  BY <1>4 DEF Insert
<1>5. CASE TakeOwnership(a)
  BY <1>5, Zenon DEF TakeOwnership
<1>6. CASE WqInsert(a)
  BY <1>6 DEF WqInsert
<1>7. CASE DropLoad(a)
  BY <1>7 DEF DropLoad
<1>8. CASE DropCas(a)
  BY <1>8, Zenon DEF DropCas
<1>9. CASE Acquire(a)
  BY <1>9 DEF Acquire
<1>10. CASE FreeTask(a)
  BY <1>10 DEF FreeTask
<1>11. CASE Queued(a)
  BY <1>11 DEF Queued
<1>12. CASE Handler(a)
  BY <1>12 DEF Handler
<1>13. CASE Ran(a)
  BY <1>13 DEF Ran
<1>14. CASE HandOver(a)
  BY <1>14 DEF HandOver
<1>15. CASE SchedLock(a)
  BY <1>15 DEF SchedLock
<1>16. CASE SchedSet(a)
  BY <1>16 DEF SchedSet
<1>17. CASE KillInsert(a)
  BY <1>17 DEF KillInsert
<1>18. CASE Pick(a)
  BY <1>18 DEF Pick
<1>19. CASE Unlist(a)
  BY <1>19 DEF Unlist
<1>20. CASE Expire(a)
  BY <1>20 DEF Expire
<1>21. CASE task_wakeup(a)
  BY <1>21 DEF task_wakeup, MayCall
<1>22. CASE task_schedule(a)
  BY <1>22 DEF task_schedule, MayCall
<1>23. CASE task_destroy(a)
  BY <1>23 DEF task_destroy, MayCall
<1>24. CASE HandlerWakesItself(a)
  BY <1>24 DEF HandlerWakesItself
<1>25. CASE HandlerDestroys(a)
  BY <1>25 DEF HandlerDestroys
<1> QED
  BY <1>1, <1>2, <1>3, <1>4, <1>5, <1>6, <1>7, <1>8, <1>9, <1>10, <1>11,
     <1>12, <1>13, <1>14, <1>15, <1>16, <1>17, <1>18, <1>19, <1>20, <1>21,
     <1>22, <1>23, <1>24, <1>25, Zenon
  DEF Step, Inside, Loop, Call

(* A step of a thread leaves the place and the locals of the others alone. *)
LEMMA OthersKept ==
  ASSUME PlacesOK, LocalsOK, NEW a \in Threads, Step(a),
         NEW q \in Threads \ {a}
  PROVE  /\ pc'[q] = pc[q] /\ ret'[q] = ret[q]
         /\ loc'[q] = loc[q] /\ call'[q] = call[q]
<1> USE DEF PlacesOK, LocalsOK
<1>1. CASE Wake(a)
  BY <1>1 DEF Wake, WakeTest, Goto, GotoRet, Set
<1>2. CASE Rewake(a)
  BY <1>2 DEF Rewake, WakeTest, Goto, GotoRet, Set
<1>3. CASE WakeCas(a)
  BY <1>3 DEF WakeCas, Goto, GotoRet, Set
<1>4. CASE Insert(a)
  BY <1>4 DEF Insert, Goto, GotoRet, Set
<1>5. CASE TakeOwnership(a)
  BY <1>5 DEF TakeOwnership, Goto, GotoRet, Set
<1>6. CASE WqInsert(a)
  BY <1>6 DEF WqInsert, Goto, GotoRet, Set
<1>7. CASE DropLoad(a)
  BY <1>7 DEF DropLoad, Goto, GotoRet, Set
<1>8. CASE DropCas(a)
  BY <1>8 DEF DropCas, Goto, GotoRet, Set
<1>9. CASE Acquire(a)
  BY <1>9 DEF Acquire, Goto, GotoRet, Set
<1>10. CASE FreeTask(a)
  BY <1>10 DEF FreeTask, Goto, GotoRet, Set
<1>11. CASE Queued(a)
  BY <1>11 DEF Queued, Goto, GotoRet, Set
<1>12. CASE Handler(a)
  BY <1>12 DEF Handler, Goto, GotoRet, Set
<1>13. CASE Ran(a)
  BY <1>13 DEF Ran, Goto, GotoRet, Set
<1>14. CASE HandOver(a)
  BY <1>14 DEF HandOver, Goto, GotoRet, Set
<1>15. CASE SchedLock(a)
  BY <1>15 DEF SchedLock, Goto, GotoRet, Set
<1>16. CASE SchedSet(a)
  BY <1>16 DEF SchedSet, Goto, GotoRet, Set
<1>17. CASE KillInsert(a)
  BY <1>17 DEF KillInsert, Goto, GotoRet, Set
<1>18. CASE Pick(a)
  BY <1>18 DEF Pick, Goto, GotoRet, Set
<1>19. CASE Unlist(a)
  BY <1>19 DEF Unlist, Goto, GotoRet, Set
<1>20. CASE Expire(a)
  BY <1>20 DEF Expire, Goto, GotoRet, Set
<1>21. CASE task_wakeup(a)
  BY <1>21 DEF task_wakeup, MayCall, Goto, GotoRet, Set
<1>22. CASE task_schedule(a)
  BY <1>22 DEF task_schedule, MayCall, Goto, GotoRet, Set
<1>23. CASE task_destroy(a)
  BY <1>23 DEF task_destroy, MayCall, Goto, GotoRet, Set
<1>24. CASE HandlerWakesItself(a)
  BY <1>24 DEF HandlerWakesItself, Goto, GotoRet, Set
<1>25. CASE HandlerDestroys(a)
  BY <1>25 DEF HandlerDestroys, Goto, GotoRet, Set
<1> QED
  BY <1>1, <1>2, <1>3, <1>4, <1>5, <1>6, <1>7, <1>8, <1>9, <1>10, <1>11,
     <1>12, <1>13, <1>14, <1>15, <1>16, <1>17, <1>18, <1>19, <1>20, <1>21,
     <1>22, <1>23, <1>24, <1>25, Zenon
  DEF Step, Inside, Loop, Call

(* A step leaves the locals of every thread in their types.                *)
LEMMA LocalsKept ==
  ASSUME TaskOK, LocalsOK, NEW a \in Threads, Step(a)
  PROVE  LocalsOK'
<1> USE DEF LocalsOK
<1>a. /\ state \in SUBSET Flags /\ tid \in Tids /\ state \cup loc[a].f \in SUBSET Flags
      /\ state \cup {} \in SUBSET Flags
  <2>1. state \subseteq Flags /\ tid \in Tids
    BY DEF TaskOK
  <2>2. loc[a].f \subseteq Woken
    BY LocalsTyped
  <2> QED
    BY <2>1, <2>2, Zenon DEF Flags
<1>b. {} \in SUBSET Woken /\ {"OTHER"} \in SUBSET Woken /\ {"TIMER"} \in SUBSET Woken
  BY DEF Woken
<1>c. \A w \in 1 .. 2 : now + w \in Dates
  BY SchedulerAssumption DEF TaskOK, Dates
<1>1. CASE Wake(a)
  BY <1>1, <1>a, LocalsSet, Zenon DEF Wake, WakeTest
<1>2. CASE Rewake(a)
  BY <1>2, <1>a, LocalsSet, Zenon DEF Rewake, WakeTest
<1>3. CASE WakeCas(a)
  <2>1. loc' = loc \/ loc' = Set(a, "st", state)
    BY <1>3 DEF WakeCas
  <2>2. Set(a, "st", state) \in [Threads -> Local]
    BY <1>a, LocalsSet, Zenon
  <2> QED
    BY <2>1, <2>2
<1>4. CASE Insert(a)
  BY <1>4 DEF Insert, Queues
<1>5. CASE TakeOwnership(a)
  BY <1>5 DEF TakeOwnership, Queues
<1>6. CASE WqInsert(a)
  BY <1>6 DEF WqInsert, Queues
<1>7. CASE DropLoad(a)
  BY <1>7, <1>a, LocalsSet, Zenon DEF DropLoad
<1>8. CASE DropCas(a)
  BY <1>8 DEF DropCas, Queues
<1>9. CASE Acquire(a)
  BY <1>9, <1>a, LocalsSet, Zenon DEF Acquire
<1>10. CASE FreeTask(a)
  BY <1>10 DEF FreeTask, Queues
<1>11. CASE Queued(a)
  BY <1>11, <1>b, LocalsSet, Zenon DEF Queued
<1>12. CASE Handler(a)
  BY <1>12 DEF Handler, Queues
<1>13. CASE Ran(a)
  BY <1>13, <1>b, LocalsSet, Zenon DEF Ran
<1>14. CASE HandOver(a)
  BY <1>14 DEF HandOver, Queues
<1>15. CASE SchedLock(a)
  <2>1. loc' = loc \/ loc' = Set(a, "f", {"OTHER"})
    BY <1>15 DEF SchedLock
  <2>2. Set(a, "f", {"OTHER"}) \in [Threads -> Local]
    BY <1>b, LocalsSet, Zenon
  <2> QED
    BY <2>1, <2>2
<1>16. CASE SchedSet(a)
  BY <1>16 DEF SchedSet, Queues
<1>17. CASE KillInsert(a)
  BY <1>17 DEF KillInsert, Queues
<1>18. CASE Pick(a)
  BY <1>18 DEF Pick, Queues
<1>19. CASE Unlist(a)
  BY <1>19 DEF Unlist, Queues
<1>20. CASE Expire(a)
  <2>1. loc' = Set(a, "f", IF Due THEN {"TIMER"} ELSE {})
    BY <1>20 DEF Expire
  <2> QED
    BY <2>1, <1>b, LocalsSet, Zenon
<1>21. CASE task_wakeup(a)
  BY <1>21, <1>b, LocalsSet, Zenon DEF task_wakeup
<1>22. CASE task_schedule(a)
  <2>1. PICK w \in 1 .. 2 : loc' = [loc EXCEPT ![a].when = now + w, ![a].f = {}]
    BY <1>22, Zenon DEF task_schedule
  <2> QED
    BY <2>1, <1>b, <1>c, LocalsSet, Zenon
<1>23. CASE task_destroy(a)
  BY <1>23 DEF task_destroy, MayCall, Queues
<1>24. CASE HandlerWakesItself(a)
  BY <1>24 DEF HandlerWakesItself, Queues
<1>25. CASE HandlerDestroys(a)
  BY <1>25 DEF HandlerDestroys, Queues
<1> QED
  BY <1>1, <1>2, <1>3, <1>4, <1>5, <1>6, <1>7, <1>8, <1>9, <1>10, <1>11,
     <1>12, <1>13, <1>14, <1>15, <1>16, <1>17, <1>18, <1>19, <1>20, <1>21,
     <1>22, <1>23, <1>24, <1>25, Zenon
  DEF Step, Inside, Loop, Call

(* A step leaves the fields of the task in their types. A timer that is    *)
(* put in a wait queue is set.                                             *)
LEMMA TaskKept ==
  ASSUME TaskOK, LocalsOK, NEW a \in Threads, At(a), Step(a)
  PROVE  TaskOK'
<1>a. /\ state \subseteq Flags /\ tid \in Tids /\ place \subseteq Places \X Threads
      /\ expire \in Dates /\ process \in BOOLEAN /\ freed \in BOOLEAN
      /\ now \in 1 .. MaxNow /\ calls \in 0 .. MaxCalls
  BY DEF TaskOK
<1>b. pc[a] = "insert" => Owner(tid) \in Threads
  BY <1>a, TidsTyped DEF At
<1>c. \A f \in {"RUNNING", "QUEUED", "KILLED", "OTHER", "TIMER", "WQ"} : f \in Flags
  BY DEF Flags, Woken
<1>d. Woken \subseteq Flags
  BY DEF Flags
<1>1. CASE Wake(a)
  <2>1. state' \subseteq Flags
    BY <1>1, <1>a, <1>c, <1>d, LocalsTyped, Zenon DEF Wake, WakeTest
  <2>2. UNCHANGED <<tid, place, wq, expire, dead, process, freed, now, calls>>
    BY <1>1 DEF Wake, WakeTest, Queues, Outside
  <2> QED
    BY <2>1, <2>2 DEF TaskOK
<1>2. CASE Rewake(a)
  <2>1. state' \subseteq Flags
    BY <1>2, <1>a, <1>c, Zenon DEF Rewake, WakeTest
  <2>2. UNCHANGED <<tid, place, wq, expire, dead, process, freed, now, calls>>
    BY <1>2 DEF Rewake, WakeTest, Queues, Outside
  <2> QED
    BY <2>1, <2>2 DEF TaskOK
<1>3. CASE WakeCas(a)
  <2>1. state' \subseteq Flags
    BY <1>3, <1>a, <1>c, Zenon DEF WakeCas
  <2>2. tid' \in Tids
    BY <1>3, <1>a, TidsTyped DEF WakeCas
  <2>3. UNCHANGED <<place, wq, expire, dead, process, freed, now, calls>>
    BY <1>3 DEF WakeCas, Queues, Outside
  <2> QED
    BY <2>1, <2>2, <2>3 DEF TaskOK
<1>4. CASE Insert(a)
  <2>1. place' \subseteq Places \X Threads
    BY <1>4, <1>a, <1>b DEF Insert, Places
  <2>2. UNCHANGED <<state, tid, wq, expire, dead, process, freed, now, calls>>
    BY <1>4 DEF Insert, Queues, Outside
  <2> QED
    BY <2>1, <2>2 DEF TaskOK
<1>5. CASE TakeOwnership(a)
  <2>1. state' \subseteq Flags
    BY <1>5, <1>a, <1>c, Zenon DEF TakeOwnership
  <2>2. tid' \in Tids
    BY <1>5, <1>a, TidsTyped DEF TakeOwnership
  <2>3. UNCHANGED <<place, wq, expire, dead, process, freed, now, calls>>
    BY <1>5 DEF TakeOwnership, Queues, Outside
  <2> QED
    BY <2>1, <2>2, <2>3 DEF TaskOK
<1>6. CASE WqInsert(a)
  <2>1. wq' \in Threads \X (Dates \ {0})
    BY <1>6, <1>a DEF WqInsert, At, ETERNITY
  <2>2. UNCHANGED <<state, tid, place, expire, dead, process, freed, now, calls>>
    BY <1>6 DEF WqInsert, Outside
  <2> QED
    BY <2>1, <2>2 DEF TaskOK
<1>7. CASE DropLoad(a)
  BY <1>7 DEF DropLoad, TaskOK, Queues, Outside
<1>8. CASE DropCas(a)
  <2>1. state' \subseteq Flags
    BY <1>8, <1>a, <1>c, <1>d, LocalsTyped, Zenon DEF DropCas
  <2>2. tid' \in Tids
    BY <1>8, <1>a, TidsTyped, Zenon DEF DropCas
  <2>3. UNCHANGED <<place, wq, expire, dead, process, freed, now, calls>>
    BY <1>8 DEF DropCas, Queues, Outside
  <2> QED
    BY <2>1, <2>2, <2>3 DEF TaskOK
<1>9. CASE Acquire(a)
  <2>1. state' \subseteq Flags
    BY <1>9, <1>a, <1>c, Zenon DEF Acquire
  <2>2. UNCHANGED <<tid, place, wq, expire, dead, process, freed, now, calls>>
    BY <1>9 DEF Acquire, Queues, Outside
  <2> QED
    BY <2>1, <2>2 DEF TaskOK
<1>10. CASE FreeTask(a)
  <2>1. wq' = <<>>
    BY <1>10 DEF FreeTask
  <2>2. freed' \in BOOLEAN
    BY <1>10, <1>a DEF FreeTask
  <2>3. UNCHANGED <<state, tid, place, expire, dead, process, now, calls>>
    BY <1>10 DEF FreeTask, Outside
  <2> QED
    BY <2>1, <2>2, <2>3 DEF TaskOK
<1>11. CASE Queued(a)
  BY <1>11 DEF Queued, TaskOK, Queues, Outside
<1>12. CASE Handler(a)
  <2>1. expire' \in Dates
    BY <1>12, <1>a, SchedulerAssumption DEF Handler, Dates, ETERNITY
  <2>2. UNCHANGED <<state, tid, place, wq, dead, process, freed, now, calls>>
    BY <1>12 DEF Handler, Outside
  <2> QED
    BY <2>1, <2>2 DEF TaskOK
<1>13. CASE Ran(a)
  BY <1>13 DEF Ran, TaskOK, Queues, Outside
<1>14. CASE HandOver(a)
  <2>1. state' \subseteq Flags
    BY <1>14, <1>a, <1>c, Zenon DEF HandOver
  <2>2. tid' \in Tids
    BY <1>14, <1>a, TidsTyped DEF HandOver
  <2>3. UNCHANGED <<place, wq, expire, dead, process, freed, now, calls>>
    BY <1>14 DEF HandOver, Queues, Outside
  <2> QED
    BY <2>1, <2>2, <2>3 DEF TaskOK
<1>15. CASE SchedLock(a)
  <2>1. state' \subseteq Flags
    BY <1>15, <1>a, <1>c, Zenon DEF SchedLock
  <2>2. UNCHANGED <<tid, place, wq, expire, dead, process, freed, now, calls>>
    BY <1>15, Zenon DEF SchedLock, Queues, Outside
  <2> QED
    BY <2>1, <2>2 DEF TaskOK
<1>16. CASE SchedSet(a)
  <2>1. expire' \in Dates
    BY <1>16, <1>a, LocalsTyped, Zenon DEF SchedSet
  <2>2. UNCHANGED <<state, tid, place, wq, dead, process, freed, now, calls>>
    BY <1>16, Zenon DEF SchedSet, Outside
  <2> QED
    BY <2>1, <2>2 DEF TaskOK
<1>17. CASE KillInsert(a)
  <2>1. place' \subseteq Places \X Threads
    BY <1>17, <1>a, TidsTyped DEF KillInsert, Places
  <2>2. UNCHANGED <<state, tid, wq, expire, dead, process, freed, now, calls>>
    BY <1>17 DEF KillInsert, Queues, Outside
  <2> QED
    BY <2>1, <2>2 DEF TaskOK
<1>18. CASE Pick(a)
  <2>1. place' \subseteq Places \X Threads
    BY <1>18, <1>a DEF Pick, Places
  <2>2. UNCHANGED <<state, tid, wq, expire, dead, process, freed, now, calls>>
    BY <1>18 DEF Pick, Queues, Outside
  <2> QED
    BY <2>1, <2>2 DEF TaskOK
<1>19. CASE Unlist(a)
  <2>1. place' \subseteq Places \X Threads
    BY <1>19, <1>a DEF Unlist, Places
  <2>2. UNCHANGED <<state, tid, wq, expire, dead, process, freed, now, calls>>
    BY <1>19, Zenon DEF Unlist, Queues, Outside
  <2> QED
    BY <2>1, <2>2 DEF TaskOK
<1>20. CASE Expire(a)
  <2>1. wq' = <<>>
    BY <1>20 DEF Expire
  <2>2. freed' \in BOOLEAN
    BY <1>20, <1>a DEF Expire
  <2>3. UNCHANGED <<state, tid, place, expire, dead, process, now, calls>>
    BY <1>20 DEF Expire, Outside
  <2> QED
    BY <2>1, <2>2, <2>3 DEF TaskOK
<1>21. CASE task_wakeup(a)
  <2>1. calls' \in 0 .. MaxCalls
    BY <1>21, <1>a, SchedulerAssumption DEF task_wakeup, MayCall
  <2>2. UNCHANGED <<state, tid, place, wq, expire, dead, process, freed, now>>
    BY <1>21 DEF task_wakeup, MayCall, Queues
  <2> QED
    BY <2>1, <2>2 DEF TaskOK
<1>22. CASE task_schedule(a)
  <2>1. calls' \in 0 .. MaxCalls
    BY <1>22, <1>a, SchedulerAssumption DEF task_schedule, MayCall
  <2>2. UNCHANGED <<state, tid, place, wq, expire, dead, process, freed, now>>
    BY <1>22 DEF task_schedule, MayCall, Queues
  <2> QED
    BY <2>1, <2>2 DEF TaskOK
<1>23. CASE task_destroy(a)
  <2>1. state' \subseteq Flags
    BY <1>23, <1>a, <1>c, Zenon DEF task_destroy, MayCall
  <2>2. dead' \in {"no", "own", "other"}
    BY <1>23 DEF task_destroy, MayCall, Doom
  <2>3. process' \in BOOLEAN /\ freed' \in BOOLEAN
    BY <1>23, <1>a, Zenon DEF task_destroy, MayCall
  <2>4. wq' = wq \/ wq' = <<>>
    BY <1>23 DEF task_destroy, MayCall
  <2>5. calls' \in 0 .. MaxCalls
    BY <1>23, <1>a, SchedulerAssumption DEF task_destroy, MayCall
  <2>6. UNCHANGED <<tid, place, expire, now>>
    BY <1>23 DEF task_destroy, MayCall
  <2> QED
    BY <1>a, <2>1, <2>2, <2>3, <2>4, <2>5, <2>6 DEF TaskOK
<1>24. CASE HandlerWakesItself(a)
  <2>1. state' \subseteq Flags /\ calls' \in 0 .. MaxCalls
    BY <1>24, <1>a, SchedulerAssumption DEF HandlerWakesItself, Flags, Woken
  <2>2. UNCHANGED <<tid, place, wq, expire, dead, process, freed, now>>
    BY <1>24, Zenon DEF HandlerWakesItself, Queues
  <2> QED
    BY <2>1, <2>2 DEF TaskOK
<1>25. CASE HandlerDestroys(a)
  <2>1. state' \subseteq Flags
    BY <1>25, <1>a, <1>c, Zenon DEF HandlerDestroys
  <2>2. dead' \in {"no", "own", "other"}
    BY <1>25 DEF HandlerDestroys, Doom
  <2>3. process' \in BOOLEAN /\ freed' \in BOOLEAN
    BY <1>25, <1>a, Zenon DEF HandlerDestroys
  <2>4. wq' = wq \/ wq' = <<>>
    BY <1>25 DEF HandlerDestroys
  <2>5. calls' \in 0 .. MaxCalls
    BY <1>25, <1>a, SchedulerAssumption, Zenon DEF HandlerDestroys
  <2>6. UNCHANGED <<tid, place, expire, now>>
    BY <1>25 DEF HandlerDestroys
  <2> QED
    BY <1>a, <2>1, <2>2, <2>3, <2>4, <2>5, <2>6 DEF TaskOK
<1> QED
  BY <1>1, <1>2, <1>3, <1>4, <1>5, <1>6, <1>7, <1>8, <1>9, <1>10, <1>11,
     <1>12, <1>13, <1>14, <1>15, <1>16, <1>17, <1>18, <1>19, <1>20, <1>21,
     <1>22, <1>23, <1>24, <1>25, Zenon
  DEF Step, Inside, Loop, Call

(* What the invariant says of the thread that makes a step.                *)
LEMMA Here ==
  ASSUME IInv, NEW a \in Threads
  PROVE  /\ At(a) /\ tid \in Tids /\ tid \in Int /\ a \in Int /\ a >= 0
         /\ Holds(a) => "RUNNING" \in state /\ ~freed
         /\ call[a] => Alive /\ "KILLED" \notin state
         /\ Mine(a) => tid # -1
         /\ InWq => tid # -1
         /\ Consumed(a) => "QUEUED" \notin state
<1>1. tid \in Tids /\ tid \in Int /\ a \in Int /\ a >= 0 /\ Owner(-1) = -1 /\ -1 \notin Threads
  BY SchedulerAssumption DEF IInv, Types, TaskOK, Tids, Threads, Owner
<1>2. At(a) /\ (Consumed(a) => "QUEUED" \notin state)
  BY DEF IInv, Labelled, Runner
<1>3. Holds(a) => "RUNNING" \in state /\ ~freed
  <2>1. Holds(a) => pc[a] # "idle"
    BY DEF Holds
  <2> QED
    BY <2>1 DEF IInv, Runner, Ends, FreedIsUnused, Quiet
<1>4. call[a] => Alive /\ "KILLED" \notin state
  BY DEF IInv, Ends
<1>5. InWq => tid # -1
  BY <1>1 DEF IInv, Ends, InWq, Types, TaskOK
<1>6. Mine(a) => tid # -1
  BY <1>1 DEF Mine
<1> QED
  BY <1>1, <1>2, <1>3, <1>4, <1>5, <1>6, Zenon

(* The new place of a thread.                                              *)
LEMMA There ==
  ASSUME PlacesOK, NEW a \in Threads
  PROVE  /\ \A l : [pc EXCEPT ![a] = l][a] = l
         /\ \A l : [ret EXCEPT ![a] = l][a] = l
         /\ \A l : [call EXCEPT ![a] = l][a] = l
         /\ pc[a] \in Labels /\ ret[a] \in Returns
BY DEF PlacesOK

(* How a step may change the fields of the task: a shared task is given to *)
(* the thread that asks for it first, and is released or handed over by    *)
(* its owner, never while it is queued; only the handler clears its timer; *)
(* only its owner puts it in the wait queue.                               *)
LEMMA FieldsMove ==
  ASSUME IInv, NEW a \in Threads, Step(a)
  PROVE  /\ tid' # tid =>
              /\ tid < 0 /\ tid' < 0 /\ ~InWq
              /\ \/ tid = -1 /\ tid' = -2 - a /\ "KILLED" \notin state
                 \/ Mine(a) /\ "QUEUED" \notin state
              /\ tid' = -1 => Holds(a)
         /\ expire' # 0 \/ expire' = expire \/ pc[a] = "handler"
         /\ ~Alive => ~Alive'
         /\ \/ wq' = wq \/ wq' = <<>>
            \/ wq' = <<a, expire>> /\ Mine(a) /\ tid' = tid
<1>1. CASE Wake(a)
  BY <1>1 DEF Wake, WakeTest, Queues, Outside, Alive
<1>2. CASE Rewake(a)
  BY <1>2 DEF Rewake, WakeTest, Queues, Outside, Alive
<1>3. CASE WakeCas(a)
  <2>1. tid' # tid => tid = -1 /\ tid' = -2 - a
    BY <1>3, Here, TidsTyped, Zenon DEF WakeCas
  <2>2. tid = -1 => call[a]
    BY <1>3, Here, Zenon DEF WakeCas, At
  <2>3. UNCHANGED <<expire, dead, wq>>
    BY <1>3 DEF WakeCas, Queues, Outside
  <2> QED
    BY <2>1, <2>2, <2>3, Here DEF Alive
<1>4. CASE Insert(a)
  BY <1>4 DEF Insert, Queues, Outside, Alive
<1>5. CASE TakeOwnership(a)
  <2>1. tid' # tid => tid = -1 /\ tid' = -2 - a /\ "KILLED" \notin state
    BY <1>5, Here, TidsTyped DEF TakeOwnership
  <2>2. UNCHANGED <<expire, dead, wq>>
    BY <1>5 DEF TakeOwnership, Queues, Outside
  <2> QED
    BY <2>1, <2>2, Here DEF Alive
<1>6. CASE WqInsert(a)
  <2>1. Mine(a)
    BY <1>6, Here DEF WqInsert, At
  <2> QED
    BY <1>6, <2>1, Zenon DEF WqInsert, Outside, Alive
<1>7. CASE DropLoad(a)
  BY <1>7 DEF DropLoad, Queues, Outside, Alive
<1>8. CASE DropCas(a)
  <2>1. tid' # tid => tid < 0 /\ tid' = -1 /\ tid' < 0 /\ ~InWq /\ Mine(a)
    BY <1>8, Here DEF DropCas, Mine
  <2>2. tid' # tid => "QUEUED" \notin state
    BY <1>8, Zenon DEF DropCas, Woken
  <2>3. Holds(a)
    BY <1>8, Zenon DEF DropCas, Holds
  <2>4. UNCHANGED <<expire, dead, wq>>
    BY <1>8 DEF DropCas, Queues, Outside
  <2> QED
    BY <2>1, <2>2, <2>3, <2>4, Zenon DEF Alive
<1>9. CASE Acquire(a)
  BY <1>9 DEF Acquire, Queues, Outside, Alive
<1>10. CASE FreeTask(a)
  BY <1>10, Zenon DEF FreeTask, Queues, Outside, Alive
<1>11. CASE Queued(a)
  BY <1>11 DEF Queued, Queues, Outside, Alive
<1>12. CASE Handler(a)
  BY <1>12 DEF Handler, Queues, Outside, Alive
<1>13. CASE Ran(a)
  BY <1>13 DEF Ran, Queues, Outside, Alive
<1>14. CASE HandOver(a)
  <2>1. tid' # tid => \E q \in Threads : tid' = -2 - q
    BY <1>14 DEF HandOver
  <2>2. tid' # tid => tid' \in Int /\ tid' < -1
    BY <2>1 DEF Threads
  <2>3. tid < 0 /\ Mine(a) /\ ~InWq
    BY <1>14, Here DEF HandOver, At
  <2>4. tid' # tid => "QUEUED" \notin state
    BY <1>14 DEF HandOver, Busy
  <2>5. UNCHANGED <<expire, dead, wq>>
    BY <1>14, Zenon DEF HandOver, Queues, Outside
  <2> QED
    BY <2>2, <2>3, <2>4, <2>5 DEF Alive
<1>15. CASE SchedLock(a)
  BY <1>15, Zenon DEF SchedLock, Queues, Outside, Alive
<1>16. CASE SchedSet(a)
  <2>1. loc[a].when # 0
    BY <1>16, Here, Zenon DEF SchedSet, At
  <2>2. expire' # 0
    BY <1>16, <2>1, Zenon DEF SchedSet, ETERNITY
  <2> QED
    BY <1>16, <2>2, Zenon DEF SchedSet, Outside, Alive
<1>17. CASE KillInsert(a)
  BY <1>17, Zenon DEF KillInsert, Queues, Outside, Alive
<1>18. CASE Pick(a)
  BY <1>18, Zenon DEF Pick, Queues, Outside, Alive
<1>19. CASE Unlist(a)
  BY <1>19, Zenon DEF Unlist, Queues, Outside, Alive
<1>20. CASE Expire(a)
  BY <1>20, Zenon DEF Expire, Queues, Outside, Alive
<1>21. CASE task_wakeup(a)
  BY <1>21 DEF task_wakeup, MayCall, Queues, Outside, Alive
<1>22. CASE task_schedule(a)
  BY <1>22, Zenon DEF task_schedule, MayCall, Queues, Outside, Alive
<1>23. CASE task_destroy(a)
  BY <1>23, Zenon DEF task_destroy, Doom, MayCall, Alive
<1>24. CASE HandlerWakesItself(a)
  BY <1>24, Zenon DEF HandlerWakesItself, Queues, Outside, Alive
<1>25. CASE HandlerDestroys(a)
  <2>1. UNCHANGED <<tid, expire>> /\ wq' \in {wq, <<>>}
    BY <1>25 DEF HandlerDestroys
  <2> QED
    BY <1>25, <2>1, Zenon DEF HandlerDestroys, Alive
<1> QED
  BY <1>1, <1>2, <1>3, <1>4, <1>5, <1>6, <1>7, <1>8, <1>9, <1>10, <1>11,
     <1>12, <1>13, <1>14, <1>15, <1>16, <1>17, <1>18, <1>19, <1>20, <1>21,
     <1>22, <1>23, <1>24, <1>25, Zenon
  DEF Step, Inside, Loop, Call

(* How a step may change the flags of the task. TASK_KILLED stays.         *)
(* TASK_RUNNING is given back at the end of task_drop_running().           *)
(* TASK_QUEUED is set by a thread that will link the task and either runs  *)
(* it or found it neither running nor queued; it is consumed by the thread *)
(* that acquires the task.                                                 *)
LEMMA StateMoves ==
  ASSUME IInv, NEW a \in Threads, Step(a)
  PROVE  /\ "KILLED" \in state => "KILLED" \in state'
         /\ "RUNNING" \in state \ state' => pc[a] = "drop_cas"
         /\ "QUEUED" \in state' \ state =>
              pc'[a] \in {"insert", "kill_insert"} /\ (Holds(a) \/ state \cap Busy = {})
         /\ "QUEUED" \in state \ state' => pc[a] = "acquire"
<1>1. CASE Wake(a)
  <2>1. loc[a].f \subseteq Woken
    BY LocalsTyped, Zenon DEF IInv, Types
  <2> QED
    BY <1>1, <2>1 DEF Wake, WakeTest, Woken
<1>2. CASE Rewake(a)
  BY <1>2, Zenon DEF Rewake, WakeTest, Queues
<1>3. CASE WakeCas(a)
  <2>1. loc[a].st \cap Busy = {}
    BY <1>3, Here DEF WakeCas, At
  <2>2. PlacesOK
    BY Zenon DEF IInv, Types
  <2>3. CASE state = loc[a].st
    BY <1>3, <2>1, <2>2, <2>3, There, Zenon DEF WakeCas, Goto, Busy
  <2>4. CASE state # loc[a].st
    BY <1>3, <2>4, Zenon DEF WakeCas
  <2> QED
    BY <2>3, <2>4, Zenon
<1>4. CASE Insert(a)
  BY <1>4 DEF Insert, Queues
<1>5. CASE TakeOwnership(a)
  BY <1>5 DEF TakeOwnership, Queues
<1>6. CASE WqInsert(a)
  BY <1>6 DEF WqInsert, Queues
<1>7. CASE DropLoad(a)
  BY <1>7, Zenon DEF DropLoad, Queues
<1>8. CASE DropCas(a)
  <2>1. loc[a].f \subseteq Woken /\ PlacesOK
    BY LocalsTyped, Zenon DEF IInv, Types
  <2>2. Holds(a) /\ pc[a] = "drop_cas"
    BY <1>8, Zenon DEF DropCas, Holds
  <2>3. "QUEUED" \in state' \ state => pc'[a] = "insert"
    <3>1. \/ GotoRet(a, IF "QUEUED" \in state' \ state THEN "insert" ELSE "idle", "idle")
          \/ state' = state
      BY <1>8, Zenon DEF DropCas
    <3> QED
      BY <2>1, <3>1, There, Zenon DEF Goto, GotoRet
  <2> QED
    BY <1>8, <2>1, <2>2, <2>3, Zenon DEF DropCas, Woken
<1>9. CASE Acquire(a)
  BY <1>9, Zenon DEF Acquire
<1>10. CASE FreeTask(a)
  BY <1>10 DEF FreeTask, Queues
<1>11. CASE Queued(a)
  BY <1>11 DEF Queued, Queues
<1>12. CASE Handler(a)
  BY <1>12, Zenon DEF Handler, Queues
<1>13. CASE Ran(a)
  BY <1>13 DEF Ran, Queues
<1>14. CASE HandOver(a)
  BY <1>14 DEF HandOver, Queues
<1>15. CASE SchedLock(a)
  BY <1>15 DEF SchedLock, Queues
<1>16. CASE SchedSet(a)
  BY <1>16, Zenon DEF SchedSet, Queues
<1>17. CASE KillInsert(a)
  BY <1>17 DEF KillInsert, Queues
<1>18. CASE Pick(a)
  BY <1>18 DEF Pick, Queues
<1>19. CASE Unlist(a)
  BY <1>19, Zenon DEF Unlist, Queues
<1>20. CASE Expire(a)
  BY <1>20 DEF Expire, Queues
<1>21. CASE task_wakeup(a)
  BY <1>21 DEF task_wakeup, MayCall, Queues
<1>22. CASE task_schedule(a)
  BY <1>22, Zenon DEF task_schedule, MayCall, Queues
<1>23. CASE task_destroy(a)
  <2>1. PlacesOK
    BY DEF IInv, Types
  <2>2. CASE tid = a
    BY <1>23, <2>2, Zenon DEF task_destroy
  <2>3. CASE tid # a /\ state \cap Busy = {}
    <3>1. state' = state \cup {"QUEUED", "KILLED"} /\ pc'[a] = "kill_insert"
      BY <1>23, <2>1, <2>3, There DEF task_destroy
    <3> QED
      BY <2>3, <3>1, Zenon
  <2>4. CASE tid # a /\ state \cap Busy # {}
    <3>1. state' = state \cup {"KILLED"}
      BY <1>23, <2>4, Zenon DEF task_destroy
    <3> QED
      BY <3>1
  <2> QED
    BY <2>2, <2>3, <2>4, Zenon
<1>24. CASE HandlerWakesItself(a)
  BY <1>24, Zenon DEF HandlerWakesItself, Queues
<1>25. CASE HandlerDestroys(a)
  BY <1>25 DEF HandlerDestroys, Queues
<1> QED
  BY <1>1, <1>2, <1>3, <1>4, <1>5, <1>6, <1>7, <1>8, <1>9, <1>10, <1>11,
     <1>12, <1>13, <1>14, <1>15, <1>16, <1>17, <1>18, <1>19, <1>20, <1>21,
     <1>22, <1>23, <1>24, <1>25, Zenon
  DEF Step, Inside, Loop, Call

(* A thread that holds TASK_RUNNING after a step held it before, or found  *)
(* it free. One that runs the task has consumed TASK_QUEUED.               *)
LEMMA HoldMoves ==
  ASSUME IInv, NEW a \in Threads, Step(a)
  PROVE  /\ Holds(a)' => /\ "RUNNING" \in state'
                         /\ Holds(a) \/ "RUNNING" \notin state
         /\ Consumed(a)' => "QUEUED" \notin state'
<1>1a. /\ At(a) /\ (Holds(a) => "RUNNING" \in state) /\ (Consumed(a) => "QUEUED" \notin state)
       /\ \A l : [pc EXCEPT ![a] = l][a] = l
       /\ \A l : [ret EXCEPT ![a] = l][a] = l
       /\ ret[a] \in Returns
  BY Here, There, Zenon DEF IInv, Types
<1>1. CASE Wake(a)
  <2>1. pc'[a] \in {"idle", "wake_cas"} /\ ret'[a] = "idle"
    BY <1>1, <1>1a, Zenon DEF Wake, WakeTest, Goto, At
  <2> QED
    BY <2>1, Zenon DEF Holds, Consumed, Runs
<1>2. CASE Rewake(a)
  <2>1. Holds(a) /\ ret[a] = "drop"
    BY <1>2, <1>1a, Zenon DEF Rewake, Holds, At
  <2>2. state' = state /\ pc'[a] = "drop"
    BY <1>2, <2>1, <1>1a DEF Rewake, WakeTest, Goto, Busy
  <2> QED
    BY <2>1, <2>2, <1>1a, Zenon DEF Holds, Consumed, Runs
<1>3. CASE WakeCas(a)
  <2>1. pc'[a] \in {"idle", "wake_cas", "insert"} /\ ret'[a] = "idle"
    BY <1>3, <1>1a DEF WakeCas, Goto, At
  <2> QED
    BY <2>1, Zenon DEF Holds, Consumed, Runs
<1>4. CASE Insert(a)
  <2>1. pc'[a] = "idle"
    BY <1>4, <1>1a, Zenon DEF Insert, Goto, At
  <2> QED
    BY <2>1, Zenon DEF Holds, Consumed, Runs
<1>5. CASE TakeOwnership(a)
  <2>1. /\ ret'[a] = ret[a] /\ pc[a] = "tq"
        /\ pc'[a] \in {ret[a], "wq_insert"} \/ (pc'[a] = "rewake" /\ Owner(tid) # a)
    BY <1>5, <1>1a DEF TakeOwnership, Goto
  <2>2. \A f \in {"RUNNING", "QUEUED"} : f \in state' <=> f \in state
    BY <1>5, Zenon DEF TakeOwnership
  <2>3. Owner(tid) # a => ret[a] = "drop"
    BY <2>1, <1>1a, Zenon DEF At, Mine
  <2> QED
    BY <2>1, <2>2, <2>3, <1>1a, Zenon DEF Holds, Consumed, Runs, Returns
<1>6. CASE WqInsert(a)
  <2>1. ret'[a] = ret[a] /\ pc[a] = "wq_insert" /\ pc'[a] = ret[a] /\ state' = state
    BY <1>6, <1>1a, Zenon DEF WqInsert, Goto
  <2> QED
    BY <2>1, <1>1a, Zenon DEF Holds, Consumed, Runs, Returns
<1>7. CASE DropLoad(a)
  <2>1. ret'[a] \in {"drop_cas", "idle"} /\ pc[a] = "drop" /\ pc'[a] \in {"tq", "drop_cas"} /\ state' = state
    BY <1>7, <1>1a, Zenon DEF DropLoad, Goto, GotoRet
  <2> QED
    BY <2>1, <1>1a DEF Holds, Consumed, Runs
<1>8. CASE DropCas(a)
  <2>1. pc[a] = "drop_cas" /\ pc'[a] \in {"insert", "idle", "drop"}
    BY <1>8, <1>1a, Zenon DEF DropCas, Goto, GotoRet
  <2>2. pc'[a] = "drop" => state' = state
    BY <1>8, <1>1a, Zenon DEF DropCas, Goto, GotoRet
  <2> QED
    BY <2>1, <2>2, <1>1a DEF Holds, Consumed, Runs
<1>9. CASE Acquire(a)
  <2>1. "RUNNING" \notin state /\ "RUNNING" \in state' /\ "QUEUED" \notin state'
    BY <1>9 DEF Acquire
  <2> QED
    BY <2>1
<1>10. CASE FreeTask(a)
  <2>1. pc'[a] = "idle"
    BY <1>10, <1>1a, Zenon DEF FreeTask, Goto
  <2> QED
    BY <2>1 DEF Holds, Consumed, Runs
<1>11. CASE Queued(a)
  <2>1. pc[a] = "queued" /\ pc'[a] \in {"drop", "handler"} /\ state' = state
    BY <1>11, <1>1a, Zenon DEF Queued, Goto
  <2> QED
    BY <2>1, <1>1a, Zenon DEF Holds, Consumed, Runs
<1>12. CASE Handler(a)
  <2>1. pc[a] = "handler" /\ pc'[a] = "ran" /\ state' = state
    BY <1>12, <1>1a, Zenon DEF Handler, Goto
  <2> QED
    BY <2>1, <1>1a, Zenon DEF Holds, Consumed, Runs
<1>13. CASE Ran(a)
  <2>1. pc[a] = "ran" /\ (pc'[a] \in {"free", "drop"} \/ (pc'[a] = "tq" /\ ret'[a] = "drop")) /\ state' = state
    BY <1>13, <1>1a DEF Ran, Goto, GotoRet
  <2> QED
    BY <2>1, <1>1a, Zenon DEF Holds, Consumed, Runs
<1>14. CASE HandOver(a)
  <2>1. CASE state \cap Busy # {}
    <3>1. pc'[a] = "wake"
      BY <1>14, <2>1, <1>1a, Zenon DEF HandOver, Goto
    <3> QED
      BY <3>1, Zenon DEF Holds, Consumed, Runs
  <2>2. CASE state \cap Busy = {}
    <3>1. pc'[a] = "drop" /\ "RUNNING" \notin state /\ "RUNNING" \in state'
      BY <1>14, <2>2, <1>1a, Zenon DEF HandOver, Goto, Busy
    <3> QED
      BY <3>1, Zenon DEF Consumed, Runs
  <2> QED
    BY <2>1, <2>2, Zenon
<1>15. CASE SchedLock(a)
  <2>1. \/ pc'[a] = "sched_set" /\ ret'[a] = "idle"
        \/ pc'[a] = "wake"
        \/ pc'[a] = "sched_set" /\ "RUNNING" \notin state /\ "RUNNING" \in state'
    BY <1>15, <1>1a, Zenon DEF SchedLock, Goto, GotoRet
  <2> QED
    BY <2>1, Zenon DEF Holds, Consumed, Runs
<1>16. CASE SchedSet(a)
  <2>1. pc[a] = "sched_set" /\ pc'[a] \in {"tq", ret[a]} /\ ret'[a] = ret[a] /\ ret[a] \in {"idle", "drop"} /\ state' = state
    BY <1>16, <1>1a, Zenon DEF SchedSet, Goto, At
  <2> QED
    BY <2>1, <1>1a DEF Holds, Consumed, Runs
<1>17. CASE KillInsert(a)
  <2>1. pc'[a] = "idle"
    BY <1>17, <1>1a, Zenon DEF KillInsert, Goto
  <2> QED
    BY <2>1 DEF Holds, Consumed, Runs
<1>18. CASE Pick(a)
  <2>1. pc'[a] = "idle"
    BY <1>18, <1>1a, Zenon DEF Pick
  <2> QED
    BY <2>1 DEF Holds, Consumed, Runs
<1>19. CASE Unlist(a)
  <2>1. pc'[a] = "acquire"
    BY <1>19, <1>1a, Zenon DEF Unlist, Goto
  <2> QED
    BY <2>1 DEF Holds, Consumed, Runs
<1>20. CASE Expire(a)
  <2>1. PICK l \in {"wake", "hand_over", "tq", "idle"} : GotoRet(a, l, "idle")
    BY <1>20 DEF Expire
  <2>2. pc'[a] = l /\ ret'[a] = "idle"
    BY <2>1, <1>1a, Zenon DEF Goto, GotoRet
  <2> QED
    BY <2>1, <2>2, Zenon DEF Holds, Consumed, Runs
<1>21. CASE task_wakeup(a)
  <2>1. pc'[a] = "wake"
    BY <1>21, <1>1a, Zenon DEF task_wakeup
  <2> QED
    BY <2>1 DEF Holds, Consumed, Runs
<1>22. CASE task_schedule(a)
  <2>1. pc'[a] = "sched"
    BY <1>22, <1>1a, Zenon DEF task_schedule
  <2> QED
    BY <2>1 DEF Holds, Consumed, Runs
<1>23. CASE task_destroy(a)
  <2>1. pc'[a] \in {"idle", "kill_insert"}
    BY <1>23, <1>1a, Zenon DEF task_destroy, MayCall
  <2> QED
    BY <2>1, Zenon DEF Holds, Consumed, Runs
<1>24. CASE HandlerWakesItself(a)
  <2>1. pc[a] = "handler" /\ pc'[a] = "handler" /\ state' = state \cup {"OTHER"}
    BY <1>24 DEF HandlerWakesItself
  <2> QED
    BY <2>1, <1>1a, Zenon DEF Holds, Consumed, Runs
<1>25. CASE HandlerDestroys(a)
  <2>1. pc'[a] = "idle"
    BY <1>25, <1>1a, Zenon DEF HandlerDestroys, Goto
  <2> QED
    BY <2>1 DEF Holds, Consumed, Runs
<1> QED
  BY <1>1, <1>2, <1>3, <1>4, <1>5, <1>6, <1>7, <1>8, <1>9, <1>10, <1>11,
     <1>12, <1>13, <1>14, <1>15, <1>16, <1>17, <1>18, <1>19, <1>20, <1>21,
     <1>22, <1>23, <1>24, <1>25, Zenon
  DEF Step, Inside, Loop, Call

(* A thread keeps the conditions of the labels that it goes through.       *)
LEMMA LabelKept ==
  ASSUME IInv, NEW a \in Threads, Step(a)
  PROVE  At(a)'
<1>0. /\ At(a) /\ tid \in Tids /\ tid \in Int /\ ret[a] \in Returns
      /\ (Holds(a) => "RUNNING" \in state) /\ (call[a] => "KILLED" \notin state /\ Alive)
      /\ (Mine(a) => tid # -1) /\ ("KILLED" \in state \/ ~process => ~Alive)
      /\ \A l : [pc EXCEPT ![a] = l][a] = l
      /\ \A l : [ret EXCEPT ![a] = l][a] = l
      /\ \A l : [call EXCEPT ![a] = l][a] = l
  BY Here, There DEF IInv, Types, Ends
<1>1a. LocalsOK /\ state \in SUBSET Flags /\ now \in 1 .. MaxNow
  BY Zenon DEF IInv, Types, TaskOK
<1>1. CASE Wake(a)
  <2>1. loc'[a].st = state'
    <3>1. loc[a].f \subseteq Woken
      BY <1>1a, LocalsTyped
    <3>2. state' \in SUBSET Flags
      BY <1>1, <1>1a, <3>1, Zenon DEF Wake, WakeTest, Flags
    <3> QED
      BY <1>1, <1>1a, <3>2, LocalsRead, Zenon DEF Wake, WakeTest
  <2>2. tid' = tid /\ ret' = ret /\ Goto(a, IF state' \cap Busy # {} THEN ret[a] ELSE "wake_cas")
    BY <1>1, Zenon DEF Wake, WakeTest
  <2>3. ret[a] = "idle" /\ (call[a] \/ Mine(a))
    BY <1>1, <1>0 DEF Wake, At
  <2>4. \/ pc'[a] = "idle"
        \/ pc'[a] = "wake_cas" /\ ret'[a] = "idle" /\ loc'[a].st \cap Busy = {} /\ (call'[a] \/ Mine(a)')
    BY <2>1, <2>2, <2>3, <1>0, Zenon DEF Goto, Mine
  <2> QED
    BY <2>4, SMTT(30) DEF At
<1>2. CASE Rewake(a)
  <2>1. ret[a] = "drop" /\ "RUNNING" \in state /\ tid # -1
    BY <1>2, <1>0, Zenon DEF Rewake, At, Holds
  <2>2. state' = state /\ tid' = tid /\ Goto(a, IF state' \cap Busy # {} THEN ret[a] ELSE "wake_cas")
    BY <1>2, Zenon DEF Rewake, WakeTest
  <2>3. pc'[a] = "drop" /\ tid' # -1
    BY <2>1, <2>2, <1>0 DEF Goto, Busy
  <2> QED
    BY <2>3, Zenon DEF At
<1>3. CASE WakeCas(a)
  <2>1. ret[a] = "idle" /\ (call[a] \/ Mine(a)) /\ ret' = ret
    BY <1>3, <1>0, Zenon DEF WakeCas, At
  <2>2. CASE state = loc[a].st
    <3>1. Goto(a, "insert") /\ tid' = NewTid(a, tid)
      BY <1>3, <2>2, Zenon DEF WakeCas
    <3>2. pc'[a] = "insert" /\ tid' # -1
      BY <3>1, <1>0, TidsTyped, Zenon DEF Goto
    <3> QED
      BY <2>1, <3>2, Zenon DEF At
  <2>3. CASE state # loc[a].st
    <3>1. tid' = tid /\ loc' = Set(a, "st", state) /\ Goto(a, IF state \cap Busy # {} THEN ret[a] ELSE "wake_cas")
      BY <1>3, <2>3, Zenon DEF WakeCas
    <3>2. loc'[a].st = state
      BY <3>1, <1>1a, LocalsRead
    <3>3. \/ pc'[a] = "idle"
          \/ pc'[a] = "wake_cas" /\ ret'[a] = "idle" /\ loc'[a].st \cap Busy = {} /\ (call'[a] \/ Mine(a)')
      BY <2>1, <3>1, <3>2, <1>0, Zenon DEF Goto, Mine
    <3> QED
      BY <3>3 DEF At
  <2> QED
    BY <2>2, <2>3, Zenon
<1>4. CASE Insert(a)
  <2>1. pc'[a] = "idle"
    BY <1>4, <1>0, Zenon DEF Insert, Goto, At
  <2> QED
    BY <2>1 DEF At
<1>5. CASE TakeOwnership(a)
  <2>1. /\ ret'[a] = ret[a] /\ expire' = expire /\ expire # ETERNITY
        /\ (call[a] /\ ret[a] = "drop") \/ Mine(a)
    BY <1>5, <1>0, Zenon DEF TakeOwnership, Queues, At
  <2>2. CASE "KILLED" \in state
    <3>1. pc'[a] = ret[a] /\ tid' = tid /\ Mine(a)
      BY <1>5, <2>1, <2>2, <1>0, Zenon DEF TakeOwnership, Goto
    <3> QED
      BY <3>1, <1>0, Zenon DEF At, Mine, Returns
  <2>3. CASE "KILLED" \notin state /\ Owner(tid) \in {a, -1}
    <3>1. pc'[a] = "wq_insert" /\ tid' = NewTid(a, tid)
      BY <1>5, <2>3, <1>0, Zenon DEF TakeOwnership, Goto
    <3>2. Mine(a)'
      BY <2>3, <3>1, <1>0, TidsTyped, Zenon DEF Mine
    <3> QED
      BY <2>1, <3>1, <3>2, Zenon DEF At
  <2>4. CASE "KILLED" \notin state /\ Owner(tid) \notin {a, -1}
    <3>1. ret[a] = "drop" /\ tid' = NewTid(a, tid)
      BY <1>5, <2>1, <2>4, Zenon DEF TakeOwnership, Mine
    <3>2. pc'[a] \in {"drop", "rewake"}
      BY <1>5, <2>4, <3>1, <1>0, Zenon DEF TakeOwnership, Goto
    <3>3. tid' # -1
      BY <3>1, <1>0, TidsTyped, Zenon
    <3> QED
      BY <2>1, <3>1, <3>2, <3>3, Zenon DEF At
  <2> QED
    BY <2>2, <2>3, <2>4
<1>6. CASE WqInsert(a)
  <2>1. pc'[a] = ret[a] /\ tid' = tid /\ Mine(a) /\ tid # -1
    BY <1>6, <1>0, Zenon DEF WqInsert, Goto, At
  <2> QED
    BY <2>1, <1>0, SMTT(30) DEF At, Mine, Returns
<1>7. CASE DropLoad(a)
  <2>1. /\ tid' = tid /\ expire' = expire /\ tid # -1
        /\ \/ pc'[a] = "tq" /\ Mine(a) /\ expire # ETERNITY
           \/ pc'[a] = "drop_cas"
    BY <1>7, <1>0, Zenon DEF DropLoad, MustQueue, Queues, Goto, GotoRet, At, Mine
  <2> QED
    BY <2>1, Zenon DEF At, Mine
<1>8. CASE DropCas(a)
  <2>1. tid # -1
    BY <1>8, <1>0, ZenonT(30) DEF DropCas, At
  <2>2. \/ pc'[a] = "insert" /\ ret'[a] = "idle" /\ tid' = tid
        \/ pc'[a] = "idle"
        \/ pc'[a] = "drop" /\ tid' = tid
    BY <1>8, <1>0, Zenon DEF DropCas, Goto, GotoRet
  <2> QED
    BY <2>1, <2>2, SMTT(30) DEF At
<1>9. CASE Acquire(a)
  <2>1. /\ tid' = tid /\ expire' = expire /\ dead' = dead /\ (Mine(a) \/ (tid = -1 /\ "KILLED" \in state))
        /\ "KILLED" \in state => "KILLED" \in state'
    BY <1>9, <1>0, Zenon DEF Acquire, Queues, Outside, At
  <2>2. \/ pc'[a] = "free" /\ ("KILLED" \in state \/ ~process)
        \/ pc'[a] \in {"handler", "queued"} /\ "KILLED" \notin state
        \/ pc'[a] = "tq" /\ "KILLED" \notin state /\ expire # ETERNITY
    BY <1>9, <1>0 DEF Acquire, MustQueue, Goto, GotoRet
  <2> QED
    BY <2>1, <2>2, <1>0, Zenon DEF At, Mine, Alive
<1>10. CASE FreeTask(a)
  <2>1. pc'[a] = "idle"
    BY <1>10, <1>0, Zenon DEF FreeTask, Goto
  <2> QED
    BY <2>1 DEF At
<1>11. CASE Queued(a)
  <2>1. tid' = tid /\ Mine(a) /\ tid # -1 /\ pc'[a] \in {"drop", "handler"}
    BY <1>11, <1>0, Zenon DEF Queued, Goto, At
  <2> QED
    BY <2>1 DEF At, Mine
<1>12. CASE Handler(a)
  <2>1. tid' = tid /\ Mine(a) /\ pc'[a] = "ran"
    BY <1>12, <1>0, Zenon DEF Handler, Goto, At
  <2> QED
    BY <2>1, ZenonT(30) DEF At, Mine
<1>13. CASE Ran(a)
  <2>1. /\ tid' = tid /\ dead' = dead /\ expire' = expire /\ state' = state /\ Mine(a) /\ tid # -1
        /\ \/ pc'[a] = "free" /\ "KILLED" \in state
           \/ pc'[a] = "tq" /\ expire # ETERNITY
           \/ pc'[a] = "drop"
    BY <1>13, <1>0, Zenon DEF Ran, MustQueue, Queues, Outside, Goto, GotoRet, At
  <2> QED
    BY <2>1, <1>0 DEF At, Mine, Alive
<1>14. CASE HandOver(a)
  <2>1. ret'[a] = "idle" /\ Mine(a)
    BY <1>14, <1>0, Zenon DEF HandOver, At
  <2>2. CASE state \cap Busy # {}
    <3>1. pc'[a] = "wake" /\ tid' = tid
      BY <1>14, <2>2, <1>0, Zenon DEF HandOver, Goto
    <3> QED
      BY <2>1, <3>1, Zenon DEF At, Mine
  <2>3. CASE state \cap Busy = {}
    <3>1. PICK q \in Threads : tid' = -2 - q
      BY <1>14, <2>3 DEF HandOver
    <3>2. tid' # -1
      BY <3>1 DEF Threads
    <3>3. pc'[a] = "drop"
      BY <1>14, <2>3, <1>0, Zenon DEF HandOver, Goto
    <3> QED
      BY <3>2, <3>3, Zenon DEF At
  <2> QED
    BY <2>2, <2>3
<1>15. CASE SchedLock(a)
  <2>1. call[a] /\ (tid >= 0 => tid = a) /\ loc[a].when # 0 /\ tid' = tid
    BY <1>15, <1>0, Zenon DEF SchedLock, At
  <2>2. \/ GotoRet(a, "sched_set", "idle") /\ tid >= 0 /\ loc' = loc
        \/ GotoRet(a, "wake", "idle")
        \/ GotoRet(a, "sched_set", "drop") /\ loc' = loc
    BY <1>15 DEF SchedLock
  <2>3. \/ pc'[a] = "sched_set" /\ call'[a] /\ loc'[a].when # 0 /\ ret'[a] = "idle" /\ tid' = a
        \/ pc'[a] = "sched_set" /\ call'[a] /\ loc'[a].when # 0 /\ ret'[a] = "drop"
        \/ pc'[a] = "wake" /\ ret'[a] = "idle" /\ call'[a]
    BY <2>1, <2>2, <1>0, ZenonT(30) DEF Goto, GotoRet
  <2> QED
    BY <2>3, Zenon DEF At
<1>16. CASE SchedSet(a)
  <2>1. call[a] /\ loc[a].when # 0 /\ (ret[a] = "idle" => tid = a) /\ ret[a] \in {"idle", "drop"}
    BY <1>16, <1>0, Zenon DEF SchedSet, At
  <2>2. tid' = tid /\ ret' = ret /\ expire' # 0
    BY <1>16, <2>1 DEF SchedSet, ETERNITY
  <2>3. CASE pc'[a] = "tq"
    <3>1. call'[a]
      BY <1>16, <2>1, <2>3, <1>0, Zenon DEF SchedSet, Goto
    <3>2. tid = a => Mine(a)'
      BY <2>2, Here DEF Mine, Owner
    <3> QED
      BY <2>1, <2>2, <2>3, <3>1, <3>2, Zenon DEF At, ETERNITY
  <2>4. CASE pc'[a] # "tq"
    <3>1. pc'[a] = ret[a] /\ InWq
      BY <1>16, <2>1, <2>4, <1>0, Zenon DEF SchedSet, Goto, MustQueue, ETERNITY
    <3>2. tid' # -1
      BY <2>2, <3>1, Here
    <3> QED
      BY <2>1, <3>1, <3>2, Zenon DEF At
  <2> QED
    BY <2>3, <2>4
<1>17. CASE KillInsert(a)
  <2>1. pc'[a] = "idle"
    BY <1>17, <1>0, Zenon DEF KillInsert, Goto
  <2> QED
    BY <2>1 DEF At
<1>18. CASE Pick(a)
  <2>1. pc'[a] = "idle"
    BY <1>18, <1>0, ZenonT(30) DEF Pick
  <2> QED
    BY <2>1 DEF At
<1>19. CASE Unlist(a)
  <2>1. tid' = tid /\ state' = state /\ pc'[a] = "acquire"
    BY <1>19, <1>0, Zenon DEF Unlist, Goto
  <2>2. Mine(a) \/ (tid = -1 /\ "KILLED" \in state)
    BY <1>19, Zenon DEF Unlist, IInv, Tokens, Mine
  <2> QED
    BY <2>1, <2>2, Zenon DEF At, Mine
<1>20. CASE Expire(a)
  <2>1. InWq /\ wq[1] = a /\ tid' = tid /\ expire' = expire /\ wq' = <<>>
    BY <1>20 DEF Expire
  <2>2. Mine(a)' /\ ~InWq'
    BY <2>1, Zenon DEF Mine, IInv, Ends, InWq
  <2>3. PICK l : /\ GotoRet(a, l, "idle")
                 /\ \/ l \in {"wake", "idle"}
                    \/ l = "hand_over" /\ tid < 0
                    \/ l = "tq" /\ expire # ETERNITY
    BY <1>20, Zenon DEF Expire
  <2>4. pc'[a] = l /\ ret'[a] = "idle"
    BY <2>3, <1>0, Zenon DEF Goto, GotoRet
  <2> QED
    BY <2>1, <2>2, <2>3, <2>4, Zenon DEF At
<1>21. CASE task_wakeup(a)
  <2>1. pc'[a] = "wake" /\ ret'[a] = "idle" /\ call'[a]
    BY <1>21, <1>0 DEF task_wakeup
  <2> QED
    BY <2>1 DEF At
<1>22. CASE task_schedule(a)
  <2>1. PICK w \in 1 .. 2 : loc' = [loc EXCEPT ![a].when = now + w, ![a].f = {}]
    BY <1>22, Zenon DEF task_schedule
  <2>2. loc'[a].when = now + w
    BY <1>1a, <2>1 DEF LocalsOK, Local
  <2>3. loc'[a].when # 0
    BY <1>1a, <2>2
  <2>4. pc'[a] = "sched" /\ call'[a] /\ (tid' >= 0 => tid' = a)
    BY <1>22, <1>0, ZenonT(30) DEF task_schedule
  <2> QED
    BY <2>3, <2>4, Zenon DEF At
<1>23. CASE task_destroy(a)
  <2>1. \/ pc'[a] = "idle"
        \/ pc'[a] = "kill_insert" /\ "KILLED" \in state'
    BY <1>23, <1>0, Zenon DEF task_destroy, MayCall
  <2> QED
    BY <2>1, Zenon DEF At
<1>24. CASE HandlerWakesItself(a)
  <2>1. tid' = tid /\ Mine(a) /\ pc'[a] = "handler"
    BY <1>24, <1>0, Zenon DEF HandlerWakesItself, At
  <2> QED
    BY <2>1 DEF At, Mine
<1>25. CASE HandlerDestroys(a)
  <2>1. pc'[a] = "idle"
    BY <1>25, <1>0, Zenon DEF HandlerDestroys, Goto
  <2> QED
    BY <2>1 DEF At
<1> QED
  BY <1>1, <1>2, <1>3, <1>4, <1>5, <1>6, <1>7, <1>8, <1>9, <1>10, <1>11,
     <1>12, <1>13, <1>14, <1>15, <1>16, <1>17, <1>18, <1>19, <1>20, <1>21,
     <1>22, <1>23, <1>24, <1>25, Zenon
  DEF Step, Inside, Loop, Call

(* The other threads keep the conditions of the labels they are at. *)
LEMMA LabelsKept ==
  ASSUME IInv, NEW a \in Threads, Step(a)
  PROVE  Labelled'
<1> SUFFICES ASSUME NEW p \in Threads, p # a PROVE At(p)'
  BY LabelKept, Zenon DEF Labelled
<1>1. /\ pc'[p] = pc[p] /\ ret'[p] = ret[p] /\ loc'[p] = loc[p] /\ call'[p] = call[p]
  BY OthersKept, Zenon DEF IInv, Types
<1>2. tid \in Tids /\ tid' \in Tids /\ p \in Int /\ p >= 0 /\ a \in Int
  BY TaskKept, Here, Zenon DEF IInv, Types, TaskOK
<1>3. Mine(p) => tid' = tid /\ ~Mine(a)
  <2>1. Mine(p) => ~Mine(a) /\ tid # -1
    BY Here, Zenon DEF Mine
  <2> QED
    BY <2>1, FieldsMove
<1>4. tid >= 0 \/ tid' >= 0 => tid' = tid
  BY <1>2, FieldsMove DEF Tids
<1>5. tid = -1 /\ "KILLED" \in state => tid' = -1 /\ "KILLED" \in state'
  BY FieldsMove, StateMoves, Here
<1>6. Holds(p) => ~Holds(a)
  BY DEF IInv, Runner
<1>7. Holds(p) \/ pc[p] = "insert" => tid' # -1 \/ tid = -1
  <2>1. pc[p] = "insert" => "QUEUED" \in state
    BY Zenon DEF IInv, Tokens, Token
  <2> QED
    BY <1>6, <2>1, FieldsMove, Zenon
<1>8. pc[p] \in {"tq", "wq_insert"} => expire' # ETERNITY
  <2>1. pc[a] = "handler" => Mine(a) /\ Holds(a)
    BY Here, Zenon DEF At, Holds
  <2>2. pc[p] \in {"tq", "wq_insert"} => (Holds(p) \/ Mine(p)) /\ expire # ETERNITY
    BY Here, Zenon DEF At, Holds
  <2> QED
    BY <1>3, <1>6, <2>1, <2>2, FieldsMove, Zenon DEF ETERNITY
<1>9. ~Alive => ~Alive'
  BY FieldsMove, Zenon
<1>10. Mine(p) /\ ~InWq => ~InWq'
  BY <1>3, FieldsMove, Zenon DEF InWq
<1>11. At(p) /\ pc[p] \in Labels
  BY Here, There DEF IInv, Types
<1>12. CASE pc[p] \in {"wake", "wake_cas", "rewake", "insert"}
  BY <1>1, <1>3, <1>7, <1>11, <1>12, ZenonT(30) DEF At, Mine, Holds
<1>13. CASE pc[p] \in {"tq", "wq_insert"}
  BY <1>1, <1>3, <1>8, <1>11, <1>13, Zenon DEF At, Mine
<1>14. CASE pc[p] \in {"handler", "ran", "queued", "acquire", "free"}
  BY <1>1, <1>3, <1>5, <1>9, <1>11, <1>14 DEF At, Mine
<1>15. CASE pc[p] \in {"drop", "drop_cas"}
  BY <1>1, <1>7, <1>11, <1>15, ZenonT(30) DEF At, Holds
<1>16. CASE pc[p] = "hand_over"
  BY <1>1, <1>3, <1>10, <1>11, <1>16 DEF At, Mine
<1>17. CASE pc[p] \in {"sched", "sched_set"}
  BY <1>1, <1>2, <1>4, <1>11, <1>17, Zenon DEF At
<1>18. CASE pc[p] \in {"idle", "kill_insert"}
  BY <1>1, <1>11, <1>18, StateMoves, Zenon DEF At
<1> QED
  BY <1>11, <1>12, <1>13, <1>14, <1>15, <1>16, <1>17, <1>18, Zenon DEF Labels, Runs

(* TASK_RUNNING is a lock: its holder changes when nobody has it. *)
LEMMA RunnerKept ==
  ASSUME IInv, NEW a \in Threads, Step(a)
  PROVE  Runner'
<1>1. \A q \in Threads \ {a} : pc'[q] = pc[q] /\ ret'[q] = ret[q]
  BY OthersKept, Zenon DEF IInv, Types
<1>2. \A q \in Threads \ {a} : (Holds(q)' <=> Holds(q)) /\ (Consumed(q)' <=> Consumed(q))
  BY <1>1 DEF Holds, Consumed
<1>3. \A q \in Threads : Holds(q) => "RUNNING" \in state
  BY Here
<1>4. \A p, q \in Threads : Holds(p) /\ Holds(q) => p = q
  BY DEF IInv, Runner
<1>5. \A p, q \in Threads : Holds(p)' /\ Holds(q)' => p = q
  BY <1>2, <1>3, <1>4, HoldMoves
<1>6. ASSUME NEW p \in Threads, Holds(p)' PROVE "RUNNING" \in state'
  <2>1. CASE p = a
    BY <2>1, <1>6, HoldMoves, Zenon
  <2>2. CASE p # a
    <3>1. Holds(p) /\ ~Holds(a) /\ "RUNNING" \in state
      BY <2>2, <1>2, <1>3, <1>4, <1>6, Zenon
    <3>2. pc[a] # "drop_cas"
      BY <3>1 DEF Holds
    <3> QED
      BY <3>1, <3>2, StateMoves, Zenon
  <2> QED
    BY <2>1, <2>2
<1>7. ASSUME NEW p \in Threads, Consumed(p)' PROVE "QUEUED" \notin state'
  <2>1. CASE p = a
    BY <2>1, <1>7, HoldMoves, Zenon
  <2>2. CASE p # a
    <3>1. Consumed(p) /\ "QUEUED" \notin state
      BY <2>2, <1>2, <1>7, Here, Zenon
    <3>2. Holds(p)
      BY <3>1 DEF Consumed, Runs, Holds
    <3>3. ~Holds(a) /\ "RUNNING" \in state
      BY <2>2, <3>2, <1>3, <1>4
    <3> QED
      BY <3>1, <3>3, StateMoves DEF Busy
  <2> QED
    BY <2>1, <2>2
<1> QED
  BY <1>5, <1>6, <1>7, Zenon DEF Runner

(* The right to link the task is never duplicated: whoever sets            *)
(* TASK_QUEUED links it, whoever unlinks it acquires it.                   *)
LEMMA TokensKept ==
  ASSUME IInv, NEW a \in Threads, Step(a)
  PROVE  Tokens'
<1>0. /\ At(a) /\ ret[a] \in Returns
      /\ \A l : [pc EXCEPT ![a] = l][a] = l
      /\ \A l : [ret EXCEPT ![a] = l][a] = l
  BY Here, There, Zenon DEF IInv, Types
<1>o. \A q \in Threads : q # a => pc'[q] = pc[q]
  BY OthersKept, Zenon DEF IInv, Types
<1>p. /\ tid' = tid \/ place = {}
      /\ "KILLED" \in state => "KILLED" \in state'
  <2>1. tid = -1 /\ "KILLED" \notin state => place = {}
    <3>1. Owner(-1) \notin Threads /\ \A x \in place : x[2] \in Threads
      BY DEF Owner, Threads, IInv, Types, TaskOK
    <3> QED
      BY <3>1 DEF IInv, Tokens
  <2> QED
    BY <2>1, FieldsMove, StateMoves, Zenon DEF IInv, Tokens
<1>k. ASSUME pc'[a] \notin {"insert", "kill_insert", "acquire"}, place' = place,
             "QUEUED" \in state => "QUEUED" \in state'
      PROVE  Tokens'
  <2>1. \A q \in Threads : Token(q)' => Token(q)
    BY <1>k, <1>o DEF Token
  <2> QED
    BY <1>k, <1>p, <2>1, Zenon DEF IInv, Tokens
<1>n. ASSUME pc'[a] \in {"insert", "kill_insert"}, place' = place, "QUEUED" \in state' \ state
      PROVE  Tokens'
  <2>1. place = {} /\ \A q \in Threads : ~Token(q)
    BY <1>n DEF IInv, Tokens
  <2>2. \A q \in Threads : Token(q)' => q = a
    BY <1>o, <2>1 DEF Token
  <2> QED
    BY <1>n, <2>1, <2>2 DEF Tokens
<1>1. CASE Wake(a)
  <2>1. pc'[a] \notin {"insert", "kill_insert", "acquire"} /\ place' = place
    BY <1>1, <1>0, Zenon DEF Wake, WakeTest, Queues, Goto, At
  <2>2. "QUEUED" \in state => "QUEUED" \in state'
    BY <1>1 DEF Wake, WakeTest
  <2> QED
    BY <2>1, <2>2, <1>k
<1>2. CASE Rewake(a)
  <2>1. pc'[a] \notin {"insert", "kill_insert", "acquire"} /\ place' = place
    BY <1>2, <1>0, Zenon DEF Rewake, WakeTest, Queues, Goto, At
  <2>2. "QUEUED" \in state => "QUEUED" \in state'
    BY <1>2 DEF Rewake, WakeTest
  <2> QED
    BY <2>1, <2>2, <1>k
<1>3. CASE WakeCas(a)
  <2>1. loc[a].st \cap Busy = {} /\ ret[a] = "idle" /\ place' = place
    BY <1>3, <1>0, Zenon DEF WakeCas, Queues, At
  <2>2. CASE state = loc[a].st
    <3>1. pc'[a] = "insert" /\ "QUEUED" \in state' /\ "QUEUED" \notin state
      BY <1>3, <2>1, <2>2, <1>0, Zenon DEF WakeCas, Goto, Busy
    <3> QED
      BY <2>1, <3>1, <1>n, Zenon
  <2>3. CASE state # loc[a].st
    <3>1. pc'[a] \in {"idle", "wake_cas"} /\ state' = state
      BY <1>3, <2>1, <2>3, <1>0, Zenon DEF WakeCas, Goto
    <3> QED
      BY <2>1, <3>1, <1>k
  <2> QED
    BY <2>2, <2>3
<1>4. CASE Insert(a)
  <2>1. place = {} /\ "QUEUED" \in state /\ \A q \in Threads : Token(q) => q = a
    BY <1>4 DEF Insert, IInv, Tokens, Token
  <2>2. pc'[a] = "idle" /\ state' = state /\ tid' = tid
    BY <1>4, <1>0, Zenon DEF Insert, Goto, At
  <2>3. \A q \in Threads : ~Token(q)'
    BY <2>1, <2>2, <1>o DEF Token
  <2>4. PICK k : place' = {<<k, Owner(tid)>>}
    BY <1>4, <2>1, Zenon DEF Insert
  <2> QED
    BY <2>1, <2>2, <2>3, <2>4 DEF Tokens
<1>5. CASE TakeOwnership(a)
  <2>1. pc'[a] \notin {"insert", "kill_insert", "acquire"} /\ place' = place
    BY <1>5, <1>0, Zenon DEF TakeOwnership, Queues, Goto, Returns
  <2>2. "QUEUED" \in state => "QUEUED" \in state'
    BY <1>5, Zenon DEF TakeOwnership
  <2> QED
    BY <2>1, <2>2, <1>k
<1>6. CASE WqInsert(a)
  <2>1. pc'[a] \notin {"insert", "kill_insert", "acquire"} /\ place' = place
    BY <1>6, <1>0, Zenon DEF WqInsert, Goto, Returns
  <2>2. "QUEUED" \in state => "QUEUED" \in state'
    BY <1>6 DEF WqInsert
  <2> QED
    BY <2>1, <2>2, <1>k
<1>7. CASE DropLoad(a)
  <2>1. pc'[a] \notin {"insert", "kill_insert", "acquire"} /\ place' = place
    BY <1>7, <1>0 DEF DropLoad, Queues, Goto, GotoRet
  <2>2. "QUEUED" \in state => "QUEUED" \in state'
    BY <1>7, Zenon DEF DropLoad
  <2> QED
    BY <2>1, <2>2, <1>k
<1>8. CASE DropCas(a)
  <2>1. place' = place /\ pc'[a] \in {"insert", "idle", "drop"}
    BY <1>8, <1>0, Zenon DEF DropCas, Queues, Goto, GotoRet
  <2>2. "QUEUED" \in state => "QUEUED" \in state'
    BY <1>8, Zenon DEF DropCas, Woken
  <2>3. pc'[a] = "insert" => "QUEUED" \in state' \ state
    BY <1>8, <1>0, Zenon DEF DropCas, Goto, GotoRet
  <2> QED
    BY <2>1, <2>2, <2>3, <1>k, <1>n, Zenon
<1>9. CASE Acquire(a)
  <2>1. pc[a] = "acquire" /\ pc'[a] \notin {"insert", "kill_insert", "acquire"} /\ place' = place
    BY <1>9, <1>0, Zenon DEF Acquire, Queues, Goto, GotoRet
  <2>2. place = {} /\ \A q \in Threads : Token(q) => q = a
    BY <2>1, Zenon DEF IInv, Tokens, Token
  <2>3. \A q \in Threads : ~Token(q)'
    BY <2>1, <2>2, <1>o, Zenon DEF Token
  <2> QED
    BY <2>1, <2>2, <2>3, Zenon DEF Tokens
<1>10. CASE FreeTask(a)
  <2>1. pc'[a] \notin {"insert", "kill_insert", "acquire"} /\ place' = place
    BY <1>10, <1>0 DEF FreeTask, Goto
  <2>2. "QUEUED" \in state => "QUEUED" \in state'
    BY <1>10, Zenon DEF FreeTask
  <2> QED
    BY <2>1, <2>2, <1>k
<1>11. CASE Queued(a)
  <2>1. pc'[a] \notin {"insert", "kill_insert", "acquire"} /\ place' = place
    BY <1>11, <1>0, Zenon DEF Queued, Queues, Goto
  <2>2. "QUEUED" \in state => "QUEUED" \in state'
    BY <1>11, Zenon DEF Queued
  <2> QED
    BY <2>1, <2>2, <1>k
<1>12. CASE Handler(a)
  <2>1. pc'[a] \notin {"insert", "kill_insert", "acquire"} /\ place' = place
    BY <1>12, <1>0, Zenon DEF Handler, Goto
  <2>2. "QUEUED" \in state => "QUEUED" \in state'
    BY <1>12, Zenon DEF Handler
  <2> QED
    BY <2>1, <2>2, <1>k
<1>13. CASE Ran(a)
  <2>1. pc'[a] \notin {"insert", "kill_insert", "acquire"} /\ place' = place
    BY <1>13, <1>0, Zenon DEF Ran, Queues, Goto, GotoRet
  <2>2. "QUEUED" \in state => "QUEUED" \in state'
    BY <1>13, Zenon DEF Ran
  <2> QED
    BY <2>1, <2>2, <1>k
<1>14. CASE HandOver(a)
  <2>1. pc'[a] \notin {"insert", "kill_insert", "acquire"} /\ place' = place
    BY <1>14, <1>0, Zenon DEF HandOver, Queues, Goto
  <2>2. "QUEUED" \in state => "QUEUED" \in state'
    BY <1>14, Zenon DEF HandOver
  <2> QED
    BY <2>1, <2>2, <1>k
<1>15. CASE SchedLock(a)
  <2>1. pc'[a] \notin {"insert", "kill_insert", "acquire"} /\ place' = place
    BY <1>15, <1>0, Zenon DEF SchedLock, Queues, Goto, GotoRet
  <2>2. "QUEUED" \in state => "QUEUED" \in state'
    BY <1>15 DEF SchedLock
  <2> QED
    BY <2>1, <2>2, <1>k
<1>16. CASE SchedSet(a)
  <2>1. pc'[a] \notin {"insert", "kill_insert", "acquire"} /\ place' = place
    BY <1>16, <1>0, ZenonT(30) DEF SchedSet, Goto, At
  <2>2. "QUEUED" \in state => "QUEUED" \in state'
    BY <1>16, Zenon DEF SchedSet
  <2> QED
    BY <2>1, <2>2, <1>k
<1>17. CASE KillInsert(a)
  <2>1. place = {} /\ "QUEUED" \in state /\ \A q \in Threads : Token(q) => q = a
    BY <1>17 DEF KillInsert, IInv, Tokens, Token
  <2>2. pc'[a] = "idle" /\ state' = state /\ tid' = tid
    BY <1>17, <1>0, ZenonT(30) DEF KillInsert, Goto, At
  <2>3. \A q \in Threads : ~Token(q)'
    BY <2>1, <2>2, <1>o DEF Token
  <2>4. place' = {<<"shared_list", IF tid = -1 THEN a ELSE Owner(tid)>>} /\ "KILLED" \in state
    BY <1>17, <2>1, <1>0, Zenon DEF KillInsert, At
  <2> QED
    BY <2>1, <2>2, <2>3, <2>4 DEF Tokens
<1>18. CASE Pick(a)
  <2>1. PICK k \in Places : <<k, a>> \in place /\ place' = (place \ {<<k, a>>}) \cup {<<"list", a>>}
    BY <1>18, Zenon DEF Pick, Places
  <2>2. place' = {<<"list", a>>} /\ "QUEUED" \in state /\ (a = Owner(tid) \/ (tid = -1 /\ "KILLED" \in state))
    BY <2>1, Zenon DEF IInv, Tokens
  <2>3. pc' = pc /\ state' = state /\ tid' = tid
    BY <1>18, Zenon DEF Pick
  <2>4. \A q \in Threads : ~Token(q)'
    BY <2>1, <2>3, Zenon DEF IInv, Tokens, Token
  <2> QED
    BY <2>2, <2>3, <2>4 DEF Tokens
<1>19. CASE Unlist(a)
  <2>1. place' = {} /\ "QUEUED" \in state /\ \A q \in Threads : ~Token(q)
    BY <1>19, Zenon DEF Unlist, IInv, Tokens
  <2>2. pc'[a] = "acquire" /\ state' = state
    BY <1>19, <1>0, Zenon DEF Unlist, Goto
  <2>3. \A q \in Threads : Token(q)' => q = a
    BY <2>1, <1>o, Zenon DEF Token
  <2> QED
    BY <2>1, <2>2, <2>3, Zenon DEF Tokens
<1>20. CASE Expire(a)
  <2>1. PICK l \in {"wake", "hand_over", "tq", "idle"} : GotoRet(a, l, "idle")
    BY <1>20 DEF Expire
  <2>2. pc'[a] = l /\ place' = place /\ state' = state
    BY <1>20, <2>1, <1>0, Zenon DEF Expire, Goto, GotoRet
  <2> QED
    BY <2>1, <2>2, <1>k
<1>21. CASE task_wakeup(a)
  <2>1. pc'[a] \notin {"insert", "kill_insert", "acquire"} /\ place' = place
    BY <1>21, <1>0 DEF task_wakeup, Queues
  <2>2. "QUEUED" \in state => "QUEUED" \in state'
    BY <1>21 DEF task_wakeup
  <2> QED
    BY <2>1, <2>2, <1>k
<1>22. CASE task_schedule(a)
  <2>1. pc'[a] \notin {"insert", "kill_insert", "acquire"} /\ place' = place
    BY <1>22, <1>0 DEF task_schedule, Queues
  <2>2. "QUEUED" \in state => "QUEUED" \in state'
    BY <1>22 DEF task_schedule
  <2> QED
    BY <2>1, <2>2, <1>k
<1>23. CASE task_destroy(a)
  <2>1. place' = place /\ tid' = tid
    BY <1>23 DEF task_destroy
  <2>2. CASE pc'[a] = "kill_insert"
    <3>1. "QUEUED" \in state' \ state
      BY <1>23, <2>2, <1>0, Zenon DEF task_destroy, MayCall, Busy
    <3> QED
      BY <2>1, <2>2, <3>1, <1>n
  <2>3. CASE pc'[a] # "kill_insert"
    <3>1. pc'[a] = "idle" /\ ("QUEUED" \in state => "QUEUED" \in state')
      BY <1>23, <2>3, <1>0, Zenon DEF task_destroy, MayCall
    <3> QED
      BY <2>1, <3>1, <1>k
  <2> QED
    BY <2>2, <2>3, Zenon
<1>24. CASE HandlerWakesItself(a)
  <2>1. pc'[a] \notin {"insert", "kill_insert", "acquire"} /\ place' = place
    BY <1>24, <1>0, Zenon DEF HandlerWakesItself, Queues
  <2>2. "QUEUED" \in state => "QUEUED" \in state'
    BY <1>24, Zenon DEF HandlerWakesItself
  <2> QED
    BY <2>1, <2>2, <1>k
<1>25. CASE HandlerDestroys(a)
  <2>1. pc'[a] \notin {"insert", "kill_insert", "acquire"} /\ place' = place
    BY <1>25, <1>0, Zenon DEF HandlerDestroys, Goto
  <2>2. "QUEUED" \in state => "QUEUED" \in state'
    BY <1>25 DEF HandlerDestroys
  <2> QED
    BY <2>1, <2>2, <1>k
<1> QED
  BY <1>1, <1>2, <1>3, <1>4, <1>5, <1>6, <1>7, <1>8, <1>9, <1>10, <1>11,
     <1>12, <1>13, <1>14, <1>15, <1>16, <1>17, <1>18, <1>19, <1>20, <1>21,
     <1>22, <1>23, <1>24, <1>25, Zenon
  DEF Step, Inside, Loop, Call

(* A thread that goes on does not begin a call of the user. *)
LEMMA GotoCall ==
  ASSUME call \in [Threads -> BOOLEAN], NEW a \in Threads, NEW l, Goto(a, l)
  PROVE  call'[a] => call[a]
<1>1. call'[a] = (call[a] /\ l # "idle")
  BY Zenon DEF Goto
<1> QED
  BY <1>1

(* Only task_destroy() marks a task as dead, and nobody calls on it then   *)
(* or later.                                                               *)
LEMMA DeathMoves ==
  ASSUME IInv, NEW a \in Threads, Step(a)
  PROVE  /\ "KILLED" \in state' => "KILLED" \in state \/ ~Alive'
         /\ process' \/ ~process \/ ~Alive'
         /\ freed' => freed \/ ~Alive'
         /\ call'[a] => call[a] \/ (Alive /\ Alive')
         /\ Alive' \/ ~Alive \/ \A q \in Threads : ~call[q]
<1>00. \A l : Goto(a, l) => (call'[a] => call[a])
  <2>1. call \in [Threads -> BOOLEAN]
    BY There DEF IInv, Types, PlacesOK
  <2> QED
    BY <2>1, GotoCall, Zenon
<1>0. \A l : [call EXCEPT ![a] = l][a] = l
  BY There DEF IInv, Types
<1>1. CASE Wake(a)
  <2>1. loc[a].f \subseteq Woken
    BY LocalsTyped DEF IInv, Types
  <2> QED
    BY <1>1, <1>0, <2>1, Zenon
    DEF Wake, WakeTest, Goto, Queues, Outside, Alive, Woken
<1>2. CASE Rewake(a)
  <2>1. call'[a] => call[a]
    BY <1>2, <1>00, Zenon DEF Rewake, GotoRet, WakeTest
  <2>2. "KILLED" \in state' => "KILLED" \in state
    BY <1>2 DEF Rewake, WakeTest
  <2> QED
    BY <1>2, <2>1, <2>2, Zenon DEF Rewake, Queues, Outside, Alive, WakeTest
<1>3. CASE WakeCas(a)
  <2>1. call'[a] => call[a]
    BY <1>3, <1>00, Zenon DEF WakeCas, GotoRet
  <2>2. "KILLED" \in state' => "KILLED" \in state
    BY <1>3 DEF WakeCas
  <2> QED
    BY <1>3, <2>1, <2>2, Zenon DEF WakeCas, Queues, Outside, Alive
<1>4. CASE Insert(a)
  BY <1>4, <1>0, Zenon DEF Insert, Queues, Outside, Goto, GotoRet, Alive
<1>5. CASE TakeOwnership(a)
  <2>1. call'[a] => call[a]
    BY <1>5, <1>00, Zenon DEF TakeOwnership, GotoRet
  <2>2. "KILLED" \in state' => "KILLED" \in state
    BY <1>5 DEF TakeOwnership
  <2> QED
    BY <1>5, <2>1, <2>2, Zenon DEF TakeOwnership, Queues, Outside, Alive
<1>6. CASE WqInsert(a)
  BY <1>6, <1>0, Zenon DEF WqInsert, Queues, Outside, Goto, GotoRet, Alive
<1>7. CASE DropLoad(a)
  BY <1>7, <1>0, Zenon DEF DropLoad, Queues, Outside, Goto, GotoRet, Alive
<1>8. CASE DropCas(a)
  <2>1. loc[a].f \subseteq Woken
    BY LocalsTyped DEF IInv, Types
  <2>2. "KILLED" \in state' => "KILLED" \in state
    BY <1>8, <2>1, SMTT(30) DEF DropCas, Woken
  <2> QED
    BY <1>8, <1>0, <2>2, Zenon DEF DropCas, Goto, GotoRet, Queues, Outside, Alive
<1>9. CASE Acquire(a)
  <2>1. "KILLED" \in state' => "KILLED" \in state
    BY <1>9 DEF Acquire
  <2> QED
    BY <1>9, <1>0, <2>1, Zenon DEF Acquire, Goto, GotoRet, Queues, Outside, Alive
<1>10. CASE FreeTask(a)
  <2>1. ~Alive
    BY <1>10, Here, Zenon DEF FreeTask, At
  <2> QED
    BY <1>10, <1>0, <2>1, Zenon DEF FreeTask, Goto, Outside, Alive
<1>11. CASE Queued(a)
  BY <1>11, <1>0, Zenon DEF Queued, Queues, Outside, Goto, GotoRet, Alive
<1>12. CASE Handler(a)
  BY <1>12, <1>0, Zenon DEF Handler, Queues, Outside, Goto, GotoRet, Alive
<1>13. CASE Ran(a)
  BY <1>13, <1>0, Zenon DEF Ran, Queues, Outside, Goto, GotoRet, Alive
<1>14. CASE HandOver(a)
  <2>1. call'[a] => call[a]
    BY <1>14, <1>00, Zenon DEF HandOver, GotoRet
  <2>2. "KILLED" \in state' => "KILLED" \in state
    BY <1>14 DEF HandOver
  <2> QED
    BY <1>14, <2>1, <2>2, Zenon DEF HandOver, Queues, Outside, Alive
<1>15. CASE SchedLock(a)
  <2>1. call'[a] => call[a]
    BY <1>15, <1>00, Zenon DEF SchedLock, GotoRet
  <2>2. "KILLED" \in state' => "KILLED" \in state
    BY <1>15 DEF SchedLock
  <2> QED
    BY <1>15, <2>1, <2>2, Zenon DEF SchedLock, Queues, Outside, Alive
<1>16. CASE SchedSet(a)
  BY <1>16, <1>0, Zenon DEF SchedSet, Queues, Outside, Goto, GotoRet, Alive
<1>17. CASE KillInsert(a)
  BY <1>17, <1>0, Zenon DEF KillInsert, Queues, Outside, Goto, GotoRet, Alive
<1>18. CASE Pick(a)
  BY <1>18, <1>0, Zenon DEF Pick, Queues, Outside, Goto, GotoRet, Alive
<1>19. CASE Unlist(a)
  BY <1>19, <1>0, Zenon DEF Unlist, Queues, Outside, Goto, GotoRet, Alive
<1>20. CASE Expire(a)
  BY <1>20, <1>0, Zenon DEF Expire, Queues, Outside, Goto, GotoRet, Alive
<1>21. CASE task_wakeup(a)
  BY <1>21, <1>0 DEF task_wakeup, MayCall, Queues, Outside, Goto, GotoRet, Alive
<1>22. CASE task_schedule(a)
  BY <1>22, <1>0, Zenon DEF task_schedule, MayCall, Queues, Outside, Goto, GotoRet, Alive
<1>23. CASE task_destroy(a)
  <2>1. ~Alive' /\ call' = call /\ \A q \in Threads : ~call[q]
    BY <1>23, Zenon DEF task_destroy, Doom, Alive
  <2> QED
    BY <2>1, Zenon
<1>24. CASE HandlerWakesItself(a)
  BY <1>24, <1>0 DEF HandlerWakesItself, Queues, Outside, Goto, GotoRet, Alive
<1>25. CASE HandlerDestroys(a)
  <2>1. ~Alive' /\ \A q \in Threads : ~call[q]
    BY <1>25 DEF HandlerDestroys, Doom, Alive
  <2> QED
    BY <1>25, <1>0, <2>1, Zenon DEF HandlerDestroys, Goto
<1> QED
  BY <1>1, <1>2, <1>3, <1>4, <1>5, <1>6, <1>7, <1>8, <1>9, <1>10, <1>11,
     <1>12, <1>13, <1>14, <1>15, <1>16, <1>17, <1>18, <1>19, <1>20, <1>21,
     <1>22, <1>23, <1>24, <1>25, Zenon
  DEF Step, Inside, Loop, Call

(* No step is made for a task that was released. *)
LEMMA StepNotFreed ==
  ASSUME IInv, NEW a \in Threads, Step(a)
  PROVE  ~freed
<1> SUFFICES ASSUME freed PROVE FALSE
  OBVIOUS
<1>1. pc[a] = "idle" /\ place = {} /\ ~InWq /\ ~Alive
  BY DEF IInv, Ends, FreedIsUnused, Quiet
<1>2. ~Inside(a)
  BY <1>1
  DEF Inside, Wake, Rewake, WakeCas, Insert, TakeOwnership, WqInsert, DropLoad,
      DropCas, Acquire, FreeTask, Queued, Handler, Ran, HandOver, SchedLock,
      SchedSet, KillInsert
<1>3. ~Loop(a)
  BY <1>1, Zenon DEF Loop, Pick, Unlist, Expire
<1>4. ~Call(a)
  BY <1>1, Zenon
  DEF Call, task_wakeup, task_schedule, task_destroy, MayCall, HandlerWakesItself,
      HandlerDestroys
<1> QED
  BY <1>2, <1>3, <1>4 DEF Step

(* A thread that does not own or run the task, has no right to link it and *)
(* is not called by its user has nothing to do with it.                    *)
LEMMA Bystander ==
  ASSUME IInv, NEW q \in Threads, ~call[q], ~Holds(q), ~Token(q), ~Mine(q)
  PROVE  pc[q] = "idle"
<1>1. At(q) /\ pc[q] \in Labels
  BY Here, There, Zenon DEF IInv, Types
<1> QED
  BY <1>1, Zenon DEF At, Labels, Runs, Holds, Token

(* The task is released by a thread that runs it after TASK_QUEUED was     *)
(* consumed or found it neither running nor queued, so all others are idle. *)
LEMMA FreedKept ==
  ASSUME IInv, NEW a \in Threads, Step(a), freed'
  PROVE  place' = {} /\ ~InWq' /\ Quiet'
<1>0. ~freed
  BY StepNotFreed
<1>1. FreeTask(a) \/ task_destroy(a) \/ HandlerDestroys(a)
  BY <1>0, Zenon
  DEF Step, Inside, Wake, Rewake, WakeTest, WakeCas, Insert, TakeOwnership,
      WqInsert, DropLoad, DropCas, Acquire, Queued, Handler, Ran, HandOver,
      SchedLock, SchedSet, KillInsert, Loop, Pick, Unlist, Expire, Call,
      task_wakeup, task_schedule, HandlerWakesItself, Queues
<1>2. pc'[a] = "idle" /\ place' = place /\ ~InWq'
  BY <1>0, <1>1, There, Zenon
  DEF FreeTask, task_destroy, MayCall, HandlerDestroys, Goto, InWq, IInv, Types
<1>3. "QUEUED" \notin state /\ (Holds(a) \/ "RUNNING" \notin state)
  BY <1>0, <1>1, Here, Zenon
  DEF FreeTask, task_destroy, HandlerDestroys, Busy, Consumed, Runs, Holds
<1>4. \A q \in Threads : ~call[q]
  BY <1>1, Here, Zenon DEF FreeTask, task_destroy, HandlerDestroys, At, IInv, Ends
<1>5. Mine(a) \/ tid = -1
  <2>1. CASE FreeTask(a)
    BY <2>1, Here, Zenon DEF FreeTask, At
  <2>2. CASE task_destroy(a) \/ HandlerDestroys(a)
    <3>1. tid = a
      BY <1>0, <2>2, Zenon DEF task_destroy, HandlerDestroys
    <3> QED
      BY <3>1, Here DEF Mine, Owner
  <2> QED
    BY <1>1, <2>1, <2>2
<1>6. ASSUME NEW q \in Threads, q # a PROVE pc'[q] = "idle"
  <2>1. ~Holds(q) /\ ~Token(q)
    BY <1>3, <1>6, Here, Zenon DEF IInv, Runner, Tokens
  <2>2. ~Mine(q)
    BY <1>5, <1>6, Here, Zenon DEF Mine
  <2> QED
    BY <1>4, <1>6, <2>1, <2>2, Bystander, OthersKept, Zenon DEF IInv, Types
<1> QED
  BY <1>2, <1>3, <1>6 DEF Quiet, IInv, Tokens

(* A task that is being destroyed stays so, and its memory is only         *)
(* released when nothing refers to it.                                     *)
LEMMA EndsKept ==
  ASSUME IInv, NEW a \in Threads, Step(a)
  PROVE  Ends'
<1>1. ("KILLED" \in state \/ ~process \/ freed => ~Alive)'
  BY DeathMoves, FieldsMove, Zenon DEF IInv, Ends
<1>2. ~Alive' => \A p \in Threads : ~call'[p]
  <2>1. \A p \in Threads \ {a} : call'[p] = call[p]
    BY OthersKept, Zenon DEF IInv, Types
  <2> QED
    BY <2>1, DeathMoves, Zenon DEF IInv, Ends
<1>3. InWq' => Owner(tid') = wq'[1]
  BY FieldsMove DEF InWq, Mine, IInv, Ends
<1>4. FreedIsUnused'
  BY FreedKept DEF FreedIsUnused
<1> QED
  BY <1>1, <1>2, <1>3, <1>4, SMTT(30) DEF Ends

(* What every step of a thread keeps, and the tick of the clock. *)
LEMMA Kept ==
  ASSUME IInv, [Next]_vars
  PROVE  IInv'
<1>1. CASE Tick
  <2>1. now' \in 1 .. MaxNow
    BY <1>1, SchedulerAssumption DEF Tick, IInv, Types, TaskOK
  <2>2. UNCHANGED <<state, tid, place, wq, expire, process, freed, dead, pc, ret, loc, call, calls>>
    BY <1>1, Zenon DEF Tick, Queues
  <2>3. Types'
    BY <2>1, <2>2, Zenon DEF IInv, Types, PlacesOK, LocalsOK, TaskOK
  <2>4. Tokens' /\ Runner'
    BY <2>2 DEF IInv, Tokens, Token, Runner, Holds, Consumed
  <2>5. Labelled'
    BY <2>2, ZenonT(30) DEF IInv, Labelled, At, Mine, Alive, InWq
  <2>6. Ends'
    BY <2>2, Zenon DEF IInv, Ends, Alive, InWq, FreedIsUnused, Quiet
  <2> QED
    BY <2>3, <2>4, <2>5, <2>6, Zenon DEF IInv
<1>2. ASSUME NEW p \in Threads, Step(p) PROVE IInv'
  <2>1. Types'
    BY <1>2, PlacesKept, LocalsKept, TaskKept, Here DEF IInv, Types
  <2> QED
    BY <1>2, <2>1, TokensKept, RunnerKept, LabelsKept, EndsKept DEF IInv
<1>3. CASE UNCHANGED vars
  <2>1. UNCHANGED <<state, tid, place, wq, expire, process, freed, dead, pc, ret, loc, call, now, calls>>
    BY <1>3 DEF vars
  <2>2. Types'
    BY <2>1 DEF IInv, Types, PlacesOK, LocalsOK, TaskOK
  <2>3. Tokens' /\ Runner'
    BY <2>1, Zenon DEF IInv, Tokens, Token, Runner, Holds, Consumed
  <2>4. Labelled'
    BY <2>1, ZenonT(30) DEF IInv, Labelled, At, Mine, Alive, InWq
  <2>5. Ends'
    BY <2>1, Zenon DEF IInv, Ends, Alive, InWq, FreedIsUnused, Quiet
  <2> QED
    BY <2>2, <2>3, <2>4, <2>5 DEF IInv
<1> QED
  BY <1>1, <1>2, <1>3 DEF Next, Step

(* No thread does anything with the task at first. *)
LEMMA Initially ==
  ASSUME Init
  PROVE  IInv
<1> USE SchedulerAssumption DEF Init
<1>1. PlacesOK
  BY Zenon DEF PlacesOK, Labels, Returns
<1>2. LocalsOK
  <2>1. [st |-> {}, tid |-> -1, f |-> {}, when |-> ETERNITY] \in Local
    BY DEF Local, Tids, Dates, ETERNITY
  <2> QED
    BY <2>1, Zenon DEF LocalsOK
<1>3. TaskOK
  <2>1. tid \in Tids /\ expire \in Dates /\ now \in 1 .. MaxNow /\ calls \in 0 .. MaxCalls
    BY DEF Tids, Dates, ETERNITY
  <2> QED
    BY <2>1, Zenon DEF TaskOK
<1>4. Tokens /\ Runner /\ Labelled
  BY Zenon DEF Tokens, Token, Runner, Holds, Consumed, Runs, Labelled, At
<1>5. Ends
  BY DEF Ends, Alive, InWq, FreedIsUnused
<1> QED
  BY <1>1, <1>2, <1>3, <1>4, <1>5 DEF IInv, Types

(* The inductive invariant: whatever wakeups, timers, handlers and calls   *)
(* do, the task is linked by one thread, run by one thread and owned.      *)
THEOREM SchedulerInvariant == Spec => []IInv
<1>1. Init => IInv
  BY Initially
<1>2. IInv /\ [Next]_vars => IInv'
  BY Kept
<1> QED
  BY <1>1, <1>2, PTL DEF Spec

(* TASK_RUNNING is a lock: one thread at a time runs the task, hands it    *)
(* over or schedules it, for any number of threads.                        *)
THEOREM TaskRunsOnOneThread == Spec => []OneRunner
<1>1. IInv => OneRunner
  BY DEF IInv, Runner, OneRunner
<1> QED
  BY <1>1, SchedulerInvariant, PTL

(* TASK_QUEUED: the task is in one run queue or list at most, or in the    *)
(* hands of the one thread that links it or took it out.                   *)
THEOREM TaskIsQueuedOnce == Spec => []QueuedOnce
<1>1. ASSUME IInv PROVE QueuedOnce
  <2> DEFINE T == {p \in Threads : pc[p] \in {"insert", "kill_insert", "acquire"}}
  <2>1. TypeOK
    BY <1>1, SchedulerAssumption
    DEF IInv, Types, TaskOK, TypeOK, Flags, Tids, Dates, Places, InWq
  <2>2. Cardinality(place) + Cardinality(T) <= 1
    <3>1. CASE T = {}
      <4>1. place = {} \/ \E x \in place : place = {x}
        BY <1>1 DEF IInv, Tokens
      <4>2. Cardinality(T) = 0
        BY <3>1, FS_EmptySet, Zenon
      <4>3. Cardinality(place) \in {0, 1}
        BY <4>1, FS_EmptySet, FS_Singleton, Zenon
      <4> HIDE DEF T
      <4> QED
        BY <4>2, <4>3
    <3>2. CASE T # {}
      <4>1. PICK p \in T : T = {p}
        BY <1>1, <3>2 DEF IInv, Tokens, Token
      <4>2. place = {}
        BY <1>1, <4>1 DEF IInv, Tokens, Token
      <4>3. Cardinality(place) = 0 /\ Cardinality(T) = 1
        BY <4>1, <4>2, FS_EmptySet, FS_Singleton, Zenon
      <4> HIDE DEF T
      <4> QED
        BY <4>3
    <3> QED
      BY <3>1, <3>2
  <2> QED
    BY <1>1, <2>1, <2>2, Zenon DEF QueuedOnce, IInv, Tokens, Ends
<1> QED
  BY <1>1, SchedulerInvariant, PTL

(* Once task_destroy() or the scheduler released the task, it is in no     *)
(* queue and no thread is inside a function that works on it.              *)
THEOREM FreedTaskIsUnused == Spec => []FreedIsUnused
<1>1. IInv => FreedIsUnused
  BY DEF IInv, Ends
<1> QED
  BY <1>1, SchedulerInvariant, PTL
=============================================================================
