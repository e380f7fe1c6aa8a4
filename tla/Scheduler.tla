----------------------------- MODULE Scheduler ------------------------------
(***************************************************************************)
(* The life of one task in the scheduler (task.c, task.h): it is woken up, *)
(* scheduled and killed by any thread while its owner thread runs it or    *)
(* finds its timer expired. Tasks only meet in the queues they are linked  *)
(* to, whose order is not modelled, so one task is enough.                 *)
(*                                                                         *)
(* A task is bound to a thread (tid >= 0) or shared: then tid is -1 while  *)
(* nobody owns it and -2 - thread otherwise. state and tid are changed     *)
(* together by one compare-and-swap; a load followed by a compare-and-swap *)
(* that fails when the loaded words changed is one step.                   *)
(***************************************************************************)
EXTENDS Integers, FiniteSets

CONSTANTS NbThread,     \* threads are 0 .. NbThread - 1
          InitTids,     \* the threads the task may be bound to, -1 for none
          Calls,        \* calls made on the task: "wakeup", "schedule",
                        \* "destroy", and "self" when its handler destroys it
          MaxCalls,     \* bound on the number of calls
          MaxNow        \* bound on the date

ASSUME SchedulerAssumption ==
  /\ NbThread \in Nat \ {0}
  /\ InitTids \subseteq -1 .. NbThread - 1
  /\ Calls \subseteq {"wakeup", "schedule", "destroy", "self"}
  /\ MaxCalls \in Nat /\ MaxNow \in Nat \ {0}

Threads == 0 .. NbThread - 1
ETERNITY == 0
Woken == {"OTHER", "TIMER", "WQ"}                        \* TASK_WOKEN_ANY
Busy == {"RUNNING", "QUEUED"}

VARIABLES state,    \* flags of the task
          tid,      \* the thread it is bound to, or its owner
          place,    \* run queues and lists it is linked in: <<kind, thread>>
          wq,       \* <<thread, key>> when it is in a wait queue, or <<>>
          expire,   \* date of its timer, or ETERNITY
          process,  \* FALSE once its function was reset
          freed,    \* whether its memory was released
          dead,     \* who asked for its destruction: the thread it is bound
                    \* to ("own"), another one ("other") or nobody ("no")
          pc,       \* the next step of each thread
          ret,      \* where a thread goes on after __task_queue or _task_wakeup
          loc,      \* locals of each thread: st, tid, f, when
          call,     \* whether the thread is inside a call made by the task's user
          now, calls

vars == <<state, tid, place, wq, expire, process, freed, dead, pc, ret, loc,
          call, now, calls>>

Init ==
  /\ state = {} /\ tid \in InitTids /\ place = {} /\ wq = <<>>
  /\ expire = ETERNITY /\ process = TRUE /\ freed = FALSE /\ dead = "no"
  /\ pc = [p \in Threads |-> "idle"]
  /\ ret = [p \in Threads |-> "idle"]
  /\ loc = [p \in Threads |-> [st |-> {}, tid |-> -1, f |-> {}, when |-> ETERNITY]]
  /\ call = [p \in Threads |-> FALSE]
  /\ now = 1 /\ calls = 0

(* __task_get_current_owner(), __task_get_new_tid_field() *)
Owner(id) == IF id >= -1 THEN id ELSE -2 - id
NewTid(p, id) == IF id = -1 THEN -2 - p ELSE id

Goto(p, l) == pc' = [pc EXCEPT ![p] = l] /\ call' = [call EXCEPT ![p] = @ /\ l # "idle"]
GotoRet(p, l, r) == Goto(p, l) /\ ret' = [ret EXCEPT ![p] = r]
Set(p, field, v) == [loc EXCEPT ![p][field] = v]

InWq == wq # <<>>
Alive == dead = "no"
Doom(p) == dead' = IF tid = p THEN "own" ELSE "other"
InRq == \E k \in {"rqueue", "rqueue_shared"}, p \in Threads : <<k, p>> \in place

(* _task_queue() keeps a place in the wait queue that is early enough. *)
MustQueue(e) == e # ETERNITY /\ (InWq => e < wq[2])

Queues == <<place, wq, expire, process, freed>>
Outside == <<dead, now, calls>>
-----------------------------------------------------------------------------
(* _task_wakeup() *)

(* The reason is added first; whoever runs or queued the task will see it. *)
WakeTest(p, f) ==
  /\ state' = state \cup f
  /\ loc' = Set(p, "st", state')
  /\ Goto(p, IF state' \cap Busy # {} THEN ret[p] ELSE "wake_cas")
  /\ UNCHANGED <<tid, Queues, ret, Outside>>

Wake(p) == pc[p] = "wake" /\ WakeTest(p, loc[p].f)
Rewake(p) == pc[p] = "rewake" /\ WakeTest(p, {})

(* The owner of the run is not looked at. *)
WakeCasBlind(p) ==
  /\ pc[p] = "wake_cas"
  /\ state' = state \cup {"QUEUED"}
  /\ tid' = NewTid(p, tid)
  /\ Goto(p, "insert")
  /\ UNCHANGED <<Queues, ret, loc, Outside>>

WakeCas(p) ==
  /\ pc[p] = "wake_cas"
  /\ IF state = loc[p].st
     THEN /\ state' = state \cup {"QUEUED"}
          /\ tid' = NewTid(p, tid)
          /\ Goto(p, "insert")
          /\ UNCHANGED loc
     ELSE /\ loc' = Set(p, "st", state)
          /\ Goto(p, IF state \cap Busy # {} THEN ret[p] ELSE "wake_cas")
          /\ UNCHANGED <<state, tid>>
  /\ UNCHANGED <<Queues, ret, Outside>>

(* __task_wakeup(): into the run queue of the owner, its shared one when   *)
(* it is another thread.                                                   *)
Insert(p) ==
  /\ pc[p] = "insert"
  /\ LET thr == Owner(tid) IN
     place' = place \cup {<<IF thr = p THEN "rqueue" ELSE "rqueue_shared", thr>>}
  /\ Goto(p, ret[p])
  /\ UNCHANGED <<state, tid, wq, expire, process, freed, ret, loc, Outside>>
-----------------------------------------------------------------------------
(* __task_queue(): only the owner touches its wait queue. Another thread   *)
(* leaves TASK_WOKEN_WQ and wakes the task up for that.                    *)

TakeOwnership(p) ==
  /\ pc[p] = "tq"
  /\ IF "KILLED" \in state
     THEN Goto(p, ret[p]) /\ UNCHANGED <<state, tid>>
     ELSE /\ tid' = NewTid(p, tid)
          /\ IF Owner(tid) \in {p, -1}
             THEN Goto(p, "wq_insert") /\ UNCHANGED state
             ELSE /\ state' = state \cup {"WQ"}
                  /\ Goto(p, IF "WQ" \in state THEN ret[p] ELSE "rewake")
  /\ UNCHANGED <<Queues, ret, loc, Outside>>

WqInsert(p) ==
  /\ pc[p] = "wq_insert"
  /\ wq' = <<p, expire>>
  /\ Goto(p, ret[p])
  /\ UNCHANGED <<state, tid, place, expire, process, freed, ret, loc, Outside>>
-----------------------------------------------------------------------------
(* task_drop_running(t, f) *)

DropLoad(p) ==
  /\ pc[p] = "drop"
  /\ loc' = [loc EXCEPT ![p].st = state, ![p].tid = tid]
  /\ IF "WQ" \in state /\ Owner(tid) = p /\ MustQueue(expire)
     THEN GotoRet(p, "tq", "drop_cas")
     ELSE GotoRet(p, "drop_cas", "idle")
  /\ UNCHANGED <<state, tid, Queues, Outside>>

DropCas(p) ==
  /\ pc[p] = "drop_cas"
  /\ LET mine == Owner(loc[p].tid) = p
         kept == ((loc[p].st \cup loc[p].f) \ {"RUNNING"}) \ (IF mine THEN {"WQ"} ELSE {})
         new  == IF kept \cap Woken # {} THEN kept \cup {"QUEUED"} ELSE kept
     IN  IF state = loc[p].st /\ tid = loc[p].tid
         THEN /\ state' = new
              /\ tid' = IF "QUEUED" \in new \/ tid >= 0 \/ InWq \/ ~mine THEN tid ELSE -1
              /\ GotoRet(p, IF "QUEUED" \in new \ state THEN "insert" ELSE "idle", "idle")
         ELSE GotoRet(p, "drop", "idle") /\ UNCHANGED <<state, tid>>
  /\ UNCHANGED <<Queues, loc, Outside>>
-----------------------------------------------------------------------------
(* The scheduler: process_runnable_tasks(), run_tasks_from_lists() *)

(* The shared run queue is not looked at. *)
PickLocal(p) ==
  /\ pc[p] = "idle"
  /\ \E k \in {"rqueue", "shared_list"} :
       /\ <<k, p>> \in place
       /\ place' = (place \ {<<k, p>>}) \cup {<<"list", p>>}
  /\ UNCHANGED <<state, tid, wq, expire, process, freed, pc, ret, loc, call, Outside>>

(* Run queues and remote wakeups are moved to the thread's own lists. *)
Pick(p) ==
  /\ pc[p] = "idle"
  /\ \E k \in {"rqueue", "rqueue_shared", "shared_list"} :
       /\ <<k, p>> \in place
       /\ place' = (place \ {<<k, p>>}) \cup {<<"list", p>>}
  /\ UNCHANGED <<state, tid, wq, expire, process, freed, pc, ret, loc, call, Outside>>

Unlist(p) ==
  /\ pc[p] = "idle" /\ <<"list", p>> \in place
  /\ place' = place \ {<<"list", p>>}
  /\ Goto(p, "acquire")
  /\ UNCHANGED <<state, tid, wq, expire, process, freed, ret, loc, Outside>>

(* The flag is taken although another thread holds it. *)
AcquireAnyway(p) ==
  /\ pc[p] = "acquire"
  /\ loc' = Set(p, "st", state)
  /\ state' = (state \cap {"KILLED"}) \cup {"RUNNING"}
  /\ Goto(p, IF "KILLED" \in state \/ ~process THEN "free" ELSE "handler")
  /\ UNCHANGED <<tid, Queues, ret, Outside>>

(* TASK_RUNNING is taken, reasons and TASK_QUEUED are consumed. *)
Acquire(p) ==
  /\ pc[p] = "acquire" /\ "RUNNING" \notin state
  /\ loc' = Set(p, "st", state)
  /\ state' = (state \cap {"KILLED"}) \cup {"RUNNING"}
  /\ IF "KILLED" \in state \/ ~process THEN GotoRet(p, "free", "idle")
     ELSE IF "WQ" \notin state THEN GotoRet(p, "handler", "idle")
     ELSE IF MustQueue(expire) THEN GotoRet(p, "tq", "queued")
     ELSE GotoRet(p, "queued", "idle")
  /\ UNCHANGED <<tid, Queues, Outside>>

FreeTask(p) ==
  /\ pc[p] = "free"
  /\ wq' = <<>> /\ freed' = TRUE
  /\ Goto(p, "idle")
  /\ UNCHANGED <<state, tid, place, expire, process, ret, loc, Outside>>

(* Woken up for the wait queue: the handler runs if there is more. *)
Queued(p) ==
  /\ pc[p] = "queued"
  /\ Goto(p, IF loc[p].st \cap Woken = {"WQ"} THEN "drop" ELSE "handler")
  /\ loc' = Set(p, "f", {})
  /\ UNCHANGED <<state, tid, Queues, ret, Outside>>

(* t->process(): the handler sets its timer. *)
Handler(p) ==
  /\ pc[p] = "handler"
  /\ expire' \in {ETERNITY, now + 1}
  /\ Goto(p, "ran")
  /\ UNCHANGED <<state, tid, place, wq, process, freed, ret, loc, Outside>>

HandlerWakesItself(p) ==
  /\ pc[p] = "handler" /\ "wakeup" \in Calls /\ calls < MaxCalls
  /\ calls' = calls + 1
  /\ state' = state \cup {"OTHER"}
  /\ UNCHANGED <<tid, Queues, dead, pc, ret, loc, call, now>>

(* The handler calls task_destroy() and returns NULL. *)
HandlerDestroys(p) ==
  /\ pc[p] = "handler" /\ "self" \in Calls /\ Alive
  /\ \A q \in Threads : ~call[q]
  /\ Doom(p)
  /\ IF tid = p THEN wq' = <<>> /\ freed' = TRUE /\ UNCHANGED state
     ELSE state' = state \cup {"KILLED"} /\ UNCHANGED <<wq, freed>>
  /\ Goto(p, "idle")
  /\ UNCHANGED <<tid, place, expire, process, ret, loc, now, calls>>

Ran(p) ==
  /\ pc[p] = "ran"
  /\ loc' = Set(p, "f", {})
  /\ IF "KILLED" \in state THEN GotoRet(p, "free", "idle")
     ELSE IF Owner(tid) = p /\ MustQueue(expire) THEN GotoRet(p, "tq", "drop")
     ELSE GotoRet(p, "drop", "idle")
  /\ UNCHANGED <<state, tid, Queues, Outside>>
-----------------------------------------------------------------------------
(* wake_expired_tasks() *)

Due == expire # ETERNITY /\ expire <= now

(* An entry whose key is not its date any more is left where it is. *)
ExpireExact(p) ==
  /\ pc[p] = "idle" /\ InWq /\ wq[1] = p
  /\ Due /\ expire = wq[2]
  /\ wq' = <<>>
  /\ loc' = Set(p, "f", {"TIMER"})
  /\ GotoRet(p, "wake", "idle")
  /\ UNCHANGED <<state, tid, place, expire, process, freed, Outside>>

(* The first entry is expired, or its key is not its date any more. *)
Expire(p) ==
  /\ pc[p] = "idle" /\ InWq /\ wq[1] = p
  /\ Due \/ expire # wq[2]
  /\ wq' = <<>>
  /\ loc' = Set(p, "f", IF Due THEN {"TIMER"} ELSE {})
  /\ \E l \in IF Due THEN {"wake"} \cup (IF tid < 0 /\ NbThread > 1 THEN {"hand_over"} ELSE {})
              ELSE IF expire # ETERNITY THEN {"tq"} ELSE {"idle"} :
       GotoRet(p, l, "idle")
  /\ UNCHANGED <<state, tid, place, expire, process, freed, Outside>>

(* An expired shared task is given to a less loaded thread, with           *)
(* TASK_RUNNING so that it does not run there before we are done with it.  *)
HandOver(p) ==
  /\ pc[p] = "hand_over"
  /\ IF state \cap Busy # {} THEN Goto(p, "wake") /\ UNCHANGED <<state, tid>>
     ELSE /\ \E q \in Threads \ {p} : tid' = -2 - q
          /\ state' = state \cup {"RUNNING"}
          /\ Goto(p, "drop")
  /\ UNCHANGED <<Queues, ret, loc, Outside>>
-----------------------------------------------------------------------------
(* Calls made by the user of the task. *)

MayCall(p, c) ==
  /\ pc[p] = "idle" /\ c \in Calls /\ calls < MaxCalls /\ Alive
  /\ calls' = calls + 1

task_wakeup(p) ==
  /\ MayCall(p, "wakeup")
  /\ loc' = Set(p, "f", {"OTHER"})
  /\ pc' = [pc EXCEPT ![p] = "wake"] /\ ret' = [ret EXCEPT ![p] = "idle"]
  /\ call' = [call EXCEPT ![p] = TRUE]
  /\ UNCHANGED <<state, tid, Queues, dead, now>>

(* task_schedule(t, when): nothing is done for a task in a run queue. *)
task_schedule(p) ==
  /\ MayCall(p, "schedule")
  /\ tid >= 0 => tid = p
  /\ ~InRq
  /\ \E w \in 1 .. 2 : loc' = [loc EXCEPT ![p].when = now + w, ![p].f = {}]
  /\ pc' = [pc EXCEPT ![p] = "sched"]
  /\ call' = [call EXCEPT ![p] = TRUE]
  /\ UNCHANGED <<state, tid, Queues, dead, ret, now>>

(* TASK_RUNNING serves as a lock on shared tasks. *)
SchedLock(p) ==
  /\ pc[p] = "sched"
  /\ IF tid >= 0 THEN GotoRet(p, "sched_set", "idle") /\ UNCHANGED <<state, loc>>
     ELSE IF "RUNNING" \in state
     THEN GotoRet(p, "wake", "idle") /\ loc' = Set(p, "f", {"OTHER"}) /\ UNCHANGED state
     ELSE /\ state' = state \cup {"RUNNING"}
          /\ GotoRet(p, "sched_set", "drop")
          /\ UNCHANGED loc
  /\ UNCHANGED <<tid, Queues, Outside>>

SchedSet(p) ==
  /\ pc[p] = "sched_set"
  /\ LET w == IF InWq /\ expire # ETERNITY /\ expire < loc[p].when
              THEN expire ELSE loc[p].when IN
     /\ expire' = w
     /\ Goto(p, IF MustQueue(w) THEN "tq" ELSE ret[p])
  /\ UNCHANGED <<state, tid, place, wq, process, freed, ret, loc, Outside>>

(* The task is released whether it is queued or not. *)
DestroyAtOnce(p) ==
  /\ MayCall(p, "destroy")
  /\ \A q \in Threads : ~call[q]
  /\ Doom(p) /\ wq' = <<>> /\ freed' = TRUE
  /\ UNCHANGED <<state, tid, place, expire, process, pc, ret, loc, call, now>>

(* task_destroy(): its caller is the only one that may still use the task, *)
(* apart from the scheduler. A task of another thread, and any shared      *)
(* task, goes through task_kill().                                         *)
task_destroy(p) ==
  /\ MayCall(p, "destroy")
  /\ \A q \in Threads : ~call[q]
  /\ Doom(p)
  /\ IF tid = p
     THEN /\ wq' = <<>>
          /\ freed' = (state \cap Busy = {})
          /\ process' = (state \cap Busy = {})
          /\ UNCHANGED <<state, pc>>
     ELSE /\ state' = state \cup (IF state \cap Busy = {} THEN {"QUEUED", "KILLED"} ELSE {"KILLED"})
          /\ pc' = [pc EXCEPT ![p] = IF state \cap Busy = {} THEN "kill_insert" ELSE "idle"]
          /\ UNCHANGED <<wq, freed, process>>
  /\ UNCHANGED <<tid, place, expire, ret, loc, call, now>>

(* The killed task bypasses the run queue. *)
KillInsert(p) ==
  /\ pc[p] = "kill_insert"
  /\ place' = place \cup {<<"shared_list", IF tid = -1 THEN p ELSE Owner(tid)>>}
  /\ Goto(p, "idle")
  /\ UNCHANGED <<state, tid, wq, expire, process, freed, ret, loc, Outside>>

Tick ==
  /\ now < MaxNow
  /\ now' = now + 1
  /\ UNCHANGED <<state, tid, Queues, dead, pc, ret, loc, call, calls>>

Inside(p) ==
  \/ Wake(p) \/ Rewake(p) \/ WakeCas(p) \/ Insert(p)
  \/ TakeOwnership(p) \/ WqInsert(p) \/ DropLoad(p) \/ DropCas(p)
  \/ Acquire(p) \/ FreeTask(p) \/ Queued(p) \/ Handler(p) \/ Ran(p)
  \/ HandOver(p) \/ SchedLock(p) \/ SchedSet(p) \/ KillInsert(p)

Loop(p) == Pick(p) \/ Unlist(p) \/ Expire(p)

Call(p) ==
  \/ task_wakeup(p) \/ task_schedule(p) \/ task_destroy(p)
  \/ HandlerWakesItself(p) \/ HandlerDestroys(p)

Next == Tick \/ \E p \in Threads : Inside(p) \/ Loop(p) \/ Call(p)

Spec == Init /\ [][Next]_vars

(* Threads run, and come back to their queues again and again. *)
FairSpec == Spec /\ \A p \in Threads : WF_vars(Inside(p)) /\ WF_vars(Pick(p) \/ Unlist(p)) /\ WF_vars(Expire(p))
-----------------------------------------------------------------------------
TypeOK ==
  /\ state \subseteq {"RUNNING", "QUEUED", "KILLED"} \cup Woken
  /\ tid \in -1 - NbThread .. NbThread - 1
  /\ place \subseteq {"rqueue", "rqueue_shared", "shared_list", "list"} \X Threads
  /\ InWq => wq \in Threads \X (1 .. MaxNow + 2)
  /\ expire \in 0 .. MaxNow + 2
  /\ now \in 1 .. MaxNow /\ calls \in 0 .. MaxCalls

(* Threads between the taking of TASK_RUNNING and its release. *)
Holds(p) ==
  \/ pc[p] \in {"free", "handler", "ran", "queued", "drop", "drop_cas"}
  \/ pc[p] = "sched_set" /\ ret[p] = "drop"
  \/ pc[p] \in {"tq", "rewake", "wake_cas", "wq_insert"} /\ ret[p] # "idle"

(* TASK_RUNNING is a lock: one thread at a time runs the task, moves it to *)
(* another thread or changes its timer.                                    *)
OneRunner ==
  /\ \A p, q \in Threads : Holds(p) /\ Holds(q) => p = q
  /\ ~freed /\ (\E p \in Threads : Holds(p)) => "RUNNING" \in state

(* No run queue or list is ever given a task that is already linked, or    *)
(* that another thread owns (the storage of both links is the same), and   *)
(* only the owner has it in its wait queue, which nobody locks.            *)
QueuedOnce ==
  /\ TypeOK
  /\ Cardinality(place) + Cardinality({p \in Threads : pc[p] \in {"insert", "kill_insert", "acquire"}}) <= 1
  /\ \A x \in place : tid # -1 => x[2] = Owner(tid)
  /\ InWq => Owner(tid) = wq[1]

Quiet == \A p \in Threads : pc[p] = "idle"

(* The memory is released when nothing refers to the task any more. *)
FreedIsUnused ==
  freed => place = {} /\ ~InWq /\ Quiet

(* The same of any task, whoever destroyed it and wherever it was.         *)
KilledIsFreed == Quiet /\ ~Alive => freed \/ place # {} \/ InWq

(* A wakeup is followed by a run. *)
WakeupRuns == ("OTHER" \in state /\ Alive) ~> ("OTHER" \notin state \/ ~Alive)

(* A timer that expired is followed by a run, or moved. *)
TimerRuns == (Due /\ Alive) ~> (~Due \/ ~Alive)

(* A task that its own thread destroyed is released. *)
DestroyEnds == dead = "own" ~> freed
=============================================================================
