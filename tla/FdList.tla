-------------------------------- MODULE FdList -------------------------------
(***************************************************************************)
(* The shared list of polling updates of a thread group (update_list of    *)
(* src/src/fd.c): a doubly linked list without a lock, to which a thread   *)
(* adds the FD of a listener when it enables it, and which every thread of *)
(* the group scans before it polls. The last thread that has seen an       *)
(* update removes the FD from the list.                                    *)
(*                                                                         *)
(* Links are the integers of the code: an FD, -1 for the end of the list,  *)
(* -2 for a locked link, and in "next" -(n + 4) for an FD that is out of   *)
(* the list and was followed by n (-3: by nothing). An entry is locked     *)
(* with one compare-and-swap of both links (HA_CAS_IS_8B). One atomic      *)
(* access to shared memory is one step; a load and the compare-and-swap    *)
(* that confirms it are one.                                               *)
(***************************************************************************)
EXTENDS Integers, Sequences

CONSTANTS Threads,     \* the threads of the group: all enabled, all poll every FD
          NFds,        \* the FDs are 0 .. NFds - 1
          Starts       \* the situations to start from

(* A situation: how many FDs are listeners', the update masks of those in  *)
(* the list, in its order, and bounds on the calls to come.                *)
ASSUME FdListAssumption ==
  /\ NFds \in Nat \ {0}
  /\ \A s \in Starts : /\ s.fds \in 1 .. NFds /\ s.masks \in Seq(SUBSET Threads) /\ Len(s.masks) <= s.fds
                       /\ s.updates \in Nat /\ s.stops \in Nat /\ s.closes \in Nat

VARIABLES
  next, prev,    \* fdtab[].update
  first, last,   \* update_list[]
  umask,         \* fdtab[].update_mask
  open,          \* the FD has a group, so that fd_grab_tgid() succeeds
  active,        \* FD_EV_ACTIVE_R
  locked,        \* per FD: an operation of its listener is in progress
  seen,          \* per thread and FD: the FD is in its epoll instance
  updt,          \* per thread: the FDs in its own list, fd_updt
  th,            \* per thread: where it is and its local variables
  updates, stops, closes  \* fd_want_recv(), fd_stop_recv(), _fd_delete_orphan(): calls left
vars == <<next, prev, first, last, umask, open, active, locked, seen, updt, th, updates, stops, closes>>
list == <<next, prev, first, last>>

Fds == 0 .. NFds - 1
Idle == [pc |-> "run", fd |-> -1, n |-> -1, p |-> -1, old |-> -1, then |-> "run"]

(* The FDs in the list were enabled before; a thread polls those that it   *)
(* has seen. FDs that are not a listener's stay locked.                    *)
Init == \E s \in Starts : LET k == Len(s.masks) IN
  /\ next = [f \in Fds |-> IF f >= k THEN -3 ELSE IF f = k - 1 THEN -1 ELSE f + 1]
  /\ prev = [f \in Fds |-> IF f >= k THEN 0 ELSE f - 1]
  /\ first = (IF k = 0 THEN -1 ELSE 0) /\ last = k - 1
  /\ umask = [f \in Fds |-> IF f < k THEN s.masks[f + 1] ELSE {}]
  /\ open = [f \in Fds |-> f < s.fds] /\ active = [f \in Fds |-> f < k]
  /\ locked = [f \in Fds |-> f >= s.fds]
  /\ seen = [t \in Threads |-> [f \in Fds |-> active[f] /\ t \notin umask[f]]]
  /\ updt = [t \in Threads |-> {}]
  /\ th = [t \in Threads |-> Idle]
  /\ updates = s.updates /\ stops = s.stops /\ closes = s.closes

At(t, pc) == th[t].pc = pc
Goto(t, pc) == th' = [th EXCEPT ![t].pc = pc]
Call(t, pc, then) == th' = [th EXCEPT ![t].pc = pc, ![t].then = then]
(* A step of the list functions. *)
Links(n, p, f, l) ==
  /\ next' = n /\ prev' = p /\ first' = f /\ last' = l
  /\ UNCHANGED <<umask, open, active, locked, seen, updt, updates, stops, closes>>
Elsewhere == UNCHANGED <<list, updates, stops, closes>>

(* fd_add_to_fd_list() *)

(* Already in the list: nothing to do. Otherwise lock ourselves. *)
AddLock(t) == LET f == th[t].fd IN
  /\ At(t, "add") /\ next[f] # -2
  /\ IF next[f] > -2 THEN Links(next, prev, first, last) /\ Goto(t, th[t].then)
     ELSE Links([next EXCEPT ![f] = -2], prev, first, last) /\ Goto(t, "add_last")

LoadLast(t) ==
  /\ At(t, "add_last")
  /\ Links(next, [prev EXCEPT ![th[t].fd] = -2], first, last)
  /\ th' = [th EXCEPT ![t].pc = "add_cas", ![t].p = last]

(* Without a look at the link of the last one. *)
AddBlind(t) == LET f == th[t].fd  l == th[t].p IN
  /\ At(t, "add_cas")
  /\ \/ /\ l = -1 /\ last = -1
        /\ Links(next, prev, first, f) /\ Goto(t, "add_first")
     \/ /\ l # -1
        /\ Links([next EXCEPT ![l] = f], prev, first, last) /\ Goto(t, "add_setlast")
     \/ /\ l = -1 /\ last # -1
        /\ Links(next, prev, first, last) /\ Goto(t, "add_last")

(* Behind the last one, that is not locked and has no next. *)
AddCas(t) == LET f == th[t].fd  l == th[t].p IN
  /\ At(t, "add_cas")
  /\ \/ /\ l = -1 /\ last = -1
        /\ Links(next, prev, first, f) /\ Goto(t, "add_first")
     \/ /\ l # -1 /\ next[l] = -1
        /\ Links([next EXCEPT ![l] = f], prev, first, last) /\ Goto(t, "add_setlast")
     \/ /\ IF l = -1 THEN last # -1 ELSE next[l] # -1
        /\ Links(next, prev, first, last) /\ Goto(t, "add_last")

SetFirst(t) == At(t, "add_first") /\ Links(next, prev, th[t].fd, last) /\ Goto(t, "add_prev")
SetLast(t) == At(t, "add_setlast") /\ Links(next, prev, first, th[t].fd) /\ Goto(t, "add_prev")
SetPrev(t) ==
  /\ At(t, "add_prev")
  /\ Links(next, [prev EXCEPT ![th[t].fd] = th[t].p], first, last) /\ Goto(t, "add_next")
SetEnd(t) ==
  /\ At(t, "add_next")
  /\ Links([next EXCEPT ![th[t].fd] = -1], prev, first, last) /\ Goto(t, th[t].then)

fd_add_to_fd_list(t) ==
  AddLock(t) \/ LoadLast(t) \/ AddCas(t) \/ SetFirst(t) \/ SetLast(t) \/ SetPrev(t) \/ SetEnd(t)

(* fd_rm_from_fd_list() *)

(* Not in the list: nothing to do. Otherwise lock our two links. *)
LockSelf(t) == LET f == th[t].fd IN
  /\ At(t, "rm")
  /\ \/ /\ next[f] <= -3
        /\ Links(next, prev, first, last) /\ Goto(t, th[t].then)
     \/ /\ next[f] >= -1 /\ prev[f] # -2
        /\ Links([next EXCEPT ![f] = -2], [prev EXCEPT ![f] = -2], first, last)
        /\ th' = [th EXCEPT ![t].pc = "rm_prev", ![t].n = next[f], ![t].p = prev[f]]

(* Lock the links of the neighbours to us, or give up when one is locked. *)
LockPrev(t) == LET f == th[t].fd  p == th[t].p IN
  /\ At(t, "rm_prev")
  /\ \/ p = -1 /\ Links(next, prev, first, last) /\ Goto(t, "rm_next")
     \/ p # -1 /\ next[p] = f
        /\ Links([next EXCEPT ![p] = -2], prev, first, last) /\ Goto(t, "rm_next")
     \/ p # -1 /\ next[p] = -2 /\ Links(next, prev, first, last) /\ Goto(t, "undo_prev")

LockNext(t) == LET f == th[t].fd  n == th[t].n IN
  /\ At(t, "rm_next")
  /\ \/ n = -1 /\ Links(next, prev, first, last) /\ Goto(t, "rm_first")
     \/ n # -1 /\ prev[n] = f
        /\ Links(next, [prev EXCEPT ![n] = -2], first, last) /\ Goto(t, "rm_first")
     \/ n # -1 /\ prev[n] = -2
        /\ Links(next, prev, first, last) /\ Goto(t, IF th[t].p = -1 THEN "undo_prev" ELSE "undo_neigh")

UndoNeighbour(t) ==
  /\ At(t, "undo_neigh")
  /\ Links([next EXCEPT ![th[t].p] = th[t].fd], prev, first, last) /\ Goto(t, "undo_prev")
UndoPrev(t) ==
  /\ At(t, "undo_prev")
  /\ Links(next, [prev EXCEPT ![th[t].fd] = th[t].p], first, last) /\ Goto(t, "undo_next")
UndoNext(t) ==
  /\ At(t, "undo_next")
  /\ Links([next EXCEPT ![th[t].fd] = th[t].n], prev, first, last) /\ Goto(t, "rm")

TestFirst(t) ==
  /\ At(t, "rm_first")
  /\ Links(next, prev, first, last) /\ Goto(t, IF first = th[t].fd THEN "rm_setfirst" ELSE "rm_last")
MoveFirst(t) == At(t, "rm_setfirst") /\ Links(next, prev, th[t].n, last) /\ Goto(t, "rm_last")
MoveLast(t) ==
  /\ At(t, "rm_last")
  /\ Links(next, prev, first, IF last = th[t].fd THEN th[t].p ELSE last) /\ Goto(t, "rm_unprev")

FreePrev(t) ==
  /\ At(t, "rm_unprev")
  /\ Links(IF th[t].p = -1 THEN next ELSE [next EXCEPT ![th[t].p] = th[t].n], prev, first, last)
  /\ Goto(t, "rm_unnext")
FreeNext(t) ==
  /\ At(t, "rm_unnext")
  /\ Links(next, IF th[t].n = -1 THEN prev ELSE [prev EXCEPT ![th[t].n] = th[t].p], first, last)
  /\ Goto(t, "rm_out")

(* Out of the list: a thread that scans it still finds what followed. *)
LeaveList(t) ==
  /\ At(t, "rm_out")
  /\ Links([next EXCEPT ![th[t].fd] = -(th[t].n + 4)], prev, first, last) /\ Goto(t, th[t].then)

fd_rm_from_fd_list(t) ==
  \/ LockSelf(t) \/ LockPrev(t) \/ LockNext(t) \/ UndoNeighbour(t) \/ UndoPrev(t) \/ UndoNext(t)
  \/ TestFirst(t) \/ MoveFirst(t) \/ MoveLast(t) \/ FreePrev(t) \/ FreeNext(t) \/ LeaveList(t)

(* The operations of a listener on its FD, one at a time (LISTENER_LOCK). *)

(* Stopping leaves the pollers as they are, wanting tells them. *)
fd_stop_recv(t, f) ==
  /\ At(t, "run") /\ open[f] /\ ~locked[f] /\ active[f] /\ stops > 0
  /\ active' = [active EXCEPT ![f] = FALSE] /\ stops' = stops - 1
  /\ UNCHANGED <<list, umask, open, locked, seen, updt, th, updates, closes>>
fd_want_recv(t, f) ==
  /\ At(t, "run") /\ open[f] /\ ~locked[f] /\ ~active[f] /\ updates > 0
  /\ active' = [active EXCEPT ![f] = TRUE]
  /\ locked' = [locked EXCEPT ![f] = TRUE] /\ updates' = updates - 1
  /\ th' = [th EXCEPT ![t].pc = "updt", ![t].fd = f]
  /\ UNCHANGED <<list, umask, open, seen, updt, stops, closes>>

(* One thread that still has an update to see is enough. *)
AnyUpdate(t) == LET f == th[t].fd IN
  /\ At(t, "updt")
  /\ IF umask[f] # {} THEN UNCHANGED umask /\ Goto(t, "unlock")
     ELSE umask' = [umask EXCEPT ![f] = Threads] /\ Call(t, "add", "unlock")
  /\ UNCHANGED <<open, active, locked, seen, updt>> /\ Elsewhere

(* Every thread has to see the update, unless all have one to see already. *)
updt_fd_polling(t) == LET f == th[t].fd IN
  /\ At(t, "updt")
  /\ IF umask[f] = Threads THEN UNCHANGED umask /\ Goto(t, "unlock")
     ELSE umask' = [umask EXCEPT ![f] = Threads] /\ Call(t, "add", "unlock")
  /\ UNCHANGED <<open, active, locked, seen, updt>> /\ Elsewhere

Unlock(t) ==
  /\ At(t, "unlock")
  /\ locked' = [locked EXCEPT ![th[t].fd] = FALSE]
  /\ th' = [th EXCEPT ![t] = Idle]
  /\ UNCHANGED <<umask, open, active, seen, updt>> /\ Elsewhere

(* _fd_delete_orphan(): nobody can take a reference any more. *)
Close(t, f) ==
  /\ At(t, "run") /\ open[f] /\ ~locked[f] /\ closes > 0
  /\ open' = [open EXCEPT ![f] = FALSE] /\ locked' = [locked EXCEPT ![f] = TRUE]
  /\ closes' = closes - 1
  /\ th' = [th EXCEPT ![t].pc = "close", ![t].fd = f]
  /\ UNCHANGED <<list, umask, active, seen, updt, updates, stops>>

(* Where a thread holds a reference to the FD it looks at. *)
Referring(u, f) ==
  /\ th[u].fd = f
  /\ \/ th[u].pc \in {"mask", "mask_own", "done", "check", "recheck", "set", "set_own"}
     \/ th[u].pc \notin {"scan", "follow", "run", "unlock"} /\ th[u].then \in {"check", "recheck"}

WaitAlone(t) ==
  /\ At(t, "close") /\ \A u \in Threads : ~Referring(u, th[t].fd)
  /\ Call(t, "rm", "close_mask")
  /\ UNCHANGED <<umask, open, active, locked, seen, updt>> /\ Elsewhere

(* close() also removes the FD from the epoll instances. *)
CloseEnd(t) == LET f == th[t].fd IN
  /\ At(t, "close_mask")
  /\ umask' = [umask EXCEPT ![f] = {}] /\ active' = [active EXCEPT ![f] = FALSE]
  /\ seen' = [u \in Threads |-> [seen[u] EXCEPT ![f] = FALSE]]
  /\ \E keep \in BOOLEAN : updt' = [updt EXCEPT ![t] = IF keep THEN @ ELSE @ \ {f}]
  /\ Goto(t, "unlock") /\ UNCHANGED <<open, locked>> /\ Elsewhere

(* fd_insert() of another listener under the same number. *)
Insert(t, f) ==
  /\ At(t, "run") /\ ~open[f] /\ ~locked[f]
  /\ open' = [open EXCEPT ![f] = TRUE]
  /\ UNCHANGED <<umask, active, locked, seen, updt, th>> /\ Elsewhere

(* fd_update_events() on an FD that is polled and should not be. *)
MustStop(t, f) ==
  /\ At(t, "run") /\ open[f] /\ seen[t][f] /\ ~active[f] /\ t \notin umask[f]
  /\ umask' = [umask EXCEPT ![f] = @ \cup {t}]
  /\ updt' = [updt EXCEPT ![t] = @ \cup {f}]
  /\ UNCHANGED <<open, active, locked, seen, th>> /\ Elsewhere

(* The poller (_do_poll() of ev_epoll.c): first the thread's own list. *)
OwnUpdate(t, f) ==
  /\ At(t, "run") /\ f \in updt[t]
  /\ updt' = [updt EXCEPT ![t] = @ \ {f}]
  /\ th' = IF open[f] THEN [th EXCEPT ![t].pc = "mask_own", ![t].fd = f] ELSE th
  /\ UNCHANGED <<umask, open, active, locked, seen>> /\ Elsewhere
ClearOwn(t) == LET f == th[t].fd IN
  /\ At(t, "mask_own")
  /\ umask' = [umask EXCEPT ![f] = @ \ {t}] /\ Goto(t, "set_own")
  /\ UNCHANGED <<open, active, locked, seen, updt>> /\ Elsewhere

(* Then the shared one, from its first entry. *)
ScanFirst(t) ==
  /\ At(t, "run") /\ updt[t] = {} /\ first # -1
  /\ th' = [th EXCEPT ![t].pc = "scan", ![t].fd = first, ![t].old = first]
  /\ UNCHANGED <<umask, open, active, locked, seen, updt>> /\ Elsewhere

(* A locked link: again from the first one. An FD out of the list leads to *)
(* the one that followed it.                                               *)
ScanLink(t) == LET f == IF th[t].fd <= -3 THEN -th[t].fd - 4 ELSE th[t].fd IN
  /\ At(t, "scan")
  /\ th' = CASE th[t].fd = -2 -> [th EXCEPT ![t].pc = "follow", ![t].fd = th[t].old]
             [] f = -1        -> [th EXCEPT ![t] = Idle]
             [] OTHER         -> [th EXCEPT ![t].pc = IF open[f] THEN "mask" ELSE "follow", ![t].fd = f]
  /\ UNCHANGED <<umask, open, active, locked, seen, updt>> /\ Elsewhere

Follow(t) ==
  /\ At(t, "follow")
  /\ th' = [th EXCEPT ![t].pc = "scan", ![t].fd = next[th[t].fd]]
  /\ UNCHANGED <<umask, open, active, locked, seen, updt>> /\ Elsewhere

(* An update for somebody else ends the scan. *)
ForUsOnly(t) ==
  /\ At(t, "mask")
  /\ th' = IF t \in umask[th[t].fd] THEN [th EXCEPT ![t].pc = "done"] ELSE [th EXCEPT ![t] = Idle]
  /\ UNCHANGED <<umask, open, active, locked, seen, updt>> /\ Elsewhere

ForUs(t) ==
  /\ At(t, "mask") /\ Goto(t, IF t \in umask[th[t].fd] THEN "done" ELSE "follow")
  /\ UNCHANGED <<umask, open, active, locked, seen, updt>> /\ Elsewhere

(* done_update_polling(): the last one removes the FD, *)
ClearMask(t) == LET f == th[t].fd IN
  /\ At(t, "done")
  /\ umask' = [umask EXCEPT ![f] = @ \ {t}]
  /\ IF umask[f] \ {t} = {} THEN Call(t, "rm", "check") ELSE Goto(t, "set")
  /\ UNCHANGED <<open, active, locked, seen, updt>> /\ Elsewhere

(* puts it back when there was another update meanwhile, and looks again. *)
CheckRemoved(t) ==
  /\ At(t, "check")
  /\ IF umask[th[t].fd] = {} THEN Goto(t, "set") ELSE Call(t, "add", "recheck")
  /\ UNCHANGED <<umask, open, active, locked, seen, updt>> /\ Elsewhere
CheckAdded(t) ==
  /\ At(t, "recheck")
  /\ IF umask[th[t].fd] = {} THEN Call(t, "rm", "check") ELSE Goto(t, "set")
  /\ UNCHANGED <<umask, open, active, locked, seen, updt>> /\ Elsewhere

(* _update_fd(): epoll_ctl() as the state says. *)
_update_fd(t) == LET f == th[t].fd IN
  /\ th[t].pc \in {"set", "set_own"}
  /\ seen' = [seen EXCEPT ![t][f] = active[f]]
  /\ th' = IF At(t, "set") THEN [th EXCEPT ![t].pc = "follow"] ELSE [th EXCEPT ![t] = Idle]
  /\ UNCHANGED <<umask, open, active, locked, updt>> /\ Elsewhere

Poll(t) ==
  \/ ClearOwn(t) \/ ScanFirst(t) \/ ScanLink(t) \/ Follow(t) \/ ForUs(t) \/ ClearMask(t)
  \/ CheckRemoved(t) \/ CheckAdded(t) \/ _update_fd(t) \/ \E f \in Fds : OwnUpdate(t, f)
Step(t) ==
  \/ fd_add_to_fd_list(t) \/ fd_rm_from_fd_list(t) \/ updt_fd_polling(t) \/ Unlock(t)
  \/ WaitAlone(t) \/ CloseEnd(t) \/ Poll(t)
Next == \E t \in Threads :
  Step(t) \/ \E f \in Fds : fd_want_recv(t, f) \/ fd_stop_recv(t, f) \/ Close(t, f) \/ Insert(t, f) \/ MustStop(t, f)

Spec == Init /\ [][Next]_vars
(* A thread goes on with what it began, and polls again and again. Two     *)
(* threads that remove neighbours give up for each other, and in lockstep  *)
(* could do so for ever: it is assumed that they do not.                   *)
Undoing == \E t \in Threads : th[t].pc = "undo_prev"
FairSpec == Spec /\ (\A t \in Threads : WF_vars(Step(t))) /\ <>[]~Undoing
-----------------------------------------------------------------------------
Resting == \A t \in Threads : th[t].pc = "run"
InList == {f \in Fds : next[f] >= -1}

(* Links and masks have their types, and a local copy of a link is one.    *)
TypeOK ==
  /\ next \in [Fds -> -(NFds + 3) .. NFds - 1] /\ prev \in [Fds -> -2 .. NFds - 1]
  /\ first \in -1 .. NFds - 1 /\ last \in -1 .. NFds - 1
  /\ umask \in [Fds -> SUBSET Threads]
  /\ \A t \in Threads : th[t].n \in -1 .. NFds - 1 /\ th[t].p \in -1 .. NFds - 1

(* When no thread is at work on it, the list is well linked: from first to *)
(* last through every FD that says it is listed, the same both ways, and   *)
(* no link has stayed locked.                                              *)
WellLinked ==
  /\ TypeOK
  /\ Resting =>
    /\ \A f \in Fds : next[f] # -2
    /\ (first = -1) = (InList = {}) /\ (last = -1) = (InList = {})
    /\ \A f \in InList :
         /\ (next[f] = -1) = (last = f) /\ (prev[f] = -1) = (first = f)
         /\ next[f] # -1 => next[f] \in InList /\ prev[next[f]] = f
         /\ prev[f] # -1 => prev[f] \in InList /\ next[prev[f]] = f

(* A thread that has nothing to see polls an FD that is active: no         *)
(* fd_want_recv() is lost by a poller, whatever the others remove.         *)
ActivePolled ==
  \A f \in Fds, t \in Threads :
    Resting /\ active[f] /\ t \notin umask[f] => seen[t][f]

(* Every update reaches every thread.                                      *)
UpdatesSeen == \A f \in Fds, t \in Threads : []<>(t \notin umask[f])
=============================================================================
