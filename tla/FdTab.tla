-------------------------------- MODULE FdTab --------------------------------
(***************************************************************************)
(* The life of one file descriptor number (src/src/fd.c, fd.h) and its     *)
(* registration in the epoll instances of the threads (ev_epoll.c): it is  *)
(* inserted for a connection, polled, taken over by threads of the same or *)
(* of another thread group while the connection is idle, deleted, closed   *)
(* and used again. One atomic access to shared memory is one step.         *)
(*                                                                         *)
(* The masks of an FD hold the numbers of the threads in their group       *)
(* (ltid), so threads of two groups share bits. Only the receive direction *)
(* is modelled. With Shared, the FD is the one of a listener: all threads  *)
(* of a group poll it, any thread may delete it, nobody takes it over.     *)
(***************************************************************************)
EXTENDS Integers, FiniteSets

CONSTANTS Threads,      \* all threads
          Layouts,      \* for each thread, its thread group, from 1, and its
                        \* number there
          Kinds,        \* whether the FD may be the one of a listener, of connections
          MaxConns,     \* bound: connections opened
          MaxTakeovers, \* bound: takeovers tried
          NONE

ASSUME FdAssumption ==
  /\ \A l \in Layouts, t, u \in Threads :
       l[t] \in (Nat \ {0}) \X (Nat \ {0}) /\ (l[t] = l[u] => t = u)
  /\ Kinds \subseteq BOOLEAN /\ MaxConns \in Nat /\ MaxTakeovers \in Nat

VARIABLES
  fd,       \* fdtab[fd] and polled_mask[fd].poll_recv
  th,       \* per thread: where it is and its local variables
  updt,     \* per thread: entries of the FD in fd_updt
  open,     \* the connection the kernel has under this number, 0 if none
  reg,      \* per thread: the generation known by its epoll instance, or -1
  conn,     \* the connection: its thread, and whether it is in its idle tree,
            \* or the listener (shared)
  ilock,    \* idle_conns[].idle_conns_lock: the thread that holds it
  opened, taken,
  layout    \* how threads were grouped at boot
vars == <<fd, th, updt, open, reg, conn, ilock, opened, taken, layout>>

Group == [t \in Threads |-> layout[t][1]]
Ltid == [t \in Threads |-> layout[t][2]]

Unused == [tgid |-> 0, lk |-> FALSE, refc |-> 0, owner |-> 0, tmask |-> {}, rmask |-> {},
           umask |-> {}, must_close |-> FALSE, active |-> FALSE, ready |-> FALSE,
           gen |-> 0, polled |-> {}]
Resting == [pc |-> "run", gr |-> "no", mask |-> {}, gen |-> 0,
            on |-> FALSE, polled |-> FALSE, op |-> "none", then |-> "run"]

InGroup(g) == {t \in Threads : Group[t] = g}
Bits(g) == {Ltid[t] : t \in InGroup(g)}

Shared == conn.shared

(* A listener starts bound and polled in group 1. *)
Init ==
  /\ layout \in Layouts
  /\ \E shared \in Kinds :
       /\ fd = IF shared THEN [Unused EXCEPT !.tgid = 1, !.owner = 1, !.tmask = Bits(1), !.polled = Bits(1),
                                             !.active = TRUE, !.ready = TRUE]
               ELSE Unused
       /\ th = [t \in Threads |-> Resting]
       /\ updt = [t \in Threads |-> 0]
       /\ open = IF shared THEN 1 ELSE 0
       /\ reg = [t \in Threads |-> IF shared /\ Group[t] = 1 THEN 0 ELSE -1]
       /\ conn = [alive |-> shared, thr |-> NONE, idle |-> FALSE, shared |-> shared]
       /\ ilock = [t \in Threads |-> NONE]
       /\ opened = (IF shared THEN 1 ELSE 0) /\ taken = 0

At(t, l) == th[t].pc = l /\ th[t].gr = "no"
Goto(t, l) == th' = [th EXCEPT ![t].pc = l]
Return(t) == th' = [th EXCEPT ![t] = Resting]
Others == <<updt, open, reg, conn, ilock, opened, taken>>
-----------------------------------------------------------------------------
(* fd_grab_tgid() at label l: the reference is taken first, a locked group *)
(* is waited for, and the reference is dropped when the group is not the   *)
(* wanted one.                                                             *)
Grabbed(t, ok, Match(_)) ==
  th' = [th EXCEPT ![t].gr = IF fd.lk THEN "spin" ELSE IF Match(fd.tgid) THEN "no" ELSE "undo",
                   ![t].pc = IF ~fd.lk /\ Match(fd.tgid) THEN ok ELSE @]

grab_tgid(t, l, ok, fail, Match(_)) ==
  /\ th[t].pc = l
  /\ \/ th[t].gr = "no" /\ fd' = [fd EXCEPT !.refc = @ + 1] /\ Grabbed(t, ok, Match)
     \/ th[t].gr = "spin" /\ ~fd.lk /\ Grabbed(t, ok, Match) /\ UNCHANGED fd
     \/ th[t].gr = "undo" /\ fd' = [fd EXCEPT !.refc = @ - 1]
        /\ th' = [th EXCEPT ![t].gr = "no", ![t].pc = fail]
  /\ UNCHANGED Others

fd_grab_tgid(t, l, ok, fail) == LET mine(g) == g = Group[t] IN grab_tgid(t, l, ok, fail, mine)
fd_take_tgid(t, l, ok, fail) == LET any(g) == g # 0 IN grab_tgid(t, l, ok, fail, any)

fd_drop_tgid(t, l, next) ==
  /\ At(t, l)
  /\ fd' = [fd EXCEPT !.refc = @ - 1]
  /\ Goto(t, next) /\ UNCHANGED Others

(* A step that only changes the FD. *)
Set(t, l, new, next) == At(t, l) /\ fd' = new /\ Goto(t, next) /\ UNCHANGED Others

(* The bit of the update mask is set, and the FD listed unless it was. *)
ListUpdate(t, l, next) ==
  /\ At(t, l)
  /\ fd' = [fd EXCEPT !.umask = @ \cup {Ltid[t]}]
  /\ updt' = IF Ltid[t] \in fd.umask THEN updt ELSE [updt EXCEPT ![t] = @ + 1]
  /\ Goto(t, next) /\ UNCHANGED <<open, reg, conn, ilock, opened, taken>>
-----------------------------------------------------------------------------
(* socket(), then sock_conn_ctrl_init(): fd_insert() *)

OpenConn(t) ==
  /\ At(t, "run") /\ open = 0 /\ opened < MaxConns
  /\ opened' = opened + 1 /\ open' = opened + 1
  /\ conn' = [alive |-> TRUE, thr |-> t, idle |-> FALSE, shared |-> FALSE]
  /\ Goto(t, "claim")
  /\ UNCHANGED <<fd, updt, reg, ilock, taken>>

fd_claim_tgid(t) ==
  /\ At(t, "claim") /\ fd.refc = 0 /\ ~fd.lk
  /\ fd' = [fd EXCEPT !.tgid = Group[t], !.refc = 1]
  /\ Goto(t, "claimed") /\ UNCHANGED Others

(* BUG_ON() stops the process. *)
CheckRunning(t) == Set(t, "claimed", fd, IF fd.rmask = {} THEN "fill" ELSE "bug")

FillEntry(t) == Set(t, "fill", [fd EXCEPT !.owner = open, !.must_close = FALSE, !.active = FALSE, !.ready = FALSE], "fill_mask")
FillMask(t) == Set(t, "fill_mask", [fd EXCEPT !.tmask = {Ltid[t]}], "inserted")

fd_may_both(t) ==
  /\ At(t, "may_both")
  /\ fd' = [fd EXCEPT !.ready = TRUE]
  /\ Return(t) /\ UNCHANGED Others

fd_insert(t) ==
  \/ fd_claim_tgid(t) \/ CheckRunning(t) \/ FillEntry(t) \/ FillMask(t)
  \/ fd_drop_tgid(t, "inserted", "may_both") \/ fd_may_both(t)
-----------------------------------------------------------------------------
(* fd_want_recv(): updt_fd_polling() of a connection of this thread. *)

fd_want_recv(t) ==
  /\ At(t, "run") /\ ~Shared /\ conn.alive /\ conn.thr = t /\ ~conn.idle /\ ~fd.active
  /\ fd' = [fd EXCEPT !.active = TRUE]
  /\ Goto(t, "want") /\ UNCHANGED Others

updt_fd_polling(t) ==
  \/ fd_take_tgid(t, "want", "want_drop", "run")
  \/ fd_drop_tgid(t, "want_drop", "want_list")
  \/ ListUpdate(t, "want_list", "run")

(* recv() returned EAGAIN. *)
fd_cant_recv(t) ==
  /\ At(t, "run") /\ ~Shared /\ conn.alive /\ conn.thr = t /\ ~conn.idle /\ fd.ready
  /\ fd' = [fd EXCEPT !.ready = FALSE]
  /\ UNCHANGED <<th, updt, open, reg, conn, ilock, opened, taken>>
-----------------------------------------------------------------------------
(* The idle tree of a thread, under its lock. *)

SetIdle(t, b) ==
  /\ At(t, "run") /\ ~Shared /\ ilock[t] = NONE
  /\ conn.alive /\ conn.thr = t /\ conn.idle # b
  /\ conn' = [conn EXCEPT !.idle = b]
  /\ UNCHANGED <<fd, th, updt, open, reg, ilock, opened, taken>>

(* conn_backend_get() looks into the tree of another thread: fd_takeover(). *)
TryTakeover(t) ==
  /\ At(t, "run") /\ conn.alive /\ conn.idle /\ conn.thr # t
  /\ ilock[conn.thr] = NONE /\ taken < MaxTakeovers
  /\ taken' = taken + 1
  /\ ilock' = [ilock EXCEPT ![conn.thr] = t]
  /\ th' = [th EXCEPT ![t].pc = IF fd.owner # open THEN "to_end"
                                 ELSE IF fd.tgid # Group[t] THEN "to_lock" ELSE "to_grab"]
  /\ UNCHANGED <<fd, updt, open, reg, conn, opened>>

fd_lock_tgid_cur(t) ==
  /\ At(t, "to_lock")
  /\ IF fd.refc = 0 /\ ~fd.lk
     THEN fd' = [fd EXCEPT !.refc = 1, !.lk = TRUE]
          /\ th' = [th EXCEPT ![t].pc = "to_run", ![t].on = TRUE]
     ELSE Goto(t, "to_end") /\ UNCHANGED fd
  /\ UNCHANGED Others

(* The running mask is replaced whoever runs. *)
TakeRunningBlind(t) ==
  /\ At(t, "to_run")
  /\ fd' = [fd EXCEPT !.rmask = @ \cup {Ltid[t]}] /\ Goto(t, "to_mask")
  /\ UNCHANGED Others

TakeRunning(t) ==
  /\ At(t, "to_run")
  /\ IF fd.rmask = {} THEN fd' = [fd EXCEPT !.rmask = {Ltid[t]}] /\ Goto(t, "to_mask")
     ELSE Goto(t, IF th[t].on THEN "to_unlock" ELSE "to_undo") /\ UNCHANGED fd
  /\ UNCHANGED Others

fd_unlock_tgid(t) == Set(t, "to_unlock", [fd EXCEPT !.lk = FALSE], "to_undo")
(* The poller is told in all cases. *)
FixupAlways(t) == Set(t, "to_mask", [fd EXCEPT !.tmask = {Ltid[t]}], IF th[t].on THEN "to_group" ELSE "to_polled")

SetMask(t) == Set(t, "to_mask", [fd EXCEPT !.tmask = {Ltid[t]}], IF th[t].on THEN "to_group" ELSE "to_stop")
fd_update_tgid(t) == Set(t, "to_group", [fd EXCEPT !.tgid = Group[t], !.lk = FALSE], "to_polled")
FixupPolled(t) == Set(t, "to_polled", [fd EXCEPT !.polled = {}], "to_umask")

FixupUpdate(t) == Set(t, "to_umask", [fd EXCEPT !.umask = {}], "to_stop")
fd_stop_recv(t) == Set(t, "to_stop", [fd EXCEPT !.active = FALSE], "to_clear")
ClearTaken(t) == Set(t, "to_clear", [fd EXCEPT !.rmask = @ \ {Ltid[t]}], "to_drop")

(* The connection leaves the tree of its previous thread, and the lock is  *)
(* released.                                                               *)
TakeoverDone(t) ==
  /\ th[t].pc \in {"to_end", "to_got"} /\ th[t].gr = "no"
  /\ conn' = IF th[t].pc = "to_got" THEN [conn EXCEPT !.thr = t, !.idle = FALSE] ELSE conn
  /\ ilock' = [u \in Threads |-> IF ilock[u] = t THEN NONE ELSE ilock[u]]
  /\ Return(t) /\ UNCHANGED <<fd, updt, open, reg, opened, taken>>

fd_takeover(t) ==
  \/ fd_lock_tgid_cur(t) \/ fd_grab_tgid(t, "to_grab", "to_run", "to_end")
  \/ TakeRunning(t) \/ fd_unlock_tgid(t) \/ fd_drop_tgid(t, "to_undo", "to_end")
  \/ SetMask(t) \/ fd_update_tgid(t) \/ FixupPolled(t) \/ FixupUpdate(t)
  \/ fd_stop_recv(t) \/ ClearTaken(t) \/ fd_drop_tgid(t, "to_drop", "to_got") \/ TakeoverDone(t)
-----------------------------------------------------------------------------
(* sock_conn_ctrl_close(): fd_delete(). The connection has left the idle   *)
(* tree under the lock; it is released after the call.                     *)

StartDelete(t, then) ==
  /\ conn' = [conn EXCEPT !.alive = FALSE, !.idle = FALSE]
  /\ th' = [th EXCEPT ![t].pc = IF fd.tgid # Group[t] \/ fd.lk THEN "fdel" ELSE "del", ![t].then = then]

Delete(t) ==
  /\ At(t, "run") /\ conn.alive /\ open = fd.owner
  /\ Shared \/ (conn.thr = t /\ ilock[t] = NONE)
  /\ StartDelete(t, "run")
  /\ UNCHANGED <<fd, updt, open, reg, ilock, opened, taken>>

DelRunning(t) == Set(t, "del", [fd EXCEPT !.rmask = @ \cup {Ltid[t]}], "del_flag")
DelFlag(t) == Set(t, "del_flag", [fd EXCEPT !.must_close = TRUE], "del_mask")
DelMask(t) == Set(t, "del_mask", [fd EXCEPT !.tmask = {}], "del_clear")
DelClear(t) ==
  Set(t, "del_clear", [fd EXCEPT !.rmask = @ \ {Ltid[t]}], IF fd.rmask = {Ltid[t]} THEN "del_last" ELSE th[t].then)

(* The last one closes, without looking at the flag. *)
LastCloses(t) == Set(t, "del_last", [fd EXCEPT !.must_close = FALSE], "reset")

DelLast(t) ==
  Set(t, "del_last", [fd EXCEPT !.must_close = FALSE], IF fd.must_close THEN "reset" ELSE th[t].then)

(* From another group: the running threads, if any, close. *)
ForeignFlag(t) == Set(t, "fdel_flag", [fd EXCEPT !.must_close = TRUE], "fdel_mask")
ForeignMask(t) == Set(t, "fdel_mask", [fd EXCEPT !.tmask = {}], "fdel_test")
ForeignTest(t) == Set(t, "fdel_test", fd, IF fd.rmask = {} THEN "fdel_last" ELSE "fdel_drop")
ForeignLast(t) ==
  Set(t, "fdel_last", [fd EXCEPT !.must_close = FALSE], IF fd.must_close THEN "fdel_close" ELSE "fdel_drop")

(* fd_delete() goes on without a reference when there is no group left to   *)
(* refer to ("fdel_lost"): not reached, since an FD is deleted once.        *)
fd_delete(t) ==
  \/ DelRunning(t) \/ DelFlag(t) \/ DelMask(t) \/ DelClear(t) \/ DelLast(t)
  \/ fd_take_tgid(t, "fdel", "fdel_flag", "fdel_lost") \/ ForeignFlag(t) \/ ForeignMask(t)
  \/ ForeignTest(t) \/ ForeignLast(t) \/ fd_drop_tgid(t, "fdel_close", "reset")
  \/ fd_drop_tgid(t, "fdel_drop", th[t].then)

(* _fd_delete_orphan() *)

fd_reset_tgid(t) == Set(t, "reset", [fd EXCEPT !.tgid = 0, !.lk = FALSE], "alone")

(* The bits of pending updates stay. *)
KeepUpdates(t) == fd.refc = 0 /\ Set(t, "alone", fd, "clean")

WaitAlone(t) == fd.refc = 0 /\ Set(t, "alone", [fd EXCEPT !.umask = {}], "clean")

(* The last update of this thread is forgotten if it is for this FD. *)
Clean(t) ==
  /\ At(t, "clean")
  /\ fd' = [fd EXCEPT !.polled = {}, !.must_close = FALSE, !.active = FALSE, !.ready = FALSE, !.owner = 0]
  /\ updt' = updt \/ (updt[t] > 0 /\ updt' = [updt EXCEPT ![t] = @ - 1])
  /\ Goto(t, "close") /\ UNCHANGED <<open, reg, conn, ilock, opened, taken>>

(* close() also removes the FD from all epoll instances. *)
Close(t) ==
  /\ At(t, "close")
  /\ fd' = [fd EXCEPT !.gen = @ + 1]
  /\ open' = 0 /\ reg' = [u \in Threads |-> -1]
  /\ Goto(t, th[t].then) /\ UNCHANGED <<updt, conn, ilock, opened, taken>>

_fd_delete_orphan(t) == fd_reset_tgid(t) \/ WaitAlone(t) \/ Clean(t) \/ Close(t)
-----------------------------------------------------------------------------
(* The poller: the updates of this thread, then an event, if any. *)

StartPoll(t) ==
  /\ At(t, "run")
  /\ updt[t] > 0 \/ reg[t] # -1
  /\ Goto(t, "poll")
  /\ UNCHANGED <<fd, updt, open, reg, conn, ilock, opened, taken>>

NextUpdate(t) ==
  /\ At(t, "poll") /\ updt[t] > 0
  /\ updt' = [updt EXCEPT ![t] = @ - 1]
  /\ Goto(t, "upd") /\ UNCHANGED <<fd, open, reg, conn, ilock, opened, taken>>

ClearUpdate(t) == Set(t, "upd_clear", [fd EXCEPT !.umask = @ \ {Ltid[t]}], "upd_load")

(* _update_fd(): a polled FD that is not ready counts as active. *)
LoadState(t) ==
  /\ At(t, "upd_load")
  /\ LET p == Ltid[t] \in fd.polled IN
     th' = [th EXCEPT ![t].pc = IF fd.owner = 0 THEN "upd_drop" ELSE "upd_op",
                      ![t].polled = p, ![t].on = fd.active \/ (p /\ ~fd.ready)]
  /\ UNCHANGED <<fd, updt, open, reg, conn, ilock, opened, taken>>

ChooseOp(t) ==
  /\ At(t, "upd_op")
  /\ LET here == Ltid[t] \in fd.tmask /\ th[t].on
         op == IF th[t].polled /\ ~here THEN "del" ELSE IF ~th[t].polled /\ here THEN "add" ELSE "none"
     IN  /\ th' = [th EXCEPT ![t].op = op, ![t].pc = IF op = "none" THEN "upd_drop" ELSE "upd_ctl"]
         /\ fd' = CASE op = "del" -> [fd EXCEPT !.polled = @ \ {Ltid[t]}]
                    [] op = "add" -> [fd EXCEPT !.polled = @ \cup {Ltid[t]}]
                    [] op = "none" -> fd
  /\ UNCHANGED Others

(* An FD that the instance knows already is removed and added again. The   *)
(* removal of one that it does not know is an error: BUG_ON().             *)
epoll_ctl(t) ==
  /\ At(t, "upd_ctl")
  /\ reg' = [reg EXCEPT ![t] = IF th[t].op = "add" THEN fd.gen ELSE -1]
  /\ Goto(t, IF th[t].op = "del" /\ reg[t] = -1 THEN "bug_ctl" ELSE "upd_drop") /\ UNCHANGED <<fd, updt, open, conn, ilock, opened, taken>>

Update(t) ==
  \/ NextUpdate(t) \/ fd_grab_tgid(t, "upd", "upd_clear", "poll") \/ ClearUpdate(t)
  \/ LoadState(t) \/ ChooseOp(t) \/ epoll_ctl(t) \/ fd_drop_tgid(t, "upd_drop", "poll")

EndPoll(t) ==
  /\ At(t, "poll") /\ updt[t] = 0
  /\ Return(t) /\ UNCHANGED <<fd, updt, open, reg, conn, ilock, opened, taken>>

(* epoll_wait() reports the FD, with the generation it was added with. *)
epoll_wait(t) ==
  /\ At(t, "poll") /\ updt[t] = 0 /\ reg[t] # -1
  /\ th' = [th EXCEPT ![t].pc = "event", ![t].gen = reg[t]]
  /\ UNCHANGED <<fd, updt, open, reg, conn, ilock, opened, taken>>

(* A late report is ignored; a FD of another group is removed. *)
CheckGen(t) == Set(t, "event", fd, IF th[t].gen = fd.gen THEN "check_group" ELSE "leave")
CheckGroup(t) ==
  /\ At(t, "check_group")
  /\ LET mine == fd.tgid = Group[t] /\ ~fd.lk IN
     Goto(t, IF mine THEN "ev" ELSE "leave") /\ reg' = IF mine THEN reg ELSE [reg EXCEPT ![t] = -1]
  /\ UNCHANGED <<fd, updt, open, conn, ilock, opened, taken>>
-----------------------------------------------------------------------------

(* fd_update_events() *)

LoadMask(t) == Set(t, "ev_mask", fd, IF Ltid[t] \in fd.tmask THEN "ev_run" ELSE "ev_upd")
SetRunning(t) == Set(t, "ev_run", [fd EXCEPT !.rmask = @ \cup {Ltid[t]}], "ev_rmask")

LoadRunning(t) ==
  /\ At(t, "ev_rmask")
  /\ th' = [th EXCEPT ![t].pc = "ev_tmask", ![t].mask = fd.rmask \ {Ltid[t]}]
  /\ UNCHANGED <<fd, updt, open, reg, conn, ilock, opened, taken>>

(* Until no takeover is in progress, or our bit has gone. *)
LoadStable(t) ==
  Set(t, "ev_tmask", fd, IF Ltid[t] \notin fd.tmask THEN "ev_lost"
                         ELSE IF th[t].mask \subseteq fd.tmask THEN "ev_drop" ELSE "ev_rmask")

(* The loser of the race never closes. *)
LoserLeaves(t) == Set(t, "ev_lost", [fd EXCEPT !.rmask = @ \ {Ltid[t]}], "ev_upd")

(* We lost the race of a takeover: a deleted FD may be ours to close. *)
LostRace(t) ==
  Set(t, "ev_lost", [fd EXCEPT !.rmask = @ \ {Ltid[t]}], IF fd.rmask = {Ltid[t]} THEN "ev_closed" ELSE "ev_upd")

(* The state is ready; the handler is called if the FD is active. *)
SetReady(t) ==
  /\ At(t, "ev_ready")
  /\ fd' = [fd EXCEPT !.ready = TRUE]
  /\ th' = [th EXCEPT ![t].on = fd.active, ![t].pc = IF fd.active THEN "iocb" ELSE "after"]
  /\ UNCHANGED Others

(* The handler of a connection stops receiving and leaves the rest to a    *)
(* tasklet of this thread; the one of a listener may go on.                *)
HandlerStops(t) == Set(t, "iocb", [fd EXCEPT !.active = FALSE], "stopped")
HandlerDone(t) == \/ Set(t, "stopped", fd, "after")
                  \/ Shared /\ Set(t, "iocb", fd, "after")

(* conn_notify_mux() takes the connection out of the idle tree while the   *)
(* mux looks at it, which may release it.                                  *)
HandlerWakes(t) ==
  /\ At(t, "stopped") /\ ~Shared /\ ilock[t] = NONE
  /\ conn' = [conn EXCEPT !.idle = FALSE]
  /\ th' = [th EXCEPT ![t].pc = "wake", ![t].polled = conn.idle]
  /\ UNCHANGED <<fd, updt, open, reg, ilock, opened, taken>>
WakeKeeps(t) ==
  /\ At(t, "wake") /\ ilock[t] = NONE
  /\ conn' = [conn EXCEPT !.idle = th[t].polled]
  /\ Goto(t, "after") /\ UNCHANGED <<fd, updt, open, reg, ilock, opened, taken>>
WakeDeletes(t) ==
  /\ At(t, "wake") /\ StartDelete(t, "after")
  /\ UNCHANGED <<fd, updt, open, reg, ilock, opened, taken>>

LoadAfter(t) ==
  /\ At(t, "after_mask")
  /\ th' = [th EXCEPT ![t].pc = "after_clear", ![t].mask = fd.tmask]
  /\ UNCHANGED <<fd, updt, open, reg, conn, ilock, opened, taken>>

ClearAfter(t) ==
  Set(t, "after_clear", [fd EXCEPT !.rmask = @ \ {Ltid[t]}],
      IF fd.rmask = {Ltid[t]} /\ Ltid[t] \notin th[t].mask THEN "ev_closed" ELSE "after_stop")

(* An event on an FD that was not active, and still is not: stop polling. *)
AfterStop(t) ==
  Set(t, "after_stop", fd, IF ~th[t].on /\ Ltid[t] \notin fd.umask /\ ~fd.active THEN "after_upd" ELSE "ev_end")

ClosedOrMigrated(t) ==
  /\ At(t, "ev_closed")
  /\ fd' = [fd EXCEPT !.must_close = FALSE]
  /\ th' = [th EXCEPT ![t].pc = IF fd.must_close THEN "ev_delete" ELSE "ev_upd", ![t].then = "leave"]
  /\ UNCHANGED Others

fd_update_events(t) ==
  \/ fd_grab_tgid(t, "ev", "ev_mask", "leave") \/ LoadMask(t) \/ SetRunning(t)
  \/ LoadRunning(t) \/ LoadStable(t) \/ LostRace(t)
  \/ fd_drop_tgid(t, "ev_drop", "ev_ready") \/ SetReady(t)
  \/ HandlerDone(t) \/ HandlerStops(t) \/ HandlerWakes(t) \/ WakeKeeps(t) \/ WakeDeletes(t)
  \/ fd_grab_tgid(t, "after", "after_mask", "leave") \/ LoadAfter(t) \/ ClearAfter(t)
  \/ AfterStop(t) \/ ListUpdate(t, "after_upd", "ev_end") \/ fd_drop_tgid(t, "ev_end", "leave")
  \/ ClosedOrMigrated(t) \/ fd_drop_tgid(t, "ev_delete", "reset")
  \/ ListUpdate(t, "ev_upd", "ev_end")

Leave(t) == At(t, "leave") /\ Return(t) /\ UNCHANGED <<fd, updt, open, reg, conn, ilock, opened, taken>>
-----------------------------------------------------------------------------
Operation(t) ==
  \/ OpenConn(t) \/ fd_want_recv(t) \/ fd_cant_recv(t) \/ TryTakeover(t) \/ Delete(t)
  \/ \E b \in BOOLEAN : SetIdle(t, b)

(* The steps of an operation that has begun. *)
Step(t) ==
  \/ fd_insert(t) \/ updt_fd_polling(t) \/ fd_takeover(t) \/ fd_delete(t) \/ _fd_delete_orphan(t)
  \/ Update(t) \/ EndPoll(t) \/ CheckGen(t) \/ CheckGroup(t) \/ fd_update_events(t) \/ Leave(t)

Stopped == \E t \in Threads : th[t].pc \in {"bug", "bug_ctl"}

Next ==
  /\ ~Stopped
  /\ \E t \in Threads : Operation(t) \/ StartPoll(t) \/ epoll_wait(t) \/ Step(t)
  /\ UNCHANGED layout

Spec == Init /\ [][Next]_vars

-----------------------------------------------------------------------------
Closing == {t \in Threads : th[t].pc \in {"reset", "alone", "clean", "close"}}

(* Once the group is claimed, no thread runs on the FD: the last check of  *)
(* fd_insert() does not stop the process.                                  *)
InsertNotRunning == \A t \in Threads : th[t].pc # "bug"

(* Only one thread closes an FD, and only the FD of a connection that was  *)
(* deleted.                                                                *)
ClosedOnce ==
  /\ Cardinality(Closing) <= 1
  /\ Closing # {} => ~conn.alive /\ open # 0

(* The handler of a connection is called on its thread, and while it is    *)
(* there: a thread that lost it to a takeover does not touch it.           *)
HandlerOnItsThread ==
  \A t \in Threads :
    th[t].pc \in {"iocb", "stopped", "wake"} =>
      /\ open # 0 /\ fd.owner = open
      /\ ~Shared => conn.alive /\ conn.thr = t

(* epoll_ctl() does not fail: only a registered FD is removed. *)
EpollKnows == \A t \in Threads : th[t].pc # "bug_ctl"

(* A connection that waits for data is registered in the poller of its     *)
(* thread, or about to be.                                                 *)
ActiveIsPolled ==
  \A t \in Threads :
    /\ ~Shared /\ conn.alive /\ conn.thr = t /\ fd.active /\ updt[t] = 0 /\ \A u \in Threads : th[u].pc = "run"
    => reg[t] = fd.gen

(* polled_mask tells which pollers of the group still know the FD, so that *)
(* a thread that lost it can have it removed from its own. This is said of *)
(* an FD that no other group takes over: such a takeover forgets the bits. *)
PolledKnown ==
  (\A t \in Threads : th[t].pc = "run" /\ Group[t] = fd.tgid) =>
    \A t \in Threads :
      reg[t] # -1 /\ Ltid[t] \notin fd.tmask => Ltid[t] \in fd.polled

(* The FD of a connection that was deleted is closed: the last thread that *)
(* uses it does not forget to.                                             *)
DeletedIsClosed ==
  (\A t \in Threads : th[t].pc = "run") /\ ~conn.alive /\ ~Shared => open = 0
=============================================================================
