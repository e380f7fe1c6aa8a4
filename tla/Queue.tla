------------------------------- MODULE Queue -------------------------------
(***************************************************************************)
(* The connection queues of one backend: src/src/queue.c, its callers in   *)
(* backend.c, stream.c and server.c, and the accounting of server slots    *)
(* (server->served, proxy->served) they share.                             *)
(*                                                                         *)
(* A process is a stream (its own task) or Admin, the thread that applies  *)
(* a server state change.  Any process may be the one that dequeues the    *)
(* others.  A step is one atomic write with the reads that come just       *)
(* before it in the same condition, or one critical section that no other  *)
(* process can look into; counters that are updated back to back (length,  *)
(* queueslength, totpend) move together.                                   *)
(***************************************************************************)
EXTENDS Integers, Sequences, FiniteSets, Functions

CONSTANTS
  Streams,     \* the streams that arrive on the backend
  Servers,     \* its servers
  Groups,      \* thread groups, 1 .. nbtgroups
  Admin,       \* the process that changes server states
  Px,          \* the owner of the backend's own queues
  NULL,
  Group,       \* [Streams \cup {Admin} -> Groups]
  Key,         \* [Streams -> Nat]: rank that priority class and offset give
  Wants,       \* [Streams -> SUBSET]: what persistence asks for, NULL for none
  MaxConn,     \* server maxconn, at least 1
  MaxQueue,    \* server maxqueue, 0 for none
  MaxSelfUse,  \* MAX_SELF_USE_QUEUE
  MaxPoll,     \* global.tune.maxpollevents
  Redisp,      \* option redispatch
  Persist,     \* option persist
  EarlyFails,  \* TRUE when memory for a queue entry may be missing, and an
               \* attempt fail at once or be aborted before it starts
  Timeouts,    \* TRUE when a queued stream may time out or be aborted
  MaxRetries,  \* connection retries
  Downs,       \* why a server leaves: "stopped", "maint" or "drain"
  MaxFlaps     \* bound: server state changes

Procs == Streams \cup {Admin}
Owners == Servers \cup {Px}
Queues == Owners \X Groups
NServer == Servers \cup {NULL}
Entry == [owner : Owners, assigned : BOOLEAN, direct : BOOLEAN, target : NServer]

ASSUME QueueAssumption ==
  /\ IsFiniteSet(Streams) /\ IsFiniteSet(Groups)
  /\ Groups = 1 .. Cardinality(Groups)
  /\ Admin \notin Streams /\ Px \notin Servers
  /\ NULL \notin Streams \cup Servers \cup {Admin, Px} \cup Entry
  /\ Group \in [Procs -> Groups]
  /\ Key \in [Streams -> Nat]
  /\ Wants \in [Streams -> SUBSET (Servers \cup {NULL})]
  /\ MaxConn \in [Servers -> Nat \ {0}]
  /\ MaxQueue \in [Servers -> Nat]
  /\ MaxSelfUse \in Nat \ {0} /\ MaxPoll \in Nat \ {0}
  /\ Redisp \in BOOLEAN /\ Persist \in BOOLEAN /\ Timeouts \in BOOLEAN /\ EarlyFails \in BOOLEAN
  /\ Downs \subseteq {"stopped", "maint", "drain"}
  /\ MaxRetries \in Nat /\ MaxFlaps \in Nat

VARIABLES
  served,        \* [Servers]: slots taken (server.served)
  cur_sess,      \* [Servers]: streams connecting or connected
  state,         \* [Servers]: "up", or why the server is not usable
  px_served,     \* proxy.served
  totpend,       \* proxy.totpend
  ready_srv,     \* proxy.ready_srv
  queueslength,  \* [Owners]: entries of all of an owner's queues
  length,        \* [Queues]: entries of a queue, read without its lock
  tree,          \* [Queues]: linked entries, in pendconn_first() order
  lock,          \* [Queues]: holder of the queue's lock
  del_lock,      \* [Streams]: holder of the entry's del_lock
  dequeuing,     \* [Servers \X Groups]: per_tgrp.dequeuing
  self_served,   \* [Servers \X Groups]: modulo MaxSelfUse + 1
  last_other,    \* [Servers \X Groups]: last_other_tgrp_served
  strm,          \* [Streams]: the stream
  pend,          \* [Streams]: its pendconn, or NULL
  woken,         \* [Streams]: task_wakeup() pending
  flaps,         \* server state changes so far
  pc, th         \* [Procs]: next step and local variables

slots == <<served, cur_sess, px_served>>
counts == <<totpend, queueslength, length>>
links == <<tree, lock, del_lock>>
turns == <<dequeuing, self_served, last_other>>
srvs == <<state, ready_srv, flaps>>
strms == <<strm, pend, woken>>
vars == <<slots, counts, links, turns, srvs, strms, pc, th>>

NoLocals == [srv |-> NULL, ret |-> "idle", px_ok |-> FALSE, grps |-> {},
             done |-> 0, cur |-> 1, todo |-> 0, p |-> NULL, pp |-> NULL,
             retry |-> FALSE, owner |-> NULL, xfer |-> 0, expired |-> FALSE]

NewStream == [st |-> "INI", assigned |-> FALSE, direct |-> FALSE,
              target |-> NULL, srv_conn |-> NULL, curr |-> FALSE, retries |-> 0]

Init ==
  /\ served = [v \in Servers |-> 0] /\ cur_sess = [v \in Servers |-> 0]
  /\ state = [v \in Servers |-> "up"] /\ flaps = 0
  /\ px_served = 0 /\ totpend = 0 /\ ready_srv = NULL
  /\ queueslength = [o \in Owners |-> 0] /\ length = [q \in Queues |-> 0]
  /\ tree = [q \in Queues |-> <<>>] /\ lock = [q \in Queues |-> NULL]
  /\ del_lock = [s \in Streams |-> NULL]
  /\ dequeuing = [x \in Servers \X Groups |-> FALSE]
  /\ self_served = [x \in Servers \X Groups |-> 0]
  /\ last_other = [x \in Servers \X Groups |-> 0]
  /\ strm = [s \in Streams |-> NewStream]
  /\ pend = [s \in Streams |-> NULL] /\ woken = [s \in Streams |-> FALSE]
  /\ pc = [p \in Procs |-> "idle"] /\ th = [p \in Procs |-> NoLocals]

-----------------------------------------------------------------------------
Goto(p, l) == pc' = [pc EXCEPT ![p] = l]
Add(f, x, n) == [f EXCEPT ![x] = @ + n]
InSeq(s, seq) == \E i \in 1 .. Len(seq) : seq[i] = s
Linked(s) == \E q \in Queues : InSeq(s, tree[q])
First(seq) == IF seq = <<>> THEN NULL ELSE seq[1]

(* eb32_insert(): after the entries of the same key *)
Insert(seq, s) ==
  LET k == Cardinality({i \in 1 .. Len(seq) : Key[seq[i]] <= Key[s]})
  IN  [j \in 1 .. Len(seq) + 1 |->
         IF j <= k THEN seq[j] ELSE IF j = k + 1 THEN s ELSE seq[j - 1]]

(* eb32_delete(), of an entry that may be unlinked already *)
Without(seq, s) ==
  LET i == CHOOSE i \in 1 .. Len(seq) : seq[i] = s
  IN  IF InSeq(s, seq)
        THEN [j \in 1 .. Len(seq) - 1 |-> IF j < i THEN seq[j] ELSE seq[j + 1]]
        ELSE seq

QueueOf(s) == <<pend[s].owner, Group[s]>>
srv_currently_usable(v) == state[v] = "up"
Usable == {v \in Servers : srv_currently_usable(v)}
beconn == Cardinality({s \in Streams : strm[s].st \notin {"INI", "GONE"}})

may_dequeue_tasks(v) ==
  /\ queueslength[v] > 0 \/ (queueslength[Px] > 0 /\ srv_currently_usable(v))
  /\ cur_sess[v] < MaxConn[v]

(* locals of a process_srv_queue(v) that resumes at ret *)
ProcessQueue(v, ret) ==
  [NoLocals EXCEPT !.srv = v, !.ret = ret, !.px_ok = srv_currently_usable(v), !.grps = Groups]

(* if (may_dequeue_tasks(v)) process_srv_queue(v); then go on at ret *)
CallProcessQueue(p, v, ret) ==
  IF v # NULL /\ may_dequeue_tasks(v)
    THEN Goto(p, "loop") /\ th' = [th EXCEPT ![p] = ProcessQueue(v, ret)]
    ELSE Goto(p, ret) /\ th' = [th EXCEPT ![p] = NoLocals]

-----------------------------------------------------------------------------
(* A request reaches the backend, possibly with persistence information. *)
Arrive(s) ==
  /\ strm[s].st = "INI" /\ pc[s] = "idle"
  /\ \E v \in Wants[s] :
       strm' = [strm EXCEPT ![s] = [@ EXCEPT !.st = "REQ", !.target = v,
                                      !.assigned = v # NULL, !.direct = v # NULL]]
  /\ UNCHANGED <<slots, counts, links, turns, srvs, pend, woken, pc, th>>

HasRoom(v) == srv_currently_usable(v) /\ queueslength[v] = 0 /\ served[v] < MaxConn[v]

(* assign_server(), for a round-robin backend: the load balancer picks any *)
(* usable server with room; without one the stream goes to Px's queue.     *)
assign_server(s) ==
  /\ strm[s].st = "REQ" /\ pc[s] = "idle" /\ ~strm[s].assigned
  /\ \/ /\ Usable = {}
        /\ strm' = [strm EXCEPT ![s].st = "CLO", ![s].target = NULL]
        /\ UNCHANGED pc
     \/ /\ Usable # {}
        /\ \/ queueslength[Px] > 0 /\ px_served # 0 /\ queueslength[Px] # beconn
           \/ \A v \in Servers : ~HasRoom(v)
        /\ strm' = [strm EXCEPT ![s].target = NULL]
        /\ Goto(s, "enqueue")
     \/ /\ Usable # {}
        /\ ~(queueslength[Px] > 0 /\ px_served # 0 /\ queueslength[Px] # beconn)
        /\ \E v \in Servers :
             /\ HasRoom(v)
             /\ strm' = [strm EXCEPT ![s].target = v, ![s].assigned = TRUE]
        /\ UNCHANGED pc
  /\ UNCHANGED <<slots, counts, links, turns, srvs, pend, woken, th>>

(* the server is known but full: its queue, or SRV_STATUS_FULL *)
QueueOnServer(s, v) ==
  IF MaxQueue[v] > 0 /\ queueslength[v] >= MaxQueue[v]
    THEN /\ Goto(s, "idle")
         /\ strm' = IF strm[s].direct /\ Redisp
                      THEN [strm EXCEPT ![s].assigned = FALSE, ![s].direct = FALSE]
                      ELSE [strm EXCEPT ![s].st = "CLO"]
    ELSE Goto(s, "enqueue") /\ UNCHANGED strm

(* assign_server_and_queue(): first look, without reserving anything *)
CheckRoom(s) ==
  LET v == strm[s].target IN
  /\ strm[s].st = "REQ" /\ pc[s] = "idle" /\ strm[s].assigned
  /\ IF length[<<v, Group[s]>>] = 0 /\ served[v] < MaxConn[v]
       THEN Goto(s, "cas") /\ UNCHANGED strm
       ELSE QueueOnServer(s, v)
  /\ UNCHANGED <<slots, counts, links, turns, srvs, pend, woken, th>>

TakeSlotUnchecked(s) ==
  /\ pc[s] = "cas"
  /\ served' = Add(served, strm[s].target, 1) /\ Goto(s, "got")
  /\ UNCHANGED <<cur_sess, px_served, counts, links, turns, srvs, strms, th>>

(* the CAS loop on srv->served *)
TakeSlot(s) ==
  LET v == strm[s].target IN
  /\ pc[s] = "cas"
  /\ IF served[v] < MaxConn[v]
       THEN served' = Add(served, v, 1) /\ Goto(s, "got") /\ UNCHANGED strm
       ELSE QueueOnServer(s, v) /\ UNCHANGED served
  /\ UNCHANGED <<cur_sess, px_served, counts, links, turns, srvs, pend, woken, th>>

AttachSlotCounted(s) ==
  /\ pc[s] = "got"
  /\ px_served' = px_served + 1 /\ served' = Add(served, strm[s].target, 1)
  /\ strm' = [strm EXCEPT ![s].srv_conn = strm[s].target, ![s].st = "ASS"]
  /\ Goto(s, "idle")
  /\ UNCHANGED <<cur_sess, counts, links, turns, srvs, pend, woken, th>>

(* sess_change_server(s, srv), a stream that already owns its slot *)
AttachSlot(s) ==
  /\ pc[s] = "got"
  /\ px_served' = px_served + 1
  /\ strm' = [strm EXCEPT ![s].srv_conn = strm[s].target, ![s].st = "ASS"]
  /\ Goto(s, "idle")
  /\ UNCHANGED <<served, cur_sess, counts, links, turns, srvs, pend, woken, th>>

(* pendconn_add(): the counters first ... *)
pendconn_add(s) ==
  LET o == IF strm[s].assigned THEN strm[s].target ELSE Px IN
  /\ pc[s] = "enqueue"
  /\ pend' = [pend EXCEPT ![s] = [owner |-> o, assigned |-> strm[s].assigned,
                                  direct |-> strm[s].direct, target |-> NULL]]
  /\ queueslength' = Add(queueslength, o, 1)
  /\ length' = Add(length, <<o, Group[s]>>, 1)
  /\ Goto(s, "insert")
  /\ UNCHANGED <<slots, totpend, links, turns, srvs, strm, woken, th>>

(* no memory for the entry: SRV_STATUS_INTERNAL, the stream is closed *)
NoEntry(s) ==
  /\ pc[s] = "enqueue" /\ EarlyFails
  /\ strm' = [strm EXCEPT ![s].st = "CLO"]
  /\ CallProcessQueue(s, strm[s].target, "idle")
  /\ UNCHANGED <<slots, counts, links, turns, srvs, pend, woken>>

(* ... then the tree, under the queue's lock *)
InsertEntry(s) ==
  LET q == QueueOf(s) IN
  /\ pc[s] = "insert" /\ lock[q] = NULL
  /\ tree' = [tree EXCEPT ![q] = Insert(@, s)]
  /\ Goto(s, "added")
  /\ UNCHANGED <<slots, counts, lock, del_lock, turns, srvs, strms, th>>

(* SRV_STATUS_QUEUED.  On a server's queue the caller may have to dequeue  *)
(* what it just added; on the backend's it looks at ready_srv.             *)
CountPending(s) ==
  LET v == pend[s].owner IN
  /\ pc[s] = "added"
  /\ totpend' = totpend + 1
  /\ strm' = [strm EXCEPT ![s].st = "QUE"]
  /\ IF v = Px THEN Goto(s, "ready") /\ UNCHANGED th
               ELSE CallProcessQueue(s, v, "idle")
  /\ UNCHANGED <<slots, queueslength, length, links, turns, srvs, pend, woken>>

(* the XCHG on be->ready_srv *)
GrabReady(s) ==
  /\ pc[s] = "ready"
  /\ ready_srv' = NULL
  /\ th' = [th EXCEPT ![s].srv = ready_srv]
  /\ Goto(s, IF ready_srv = NULL THEN "idle" ELSE "rdy_cas")
  /\ UNCHANGED <<slots, counts, links, turns, state, flaps, strms>>

(* CAS newserv->served from 0 to 1: only an idle server is taken *)
TakeReadySlot(s) ==
  LET v == th[s].srv IN
  /\ pc[s] = "rdy_cas"
  /\ IF served[v] = 0 THEN served' = Add(served, v, 1) /\ Goto(s, "rdy_lock")
                      ELSE UNCHANGED served /\ Goto(s, "idle")
  /\ UNCHANGED <<cur_sess, px_served, counts, links, turns, srvs, strms, th>>

(* take the entry back out of the queue, unless someone dequeued it *)
UnqueueSelf(s) ==
  LET q == QueueOf(s) IN
  /\ pc[s] = "rdy_lock" /\ lock[q] = NULL
  /\ tree' = [tree EXCEPT ![q] = Without(@, s)]
  /\ Goto(s, IF Linked(s) THEN "rdy_take" ELSE "rdy_undo")
  /\ UNCHANGED <<slots, counts, lock, del_lock, turns, srvs, strms, th>>

GiveReadyBack(s) ==
  /\ pc[s] = "rdy_undo"
  /\ served' = Add(served, th[s].srv, -1)
  /\ Goto(s, "idle")
  /\ UNCHANGED <<cur_sess, px_served, counts, links, turns, srvs, strms, th>>

RunOnReady(s) ==
  LET v == th[s].srv IN
  /\ pc[s] = "rdy_take"
  /\ length' = Add(length, QueueOf(s), -1)
  /\ queueslength' = Add(queueslength, pend[s].owner, -1)
  /\ totpend' = totpend - 1
  /\ pend' = [pend EXCEPT ![s] = NULL]
  /\ px_served' = px_served + 1
  /\ strm' = [strm EXCEPT ![s] = [@ EXCEPT !.st = "ASS", !.assigned = TRUE,
                                    !.target = v, !.srv_conn = v]]
  /\ Goto(s, "idle")
  /\ UNCHANGED <<served, cur_sess, links, turns, srvs, woken, th>>

-----------------------------------------------------------------------------
SrvQueue(p) == <<th[p].srv, th[p].cur>>
PxQueue(p) == <<Px, th[p].cur>>
OwnTurn(p) == <<th[p].srv, Group[p]>>

(* process_srv_queue(): the group whose queues are visited next, and how   *)
(* many entries may be taken from them in a row.                           *)
NextOther(p) ==
  LET last == last_other[OwnTurn(p)]
      Rank(g) == (g - last - 1) % Cardinality(Groups)
      others == th[p].grps \ {Group[p]}
  IN  CHOOSE g \in others : \A h \in others : Rank(g) <= Rank(h)

TurnIsOver(p) ==
  /\ self_served[OwnTurn(p)] = MaxSelfUse
  /\ Cardinality(th[p].grps) > 1

PickGroup(p) ==
  IF Group[p] \notin th[p].grps \/ TurnIsOver(p)
    THEN [cur |-> NextOther(p), todo |-> 1]
    ELSE [cur |-> Group[p],
          todo |-> MaxSelfUse - (self_served[OwnTurn(p)] % MaxSelfUse)]

(* process_srv_queue() returns to its caller *)
Return(p) == Goto(p, th[p].ret) /\ th' = [th EXCEPT ![p] = NoLocals]

(* the loop's condition and the choice of a group ... *)
LoopHead(p) ==
  LET v == th[p].srv
      go == /\ th[p].grps # {} /\ served[v] < MaxConn[v]
            /\ th[p].done < MaxPoll \/ served[v] = 0
      g == PickGroup(p)
  IN
  /\ pc[p] = "loop"
  /\ IF go
       THEN /\ last_other' = IF g.cur = Group[p] THEN last_other
                             ELSE [last_other EXCEPT ![OwnTurn(p)] = g.cur]
            /\ th' = [th EXCEPT ![p].cur = g.cur, ![p].todo = g.todo]
            /\ Goto(p, "turn")
       ELSE /\ Goto(p, IF th[p].done > 0 THEN "account" ELSE "idle_srv")
            /\ UNCHANGED <<last_other, th>>
  /\ UNCHANGED <<slots, counts, links, dequeuing, self_served, srvs, strms>>

(* ... then the XCHG on its dequeuing flag: one dequeuer per group *)
TakeTurn(p) ==
  /\ pc[p] = "turn"
  /\ IF dequeuing[SrvQueue(p)]
       THEN /\ th' = [th EXCEPT ![p].grps = @ \ {th[p].cur}]
            /\ Goto(p, "loop") /\ UNCHANGED dequeuing
       ELSE /\ dequeuing' = [dequeuing EXCEPT ![SrvQueue(p)] = TRUE]
            /\ Goto(p, "lock") /\ UNCHANGED th
  /\ UNCHANGED <<slots, counts, links, self_served, last_other, srvs, strms>>

InnerGuard(p) == th[p].todo > 0 /\ served[th[p].srv] < MaxConn[th[p].srv]

LockServerQueue(p) ==
  /\ pc[p] = "lock" /\ lock[SrvQueue(p)] = NULL
  /\ lock' = [lock EXCEPT ![SrvQueue(p)] = p]
  /\ Goto(p, IF InnerGuard(p) THEN "peek" ELSE "unlock")
  /\ UNCHANGED <<slots, counts, tree, del_lock, turns, srvs, strms, th>>

InnerLoop(p) ==
  /\ pc[p] = "inner"
  /\ Goto(p, IF InnerGuard(p) THEN "peek" ELSE "unlock")
  /\ UNCHANGED <<slots, counts, links, turns, srvs, strms, th>>

NothingDoneAgain(p) ==
  IF th[p].retry
    THEN Goto(p, "next_grp") /\ th' = [th EXCEPT ![p].p = NULL, ![p].pp = NULL]
    ELSE Goto(p, "unlock") /\ th' = [th EXCEPT ![p].p = NULL, ![p].pp = NULL]

(* pendconn_process_next_strm() returns 0 *)
NothingDone(p) ==
  IF th[p].retry
    THEN Goto(p, "next_grp") /\ th' = [th EXCEPT ![p].p = NULL, ![p].pp = NULL]
    ELSE /\ Goto(p, "unlock")
         /\ th' = [th EXCEPT ![p].p = NULL, ![p].pp = NULL, ![p].grps = @ \ {th[p].cur}]

(* pendconn_process_next_strm(): peek at both queues; the backend's lock   *)
(* stays held as long as an entry of its queue is considered               *)
PeekQueues(p) ==
  LET sq == SrvQueue(p)
      pq == PxQueue(p)
      look == th[p].px_ok /\ length[pq] > 0
      e == IF length[sq] > 0 THEN First(tree[sq]) ELSE NULL
      ee == IF look THEN First(tree[pq]) ELSE NULL
  IN
  /\ pc[p] = "peek" /\ (look => lock[pq] = NULL)
  /\ lock' = IF ee # NULL THEN [lock EXCEPT ![pq] = p] ELSE lock
  /\ IF e = NULL /\ ee = NULL
       THEN NothingDone(p)
       ELSE Goto(p, "reserve") /\ th' = [th EXCEPT ![p].p = e, ![p].pp = ee]
  /\ UNCHANGED <<slots, counts, tree, del_lock, turns, srvs, strms>>

UnlockPx(p) == IF th[p].pp # NULL THEN [lock EXCEPT ![PxQueue(p)] = NULL] ELSE lock

ReserveSlot(p) ==
  LET v == th[p].srv IN
  /\ pc[p] = "reserve"
  /\ IF served[v] < MaxConn[v]
       THEN served' = Add(served, v, 1) /\ Goto(p, "pick") /\ UNCHANGED <<lock, th>>
       ELSE lock' = UnlockPx(p) /\ NothingDone(p) /\ UNCHANGED served
  /\ UNCHANGED <<cur_sess, px_served, counts, tree, del_lock, turns, srvs, strms>>

ProxyFirst(p) == th[p].pp # NULL

(* class, then date: the server's own entry wins a tie *)
UsePp(p) == /\ th[p].pp # NULL
            /\ th[p].p # NULL => Key[th[p].pp] < Key[th[p].p]

Assign(s, v) == [pend EXCEPT ![s].assigned = TRUE, ![s].target = v]

(* use_p: everything happens under the server queue's lock *)
UseServerEntry(p) ==
  LET s == th[p].p IN
  /\ pc[p] = "pick" /\ ~UsePp(p)
  /\ lock' = UnlockPx(p)
  /\ pend' = Assign(s, th[p].srv)
  /\ strm' = [strm EXCEPT ![s].srv_conn = th[p].srv]
  /\ woken' = [woken EXCEPT ![s] = TRUE]
  /\ tree' = [tree EXCEPT ![SrvQueue(p)] = Without(@, s)]
  /\ th' = [th EXCEPT ![p].p = NULL, ![p].pp = NULL]
  /\ Goto(p, "count_srv")
  /\ UNCHANGED <<slots, counts, del_lock, turns, srvs>>

UseProxyEntryUnheld(p) ==
  LET s == th[p].pp IN
  /\ pc[p] = "pick" /\ UsePp(p)
  /\ tree' = [tree EXCEPT ![PxQueue(p)] = Without(@, s)]
  /\ lock' = UnlockPx(p)
  /\ Goto(p, "tell")
  /\ UNCHANGED <<slots, counts, del_lock, turns, srvs, strms, th>>

(* use_pp: the entry's own lock replaces the queue's before the stream is  *)
(* told                                                                    *)
UseProxyEntry(p) ==
  LET s == th[p].pp IN
  /\ pc[p] = "pick" /\ UsePp(p) /\ del_lock[s] = NULL
  /\ del_lock' = [del_lock EXCEPT ![s] = p]
  /\ tree' = [tree EXCEPT ![PxQueue(p)] = Without(@, s)]
  /\ lock' = UnlockPx(p)
  /\ Goto(p, "tell")
  /\ UNCHANGED <<slots, counts, turns, srvs, strms, th>>

TellProxyEntry(p) ==
  LET s == th[p].pp IN
  /\ pc[p] = "tell"
  /\ pend' = Assign(s, th[p].srv)
  /\ strm' = [strm EXCEPT ![s].srv_conn = th[p].srv]
  /\ woken' = [woken EXCEPT ![s] = TRUE]
  /\ del_lock' = [del_lock EXCEPT ![s] = NULL]
  /\ th' = [th EXCEPT ![p].p = NULL, ![p].pp = NULL]
  /\ Goto(p, "count_px")
  /\ UNCHANGED <<slots, counts, tree, lock, turns, srvs>>

(* counters of the queue the entry left, and the end of the round *)
CountDequeued(p) ==
  LET q == IF pc[p] = "count_px" THEN PxQueue(p) ELSE SrvQueue(p) IN
  /\ pc[p] \in {"count_px", "count_srv"}
  /\ length' = Add(length, q, -1)
  /\ queueslength' = Add(queueslength, q[1], -1)
  /\ IF th[p].retry
       THEN /\ lock' = [lock EXCEPT ![SrvQueue(p)] = NULL]
            /\ Goto(p, "retry_acc")
            /\ UNCHANGED <<self_served, th>>
       ELSE /\ self_served' = IF th[p].cur = Group[p]
                 THEN [self_served EXCEPT ![OwnTurn(p)] = (@ + 1) % (MaxSelfUse + 1)]
                 ELSE self_served
            /\ th' = [th EXCEPT ![p].todo = @ - 1, ![p].done = @ + 1]
            /\ Goto(p, IF th[p].done + 1 >= MaxPoll THEN "unlock" ELSE "inner")
            /\ UNCHANGED lock
  /\ UNCHANGED <<slots, totpend, tree, del_lock, dequeuing, last_other, srvs, strms>>

UnlockServerQueue(p) ==
  /\ pc[p] = "unlock"
  /\ dequeuing' = [dequeuing EXCEPT ![SrvQueue(p)] = FALSE]
  /\ lock' = [lock EXCEPT ![SrvQueue(p)] = NULL]
  /\ Goto(p, "loop")
  /\ UNCHANGED <<slots, counts, tree, del_lock, self_served, last_other, srvs, strms, th>>

(* totpend and px->served are only corrected once all entries are out *)
Account(p) ==
  /\ pc[p] = "account"
  /\ totpend' = totpend - th[p].done
  /\ px_served' = px_served + th[p].done
  /\ Goto(p, "idle_srv")
  /\ UNCHANGED <<served, cur_sess, queueslength, length, links, turns, srvs, strms, th>>

CheckIdle(p) ==
  LET v == th[p].srv IN
  /\ pc[p] = "idle_srv"
  /\ IF served[v] = 0 /\ px_served = 0 /\ ready_srv = NULL
       THEN Goto(p, "set_ready") /\ UNCHANGED th
       ELSE Return(p)
  /\ UNCHANGED <<slots, counts, links, turns, srvs, strms>>

SetReadyOnly(p) ==
  /\ pc[p] = "set_ready"
  /\ ready_srv' = th[p].srv
  /\ Return(p)
  /\ UNCHANGED <<slots, counts, links, turns, state, flaps, strms>>

(* ready_srv is published, then every group is tried once more *)
SetReady(p) ==
  /\ pc[p] = "set_ready"
  /\ ready_srv' = th[p].srv
  /\ th' = [th EXCEPT ![p].cur = 1, ![p].retry = TRUE]
  /\ Goto(p, "retry")
  /\ UNCHANGED <<slots, counts, links, turns, state, flaps, strms>>

RetryGroup(p) ==
  /\ pc[p] = "retry" /\ lock[SrvQueue(p)] = NULL
  /\ lock' = [lock EXCEPT ![SrvQueue(p)] = p]
  /\ Goto(p, "peek")
  /\ UNCHANGED <<slots, counts, tree, del_lock, turns, srvs, strms, th>>

RetryAccount(p) ==
  /\ pc[p] = "retry_acc"
  /\ totpend' = totpend - 1 /\ px_served' = px_served + 1
  /\ Return(p)
  /\ UNCHANGED <<served, cur_sess, queueslength, length, links, turns, srvs, strms>>

NextGroup(p) ==
  /\ pc[p] = "next_grp"
  /\ lock' = [lock EXCEPT ![SrvQueue(p)] = NULL]
  /\ IF th[p].cur = Cardinality(Groups)
       THEN Return(p)
       ELSE Goto(p, "retry") /\ th' = [th EXCEPT ![p].cur = @ + 1]
  /\ UNCHANGED <<slots, counts, tree, del_lock, turns, srvs, strms>>

-----------------------------------------------------------------------------
(* back_try_conn_req() in SC_ST_QUE, woken up or expired: pendconn_dequeue *)
(* first looks at the entry under the queue's lock ...                     *)
pendconn_dequeue(s) ==
  /\ strm[s].st = "QUE" /\ pc[s] = "idle"
  /\ lock[QueueOf(s)] = NULL
  /\ \E expired \in {FALSE, Timeouts} :
       /\ woken[s] \/ expired
       /\ th' = [th EXCEPT ![s].expired = expired]
  /\ woken' = [woken EXCEPT ![s] = FALSE]
  /\ Goto(s, IF Linked(s) THEN "still" ELSE "out")
  /\ UNCHANGED <<slots, counts, links, turns, srvs, strm, pend>>

(* ... then waits for whoever is still working on it.  A linked entry      *)
(* stays, unless the queue timeout struck or the client left.              *)
StillQueued(s) ==
  /\ pc[s] = "still" /\ del_lock[s] = NULL
  /\ IF th[s].expired
       THEN /\ strm' = [strm EXCEPT ![s].st = "CLO"]
            /\ th' = [th EXCEPT ![s] = NoLocals]
            /\ Goto(s, "unlink")
       ELSE UNCHANGED <<strm, th>> /\ Goto(s, "idle")
  /\ UNCHANGED <<slots, counts, links, turns, srvs, pend, woken>>

TakeResult(s) ==
  LET e == pend[s] IN
  /\ pc[s] = "out" /\ del_lock[s] = NULL
  /\ strm' = [strm EXCEPT ![s] =
                [@ EXCEPT !.st = IF e.assigned THEN "ASS" ELSE "REQ",
                          !.assigned = e.assigned, !.direct = e.direct,
                          !.target = IF e.target = NULL THEN strm[s].target ELSE e.target]]
  /\ pend' = [pend EXCEPT ![s] = NULL]
  /\ th' = [th EXCEPT ![s] = NoLocals]
  /\ Goto(s, "idle")
  /\ UNCHANGED <<slots, counts, links, turns, srvs, woken>>

(* pendconn_unlink(), by the stream itself *)
pendconn_unlink(s) ==
  LET q == QueueOf(s) IN
  /\ pc[s] = "unlink" /\ lock[q] = NULL /\ del_lock[s] = NULL
  /\ tree' = [tree EXCEPT ![q] = Without(@, s)]
  /\ th' = [th EXCEPT ![s].xfer = IF Linked(s) THEN 1 ELSE 0]
  /\ Goto(s, "unlinked")
  /\ UNCHANGED <<slots, counts, lock, del_lock, turns, srvs, strms>>

CountUnlinkedAlways(s) ==
  /\ pc[s] = "unlinked"
  /\ queueslength' = Add(queueslength, pend[s].owner, -1)
  /\ length' = Add(length, QueueOf(s), -1)
  /\ totpend' = totpend - 1
  /\ th' = [th EXCEPT ![s] = [NoLocals EXCEPT !.ret = th[s].ret]]
  /\ Goto(s, th[s].ret)
  /\ UNCHANGED <<slots, links, turns, srvs, strms>>

CountUnlinked(s) ==
  LET n == th[s].xfer IN
  /\ pc[s] = "unlinked"
  /\ queueslength' = Add(queueslength, pend[s].owner, -n)
  /\ length' = Add(length, QueueOf(s), -n)
  /\ totpend' = totpend - n
  /\ th' = [th EXCEPT ![s] = [NoLocals EXCEPT !.ret = th[s].ret]]
  /\ Goto(s, th[s].ret)
  /\ UNCHANGED <<slots, links, turns, srvs, strms>>

-----------------------------------------------------------------------------
(* connect_server() *)
connect_server(s) ==
  /\ strm[s].st = "ASS" /\ pc[s] = "idle"
  /\ cur_sess' = Add(cur_sess, strm[s].target, 1)
  /\ strm' = [strm EXCEPT ![s].st = "CON", ![s].curr = TRUE]
  /\ UNCHANGED <<served, px_served, counts, links, turns, srvs, pend, woken, pc, th>>

(* the client left: the slot is kept until stream_free() *)
AbortConnection(s) ==
  /\ strm[s].st = "ASS" /\ pc[s] = "idle" /\ EarlyFails
  /\ strm' = [strm EXCEPT ![s].st = "CLO"]
  /\ UNCHANGED <<slots, counts, links, turns, srvs, pend, woken, pc, th>>

(* sess_change_server(s, NULL) then the queue of the server it left *)
Release(s, v, ret) ==
  IF strm[s].srv_conn # NULL
    THEN Goto(s, "detach") /\ th' = [th EXCEPT ![s] = ProcessQueue(v, ret)]
    ELSE CallProcessQueue(s, v, ret)

(* The attempt failed at once, or later, or the exchange ended: if it is   *)
(* set, SF_CURR_SESS is dropped before the slot.                           *)
LeaveServer(s, next) ==
  /\ strm[s].st \in (IF EarlyFails THEN {"ASS", "CON"} ELSE {"CON"}) /\ pc[s] = "idle"
  /\ cur_sess' = IF strm[s].curr THEN Add(cur_sess, strm[s].target, -1) ELSE cur_sess
  /\ strm' = [strm EXCEPT ![s] = next]
  /\ UNCHANGED <<served, px_served, counts, links, turns, srvs, pend, woken>>

(* the exchange is over, or the connection failed for good *)
EndOfStream(s) ==
  /\ LeaveServer(s, [strm[s] EXCEPT !.st = "CLO", !.curr = FALSE])
  /\ Release(s, strm[s].target, "idle")

(* back_handle_st_cer() and stream_choose_redispatch(): same server and    *)
(* same slot, or back to the load balancer without one                     *)
RetrySameServer(s) ==
  /\ strm[s].retries < MaxRetries
  /\ LeaveServer(s, [strm[s] EXCEPT !.st = "ASS", !.curr = FALSE, !.retries = @ + 1])
  /\ UNCHANGED <<pc, th>>

Redispatch(s) ==
  /\ strm[s].retries < MaxRetries /\ Redisp
  /\ LeaveServer(s, [strm[s] EXCEPT !.st = "REQ", !.curr = FALSE, !.retries = @ + 1,
                                    !.assigned = FALSE, !.direct = FALSE])
  /\ Release(s, strm[s].target, "idle")

DetachSlot(s) ==
  /\ pc[s] = "detach"
  /\ px_served' = px_served - 1
  /\ th' = [th EXCEPT ![s].owner = strm[s].srv_conn]
  /\ strm' = [strm EXCEPT ![s].srv_conn = NULL]
  /\ Goto(s, "drop")
  /\ UNCHANGED <<served, cur_sess, counts, links, turns, srvs, pend, woken>>

DropSlot(s) ==
  /\ pc[s] = "drop"
  /\ served' = Add(served, th[s].owner, -1)
  /\ Goto(s, "dequeue")
  /\ UNCHANGED <<cur_sess, px_served, counts, links, turns, srvs, strms, th>>

MayDequeue(s) ==
  /\ pc[s] = "dequeue"
  /\ CallProcessQueue(s, th[s].srv, th[s].ret)
  /\ UNCHANGED <<slots, counts, links, turns, srvs, strms>>

(* stream_free(): the queue entry, then the slots *)
FreeEntry(s) ==
  /\ pend' = [pend EXCEPT ![s] = NULL]
  /\ CallProcessQueue(s, strm[s].target, "free_slot")

StreamFree(s) ==
  /\ strm[s].st = "CLO" /\ pc[s] = "idle"
  /\ IF pend[s] # NULL
       THEN Goto(s, "unlink") /\ th' = [th EXCEPT ![s].ret = "freed"] /\ UNCHANGED pend
       ELSE FreeEntry(s)
  /\ UNCHANGED <<slots, counts, links, turns, srvs, strm, woken>>

FreeUnlinked(s) ==
  /\ pc[s] = "freed" /\ FreeEntry(s)
  /\ UNCHANGED <<slots, counts, links, turns, srvs, strm, woken>>

FreeSlot(s) ==
  /\ pc[s] = "free_slot" /\ strm[s].srv_conn # NULL
  /\ Release(s, strm[s].srv_conn, "gone")
  /\ UNCHANGED <<slots, counts, links, turns, srvs, strms>>

GoneWithSlot(s) ==
  /\ pc[s] \in {"gone", "free_slot"}
  /\ strm' = [strm EXCEPT ![s] = [NewStream EXCEPT !.st = "GONE",
                                            !.srv_conn = strm[s].srv_conn]]
  /\ woken' = [woken EXCEPT ![s] = FALSE]
  /\ Goto(s, "idle")
  /\ UNCHANGED <<slots, counts, links, turns, srvs, pend, th>>

Gone(s) ==
  /\ pc[s] = "gone" \/ (pc[s] = "free_slot" /\ strm[s].srv_conn = NULL)
  /\ strm' = [strm EXCEPT ![s] = [NewStream EXCEPT !.st = "GONE",
                                            !.srv_conn = strm[s].srv_conn]]
  /\ woken' = [woken EXCEPT ![s] = FALSE]
  /\ Goto(s, "idle")
  /\ UNCHANGED <<slots, counts, links, turns, srvs, pend, th>>

-----------------------------------------------------------------------------
(* srv_update_status(): a server leaves; pendconn_redistribute() skips the *)
(* server's own queue unless it is in maintenance or option redispatch is  *)
(* set without option persist.                                             *)
ServerDown(v) ==
  /\ pc[Admin] = "idle" /\ srv_currently_usable(v) /\ flaps < MaxFlaps
  /\ \E why \in Downs :
       /\ state' = [state EXCEPT ![v] = why]
       /\ Goto(Admin, IF why = "maint" \/ (Redisp /\ ~Persist) THEN "redist" ELSE "redist_px")
  /\ th' = [th EXCEPT ![Admin] = [NoLocals EXCEPT !.srv = v, !.owner = v]]
  /\ flaps' = flaps + 1
  /\ UNCHANGED <<slots, counts, links, turns, ready_srv, strms>>

(* Every entry of one group's queue is unlinked and its stream woken up.   *)
(* An entry of the server's queue only forgets its server when option      *)
(* redispatch is not set.                                                  *)
RedistributeGroup ==
  LET o == th[Admin].owner
      q == <<o, th[Admin].cur>>
      out == {tree[q][i] : i \in DOMAIN tree[q]}
  IN
  /\ pc[Admin] = "redist" /\ lock[q] = NULL
  /\ tree' = [tree EXCEPT ![q] = <<>>]
  /\ pend' = [s \in Streams |-> IF s \in out /\ o # Px /\ ~Redisp
                THEN [pend[s] EXCEPT !.assigned = FALSE, !.direct = FALSE]
                ELSE pend[s]]
  /\ woken' = [s \in Streams |-> woken[s] \/ s \in out]
  /\ th' = [th EXCEPT ![Admin].xfer = @ + Len(tree[q]), ![Admin].done = Len(tree[q])]
  /\ Goto(Admin, "redist_len")
  /\ UNCHANGED <<slots, counts, lock, del_lock, turns, srvs, strm>>

(* its length is corrected after the unlock, then comes the next group *)
RedistributeLength ==
  LET q == <<th[Admin].owner, th[Admin].cur>>
      last == th[Admin].cur = Cardinality(Groups)
  IN
  /\ pc[Admin] = "redist_len"
  /\ length' = Add(length, q, -th[Admin].done)
  /\ IF last THEN UNCHANGED th ELSE th' = [th EXCEPT ![Admin].cur = @ + 1]
  /\ Goto(Admin, IF last THEN "redist_cnt" ELSE "redist")
  /\ UNCHANGED <<slots, totpend, queueslength, links, turns, srvs, strms>>

CountRedistributed ==
  LET o == th[Admin].owner IN
  /\ pc[Admin] = "redist_cnt"
  /\ queueslength' = Add(queueslength, o, -th[Admin].xfer)
  /\ totpend' = totpend - th[Admin].xfer
  /\ Goto(Admin, IF o = Px THEN "clear_ready" ELSE "redist_px")
  /\ th' = [th EXCEPT ![Admin] = [NoLocals EXCEPT !.srv = th[Admin].srv]]
  /\ UNCHANGED <<slots, length, links, turns, srvs, strms>>

(* the backend's queues are emptied when no server is left *)
RedistributeProxy ==
  /\ pc[Admin] = "redist_px"
  /\ Goto(Admin, IF Usable = {} THEN "redist" ELSE "clear_ready")
  /\ th' = [th EXCEPT ![Admin].owner = Px, ![Admin].cur = 1]
  /\ UNCHANGED <<slots, counts, links, turns, srvs, strms>>

(* "let's not pretend it can handle requests": only when cur_state changed *)
ClearReady ==
  LET v == th[Admin].srv IN
  /\ pc[Admin] = "clear_ready"
  /\ ready_srv' = IF ready_srv = v /\ state[v] # "drain" THEN NULL ELSE ready_srv
  /\ th' = [th EXCEPT ![Admin] = NoLocals]
  /\ Goto(Admin, "idle")
  /\ UNCHANGED <<slots, counts, links, turns, state, flaps, strms>>

(* The server is back.  Leaving drain mode does not look at the queues. *)
ServerUp(v) ==
  /\ pc[Admin] = "idle" /\ ~srv_currently_usable(v)
  /\ state' = [state EXCEPT ![v] = "up"]
  /\ IF state[v] = "drain"
       THEN UNCHANGED <<pc, th>>
       ELSE /\ Goto(Admin, "loop")
            /\ th' = [th EXCEPT ![Admin] = [ProcessQueue(v, "idle") EXCEPT !.px_ok = TRUE]]
  /\ UNCHANGED <<slots, counts, links, turns, ready_srv, flaps, strms>>

-----------------------------------------------------------------------------
process_srv_queue(p) ==
  \/ LoopHead(p) \/ TakeTurn(p) \/ LockServerQueue(p) \/ InnerLoop(p) \/ PeekQueues(p)
  \/ ReserveSlot(p) \/ UseServerEntry(p) \/ UseProxyEntry(p) \/ TellProxyEntry(p)
  \/ CountDequeued(p) \/ UnlockServerQueue(p) \/ Account(p) \/ CheckIdle(p)
  \/ SetReady(p) \/ RetryGroup(p) \/ RetryAccount(p) \/ NextGroup(p)

assign_server_and_queue(s) ==
  \/ assign_server(s) \/ CheckRoom(s) \/ TakeSlot(s) \/ AttachSlot(s)
  \/ pendconn_add(s) \/ NoEntry(s) \/ InsertEntry(s) \/ CountPending(s)
  \/ GrabReady(s) \/ TakeReadySlot(s) \/ UnqueueSelf(s) \/ GiveReadyBack(s) \/ RunOnReady(s)

LeaveQueue(s) ==
  \/ pendconn_dequeue(s) \/ StillQueued(s) \/ TakeResult(s)
  \/ pendconn_unlink(s) \/ CountUnlinked(s)

Serve(s) == \/ connect_server(s) \/ AbortConnection(s) \/ EndOfStream(s)
            \/ RetrySameServer(s) \/ Redispatch(s) \/ DetachSlot(s) \/ DropSlot(s) \/ MayDequeue(s)

stream_free(s) == StreamFree(s) \/ FreeUnlinked(s) \/ FreeSlot(s) \/ Gone(s)

StreamStep(s) == \/ assign_server_and_queue(s) \/ LeaveQueue(s) \/ Serve(s)
                 \/ stream_free(s) \/ process_srv_queue(s)

AdminStep == \/ RedistributeGroup \/ RedistributeLength \/ CountRedistributed
             \/ RedistributeProxy \/ ClearReady \/ process_srv_queue(Admin)

AllGone == \A s \in Streams : strm[s].st = "GONE"

(* the backend has nothing left to do *)
Over == /\ AllGone /\ pc[Admin] = "idle" /\ UNCHANGED vars

Next ==
  \/ \E s \in Streams : Arrive(s) \/ StreamStep(s)
  \/ AdminStep
  \/ \E v \in Servers : ServerDown(v) \/ ServerUp(v)
  \/ Over

Spec == Init /\ [][Next]_vars

(* Threads are never starved and a connection always ends; nobody promises *)
(* that requests arrive or that servers change state.                      *)
FairSpec == /\ Spec
            /\ \A s \in Streams : WF_vars(StreamStep(s))
            /\ WF_vars(AdminStep)

-----------------------------------------------------------------------------
States == {"INI", "REQ", "QUE", "ASS", "CON", "CLO", "GONE"}
Labels == {"idle", "cas", "got", "enqueue", "insert", "added", "ready", "rdy_cas",
           "rdy_lock", "rdy_take", "rdy_undo", "loop", "turn", "lock", "inner", "peek",
           "reserve", "pick", "tell", "count_px", "count_srv", "unlock", "account",
           "idle_srv", "set_ready", "retry", "retry_acc", "next_grp",
           "still", "out", "unlink", "unlinked", "detach", "drop", "dequeue",
           "freed", "free_slot", "gone", "redist", "redist_len", "redist_cnt",
           "redist_px", "clear_ready"}

Stream == [st : States, assigned : BOOLEAN, direct : BOOLEAN, target : NServer,
           srv_conn : NServer, curr : BOOLEAN, retries : 0 .. MaxRetries]
Locals == [srv : NServer, ret : Labels, px_ok : BOOLEAN, grps : SUBSET Groups,
           done : Nat, cur : Groups, todo : Int, p : Streams \cup {NULL},
           pp : Streams \cup {NULL}, retry : BOOLEAN, owner : Owners \cup {NULL},
           xfer : Nat, expired : BOOLEAN]

SlotTypes == /\ served \in [Servers -> Int] /\ cur_sess \in [Servers -> Int]
             /\ px_served \in Int
CountTypes == /\ totpend \in Int /\ queueslength \in [Owners -> Int]
              /\ length \in [Queues -> Int]
LinkTypes == /\ tree \in [Queues -> Seq(Streams)]
             /\ lock \in [Queues -> Procs \cup {NULL}]
             /\ del_lock \in [Streams -> Procs \cup {NULL}]
TurnTypes == /\ dequeuing \in [Servers \X Groups -> BOOLEAN]
             /\ self_served \in [Servers \X Groups -> 0 .. MaxSelfUse]
             /\ last_other \in [Servers \X Groups -> Groups \cup {0}]
SrvTypes == /\ state \in [Servers -> {"up", "stopped", "maint", "drain"}]
            /\ ready_srv \in NServer /\ flaps \in 0 .. MaxFlaps
StrmTypes == /\ strm \in [Streams -> Stream] /\ pend \in [Streams -> Entry \cup {NULL}]
             /\ woken \in [Streams -> BOOLEAN]
ProcTypes == pc \in [Procs -> Labels] /\ th \in [Procs -> Locals]

(* Every variable keeps its type. *)
TypeOK == /\ SlotTypes /\ CountTypes /\ LinkTypes /\ TurnTypes /\ SrvTypes
          /\ StrmTypes /\ ProcTypes

(* Slots reserved on a server and not (or no longer) attached to a stream. *)
SlotInTransit(p) ==
  IF pc[p] = "got" THEN strm[p].target
  ELSE IF pc[p] \in {"rdy_lock", "rdy_take", "rdy_undo", "pick", "tell"} THEN th[p].srv
  ELSE IF pc[p] = "drop" THEN th[p].owner
  ELSE NULL

(* server->served is exactly the number of slots in use: every increment   *)
(* by a CAS ends up attached to one stream or given back, once, whatever   *)
(* the timeouts, redispatches and dequeues that race with it.              *)
SlotsAccounted ==
  \A v \in Servers :
    served[v] = Cardinality({s \in Streams : strm[s].srv_conn = v})
              + Cardinality({p \in Procs : SlotInTransit(p) = v})

(* No more than maxconn streams use a server at once. *)
MaxconnRespected ==
  \A v \in Servers :
    /\ served[v] <= MaxConn[v]
    /\ Cardinality({s \in Streams : strm[s].curr /\ strm[s].target = v}) <= MaxConn[v]

(* The process that dequeues an entry never works on one its stream freed: *)
(* both locks and the del_lock hand-over of pendconn_process_next_strm().  *)
EntryAlive ==
  \A p \in Procs : \A s \in {th[p].p, th[p].pp} \ {NULL} :
    pend[s] # NULL /\ strm[s].st \in {"REQ", "QUE", "CLO"}

(* A linked entry belongs to a waiting stream without a slot, and is in    *)
(* the queue its pendconn names.                                           *)
LinkedIsWaiting ==
  \A q \in Queues : \A i \in DOMAIN tree[q] :
    LET s == tree[q][i] IN
    /\ pend[s] # NULL /\ QueueOf(s) = q
    /\ strm[s].srv_conn = NULL /\ pend[s].target = NULL
    /\ \A j \in DOMAIN tree[q] : tree[q][j] = s => i = j

(* A freed stream has given its slot and its queue entry back, also when   *)
(* it was dequeued while it was timing out.                                *)
NothingLeaked == \A s \in Streams :
  strm[s].st = "GONE" => strm[s].srv_conn = NULL /\ pend[s] = NULL /\ del_lock[s] = NULL

(* no process is inside an operation *)
Settled == \A p \in Procs : pc[p] = "idle"
Sum(f, S) == SumFunctionOnSet(f, S)

(* Between operations every counter agrees with what it counts: length and *)
(* queueslength with the trees, totpend with all of them, proxy->served    *)
(* with the streams attached to a server.                                  *)
CountersSettle == Settled =>
  /\ \A q \in Queues : length[q] = Len(tree[q])
  /\ \A o \in Owners : queueslength[o] = Sum(length, {o} \X Groups)
  /\ totpend = Sum(queueslength, Owners)
  /\ px_served = Cardinality({s \in Streams : strm[s].srv_conn # NULL})

(* nothing is going on: the remaining streams wait for someone else *)
Quiet == /\ Settled
         /\ \A s \in Streams : strm[s].st \in {"INI", "QUE", "GONE"} /\ ~woken[s]

(* The backend never falls asleep on a queued request: when nothing runs   *)
(* any more, neither its queues nor its servers' hold an entry.            *)
NoRequestStranded == Quiet => \A s \in Streams : ~Linked(s)

(* The hand-over through ready_srv works: at rest, as long as a server is  *)
(* announced as ready and can be used, no request waits in the backend's   *)
(* queues; it was seen by the announcer or saw the announcement.           *)
ReadyHandover ==
  Quiet /\ ready_srv \in Usable => \A g \in Groups : tree[<<Px, g>>] = <<>>

(* The entry that leaves is the most urgent of those the dequeuer could    *)
(* see: the best of the server's queue and of the backend's, compared by   *)
(* class and date, while both stay locked.                                 *)
DequeueInOrder == [][
  \A p \in Procs : pc[p] = "pick" /\ pc'[p] # "pick" =>
    \A e \in Streams : Linked(e) /\ ~Linked(e)' =>
      \A q \in {SrvQueue(p)} \cup (IF th[p].pp # NULL THEN {PxQueue(p)} ELSE {}) :
        \A i \in DOMAIN tree[q] : Key[e] <= Key[tree[q][i]]]_vars

(* A request that asks for a server is served, redispatched, refused or    *)
(* timed out, and its stream released: no order in which the queue locks,  *)
(* the del_lock and the dequeuing flags are taken blocks a stream for      *)
(* ever, and no loop on them spins for ever. A stream makes one request.   *)
EveryRequestEnds == []<>(\A s \in Streams : strm[s].st \in {"INI", "GONE"})
=============================================================================
