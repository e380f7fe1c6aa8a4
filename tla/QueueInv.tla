------------------------------ MODULE QueueInv ------------------------------
(***************************************************************************)
(* The inductive invariant of Queue: what is true of each process, of each *)
(* stream and of each queue between any two steps.                         *)
(***************************************************************************)
EXTENDS Queue

(* labels of process_srv_queue(), and those under the server queue's lock *)
Locked == {"peek", "inner", "reserve", "pick", "tell", "count_px", "count_srv",
           "unlock", "next_grp"}
Dequeuing == Locked \cup {"loop", "turn", "lock", "account", "idle_srv", "set_ready",
                          "retry", "retry_acc"}
AdminLabels == Dequeuing \cup {"idle", "redist", "redist_len", "redist_cnt", "redist_px",
                                "clear_ready"}
ReadyLabels == {"rdy_cas", "rdy_lock", "rdy_take", "rdy_undo"}

(* What a process knows of its locals, and where it goes back to. *)
ControlOK(p) ==
  /\ p = Admin => pc[p] \in AdminLabels /\ th[p].ret = "idle"
  /\ th[p].ret \in {"idle", "free_slot", "gone", "freed"}
  /\ pc[p] \in Dequeuing \cup {"detach", "drop", "dequeue"} => th[p].ret # "freed"
  /\ pc[p] \in Dequeuing \cup ReadyLabels
                 \cup {"redist", "redist_len", "redist_cnt", "redist_px", "clear_ready"} =>
       th[p].srv \in Servers
  /\ pc[p] \in {"redist", "redist_len", "redist_cnt"} => th[p].owner # NULL
  /\ pc[p] \in {"reserve", "pick"} => th[p].p # NULL \/ th[p].pp # NULL
  /\ pc[p] = "tell" => th[p].pp # NULL
  /\ th[p].p # NULL \/ th[p].pp # NULL => pc[p] \in {"reserve", "pick", "tell"}

(* A queue's lock belongs to the one process between lock and unlock, and  *)
(* an entry's del_lock to the one that is about to tell its stream.        *)
LockOK(p) ==
  /\ pc[p] \in Locked => lock[SrvQueue(p)] = p
  /\ pc[p] \in {"reserve", "pick"} /\ th[p].pp # NULL => lock[PxQueue(p)] = p
  /\ pc[p] = "tell" => del_lock[th[p].pp] = p

(* The entries a dequeuer considers stay linked until it picks one. *)
EntryOK(p) ==
  /\ th[p].p # NULL => InSeq(th[p].p, tree[SrvQueue(p)])
  /\ th[p].pp # NULL /\ pc[p] # "tell" => InSeq(th[p].pp, tree[PxQueue(p)])

(* What a stream owns at each stage: no slot before it has a server, a     *)
(* queue entry as long as it waits, and a slot only with SF_ASSIGNED.      *)
StreamOK(s) ==
  /\ pc[s] \in {"cas", "got", "enqueue", "insert", "added"} => strm[s].st = "REQ"
  /\ pc[s] \in {"cas", "got"} => strm[s].target \in Servers
  /\ strm[s].assigned => strm[s].target \in Servers
  /\ strm[s].st \in {"INI", "REQ"} /\ pc[s] \notin {"added", "detach"} =>
       strm[s].srv_conn = NULL
  /\ pc[s] \in ReadyLabels \cup {"ready", "still", "out"} => strm[s].st = "QUE"
  /\ strm[s].st = "QUE" \/ pc[s] \in {"insert", "added", "unlink", "unlinked"} =>
       pend[s] # NULL
  /\ pc[s] = "rdy_take" => strm[s].srv_conn = NULL
  /\ pc[s] = "insert" => pend[s].target = NULL
  /\ pend[s] # NULL /\ strm[s].srv_conn # NULL => pend[s].assigned
  /\ pend[s] # NULL /\ pend[s].assigned =>
       pend[s].target \in Servers \/ strm[s].target \in Servers
  /\ strm[s].st \in {"INI", "REQ", "ASS", "CON"} /\ pc[s] \notin {"insert", "added"} =>
       pend[s] = NULL
  /\ pc[s] \in {"freed", "unlink", "unlinked"} => strm[s].st = "CLO"
  /\ pc[s] \in {"unlink", "unlinked"} => th[s].ret \in {"idle", "freed"}

(* stream_free(), once the queue entry is gone and once the slot is *)
Freeing(s, ret, labels) ==
  pc[s] = ret \/ (pc[s] \in labels \cup {"drop", "dequeue"} \cup Dequeuing /\ th[s].ret = ret)

FreeOK(s) ==
  /\ Freeing(s, "free_slot", {"detach"}) \/ Freeing(s, "gone", {"detach"}) =>
       strm[s].st = "CLO" /\ pend[s] = NULL
  /\ Freeing(s, "gone", {}) => strm[s].srv_conn = NULL
  /\ strm[s].st = "GONE" => strm[s].srv_conn = NULL /\ pend[s] = NULL

(* A stream that waits in a queue, or that a dequeuer took out of it and   *)
(* has not told yet.                                                       *)
Waits(s, labels) ==
  /\ pend[s] # NULL /\ pend[s].target = NULL /\ strm[s].srv_conn = NULL
  /\ strm[s].st \in {"QUE", "CLO"} \/ pc[s] = "added"
  /\ pc[s] \in labels \cup Dequeuing
  /\ pc[s] \in Dequeuing => th[s].ret = "idle"

InQueue == {"added", "ready", "rdy_cas", "rdy_lock", "idle", "still", "unlink"}

LinkOK(s) ==
  /\ Linked(s) => Waits(s, InQueue)
  /\ \A q \in Queues : InSeq(s, tree[q]) => QueueOf(s) = q
  /\ del_lock[s] # NULL => /\ Waits(s, InQueue \cup {"rdy_undo", "out"}) /\ ~Linked(s)
                           /\ pc[del_lock[s]] = "tell" /\ th[del_lock[s]].pp = s

(* an entry is linked once *)
Distinct(seq) == \A i, j \in 1 .. Len(seq) : seq[i] = seq[j] => i = j

ProcsOK == \A p \in Procs : ControlOK(p) /\ LockOK(p) /\ EntryOK(p)
StreamsOK == \A s \in Streams : StreamOK(s) /\ FreeOK(s) /\ LinkOK(s)
QueuesOK == \A q \in Queues : Distinct(tree[q])

(* Every process holds the locks of the critical section it is in, every   *)
(* stream owns what its stage says, and every slot is accounted for.       *)
IInv == TypeOK /\ ProcsOK /\ StreamsOK /\ QueuesOK /\ SlotsAccounted

(* A stream that connects owns a slot of the server it connects to.  One   *)
(* that waits for the server it asked for stays linked until it has a slot *)
(* or has to choose again.                                                 *)
ConnectOK(s) ==
  /\ strm[s].curr => strm[s].st = "CON"
  /\ strm[s].st \in {"ASS", "CON"} =>
       pc[s] = "idle" /\ strm[s].target # NULL /\ strm[s].srv_conn = strm[s].target
  /\ pc[s] = "detach" => strm[s].st # "QUE"
  /\ pc[s] \in ReadyLabels \cup {"ready"} => pend[s].owner = Px
  /\ pend[s] # NULL /\ strm[s].st \in {"REQ", "QUE"} =>
       /\ pend[s].target # NULL => strm[s].srv_conn = pend[s].target
       /\ pend[s].target = NULL /\ pend[s].assigned =>
            pend[s].owner # Px /\ (pc[s] = "insert" \/ Linked(s))

(* pendconn_redistribute() does not empty a server's own queue when option *)
(* redispatch is set: no server leaves, or none for maintenance and option *)
(* persist is set too.                                                     *)
OwnQueueStays == Redisp => MaxFlaps = 0 \/ (Persist /\ "maint" \notin Downs)

Undisturbed == Redisp /\ pc[Admin] \in {"redist", "redist_len"} => th[Admin].owner = Px

(* What keeps a server's streams within its maxconn. *)
Bounded == \A v \in Servers : served[v] <= MaxConn[v]
MaxconnInv == Undisturbed /\ \A s \in Streams : ConnectOK(s)
=============================================================================
