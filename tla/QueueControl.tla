---------------------------- MODULE QueueControl ----------------------------
(***************************************************************************)
(* The control part of the inductive invariant of Queue: what each process *)
(* holds, what each stream owns and what is linked where. Which steps      *)
(* matter to whom, and the steps of a stream that is in no queue.          *)
(***************************************************************************)
EXTENDS QueueFacts

Control == ProcsOK /\ StreamsOK /\ QueuesOK

(* Only p moved. *)
OthersWait(p) == \A x \in Procs \ {p} : pc'[x] = pc[x] /\ th'[x] = th[x]

-----------------------------------------------------------------------------
(* A process knows which queues it works on. *)
LEMMA OwnQueues ==
  ASSUME TypeOK, ProcsOK, NEW p \in Procs
  PROVE  /\ PxQueue(p) \in Queues
         /\ pc[p] \in Dequeuing => SrvQueue(p) \in Queues
BY Zenon DEF TypeOK, ProcTypes, Locals, ProcsOK, ControlOK, PxQueue, SrvQueue, Queues, Owners

(* A step of a stream outside the critical sections, which at most links   *)
(* or unlinks its own entry in queues nobody holds, only matters to that   *)
(* stream.                                                                 *)
LEMMA OwnStep ==
  ASSUME TypeOK, Control, NEW s \in Streams, OthersWait(s),
         \A x \in Streams \ {s} : strm'[x] = strm[x] /\ pend'[x] = pend[x],
         UNCHANGED <<lock, del_lock>>,
         \A q \in Queues :
           /\ lock[q] # NULL => tree'[q] = tree[q]
           /\ Distinct(tree'[q])
           /\ \A x \in Streams \ {s} : InSeq(x, tree'[q]) <=> InSeq(x, tree[q]),
         pc[s] \notin Locked, pc'[s] \notin Locked,
         ControlOK(s)', StreamOK(s)', FreeOK(s)', LinkOK(s)'
  PROVE  Control'
<1>a. s \in Procs /\ NULL \notin Procs
  BY Zenon, QueueAssumption DEF Procs
<1>1. ASSUME NEW p \in Procs, p # s PROVE (ControlOK(p) /\ LockOK(p) /\ EntryOK(p))'
  <2>1. pc'[p] = pc[p] /\ th'[p] = th[p] /\ ControlOK(p) /\ LockOK(p) /\ EntryOK(p)
    BY Zenon, <1>1 DEF OthersWait, Control, ProcsOK
  <2>2. ControlOK(p)' /\ LockOK(p)'
    BY Zenon, <2>1 DEF ControlOK, LockOK, SrvQueue, PxQueue
  <2>3. th[p].p # NULL => tree'[SrvQueue(p)] = tree[SrvQueue(p)]
    BY Zenon, <1>a, <2>1, OwnQueues DEF Control, ControlOK, LockOK, Locked, Dequeuing
  <2>4. th[p].pp # NULL /\ pc[p] # "tell" => tree'[PxQueue(p)] = tree[PxQueue(p)]
    BY Zenon, <1>a, <2>1, OwnQueues DEF Control, ControlOK, LockOK
  <2>5. EntryOK(p)'
    BY Zenon, <2>1, <2>3, <2>4 DEF EntryOK, SrvQueue, PxQueue
  <2> QED BY Zenon, <2>2, <2>5
<1>2. LockOK(s)' /\ EntryOK(s)'
  BY Zenon DEF LockOK, EntryOK, ControlOK, Locked
<1>3. ASSUME NEW x \in Streams, x # s PROVE (StreamOK(x) /\ FreeOK(x) /\ LinkOK(x))'
  <2>1. /\ pc'[x] = pc[x] /\ th'[x] = th[x] /\ strm'[x] = strm[x] /\ pend'[x] = pend[x]
        /\ StreamOK(x) /\ FreeOK(x) /\ LinkOK(x)
    BY Zenon, <1>3 DEF OthersWait, Control, StreamsOK, Procs
  <2>2. StreamOK(x)' /\ FreeOK(x)'
    BY <2>1 DEF StreamOK, FreeOK, Freeing
  <2>3. Linked(x)' <=> Linked(x)
    BY Zenon, <1>3 DEF Linked
  <2>4. del_lock[x] # NULL => /\ pc'[del_lock[x]] = "tell" /\ th'[del_lock[x]].pp = x
    BY Zenon, <2>1 DEF LinkOK, OthersWait, Locked, TypeOK, LinkTypes
  <2>5. LinkOK(x)'
    BY Zenon, <1>3, <2>1, <2>3, <2>4 DEF LinkOK, Waits, QueueOf
  <2> QED BY Zenon, <2>2, <2>5
<1> QED BY Zenon, <1>1, <1>2, <1>3 DEF Control, ProcsOK, StreamsOK, QueuesOK
(* A step of process_srv_queue() that touches no entry: the dequeuer goes  *)
(* on, or returns, with the locks it says it has.                          *)
LEMMA QuietStep ==
  ASSUME TypeOK, Control, NEW p \in Procs, OthersWait(p), UNCHANGED <<tree, del_lock, strm, pend>>,
         pc[p] \in Dequeuing \ {"tell"},
         \/ pc'[p] \in Dequeuing /\ th'[p].ret = th[p].ret
         \/ pc'[p] = th[p].ret /\ th'[p].ret = "idle",
         \A q \in Queues : lock[q] \notin {NULL, p} => lock'[q] = lock[q],
         ControlOK(p)', LockOK(p)', EntryOK(p)'
  PROVE  Control'
<1>a. NULL \notin Procs /\ ControlOK(p)
  BY Zenon, QueueAssumption DEF Procs, Control, ProcsOK
<1>1. ASSUME NEW x \in Procs, x # p PROVE (ControlOK(x) /\ LockOK(x) /\ EntryOK(x))'
  <2>1. pc'[x] = pc[x] /\ th'[x] = th[x] /\ ControlOK(x) /\ LockOK(x) /\ EntryOK(x)
    BY Zenon, <1>1 DEF OthersWait, Control, ProcsOK
  <2>2. ControlOK(x)' /\ EntryOK(x)'
    BY Zenon, <2>1 DEF ControlOK, EntryOK, SrvQueue, PxQueue
  <2>3. pc[x] \in Locked => lock'[SrvQueue(x)] = x
    BY Zenon, <1>1, <1>a, <2>1, OwnQueues DEF Control, LockOK, Dequeuing
  <2>4. pc[x] \in {"reserve", "pick"} /\ th[x].pp # NULL => lock'[PxQueue(x)] = x
    BY Zenon, <1>1, <1>a, <2>1, OwnQueues DEF Control, LockOK
  <2>5. LockOK(x)'
    BY Zenon, <2>1, <2>3, <2>4 DEF LockOK, SrvQueue, PxQueue
  <2> QED BY Zenon, <2>2, <2>5
<1>2. ASSUME NEW x \in Streams
      PROVE  (StreamOK(x) /\ FreeOK(x) /\ LinkOK(x))'
  <2>1. StreamOK(x) /\ FreeOK(x) /\ LinkOK(x)
    BY Zenon DEF Control, StreamsOK
  <2>2. /\ Linked(x)' <=> Linked(x)
        /\ \A q \in Queues : InSeq(x, tree[q])' <=> InSeq(x, tree[q])
        /\ QueueOf(x)' = QueueOf(x)
    BY Zenon DEF Linked, QueueOf
  <2>3. del_lock[x] # NULL => del_lock[x] # p /\ pc'[del_lock[x]] = "tell" /\ th'[del_lock[x]].pp = x
    BY Zenon, <2>1 DEF LinkOK, OthersWait, TypeOK, LinkTypes
  <2>4. CASE x # p
    <3>1. pc'[x] = pc[x] /\ th'[x] = th[x]
      BY Zenon, <2>4 DEF OthersWait, Procs
    <3>2. StreamOK(x)' /\ FreeOK(x)'
      BY ZenonT(30), <2>1, <3>1 DEF StreamOK, FreeOK, Freeing
    <3>3. LinkOK(x)'
      BY Zenon, <2>1, <2>2, <2>3, <3>1 DEF LinkOK, Waits
    <3> QED BY Zenon, <3>2, <3>3
  <2>5. CASE x = p
    <3>1. th[p].ret \in {"idle", "free_slot", "gone"}
      BY Zenon, <1>a DEF ControlOK
    <3>2. StreamOK(p)'
      BY ZenonT(30), <2>1, <2>5, <3>1 DEF StreamOK, Dequeuing, Locked, ReadyLabels
    <3>3. FreeOK(p)'
      BY Zenon, <2>1, <2>5, <3>1 DEF FreeOK, Freeing, Dequeuing, Locked
    <3>4. \A labels : InQueue \subseteq labels /\ Waits(p, labels) => Waits(p, labels)'
      BY Zenon, <2>1, <2>5, <3>1 DEF Waits, InQueue, Dequeuing, Locked
    <3>5. LinkOK(p)'
      BY Zenon, <2>1, <2>2, <2>3, <2>5, <3>4 DEF LinkOK
    <3> QED BY Zenon, <2>5, <3>2, <3>3, <3>5
  <2> QED BY Zenon, <2>4, <2>5
<1> QED BY Zenon, <1>1, <1>2 DEF Control, ProcsOK, StreamsOK, QueuesOK

(* A step of Admin that touches no entry. *)
LEMMA AdminQuiet ==
  ASSUME TypeOK, Control, OthersWait(Admin), UNCHANGED <<tree, lock, del_lock, strm, pend>>,
         pc[Admin] \notin Locked, pc'[Admin] \notin Locked, ControlOK(Admin)'
  PROVE  Control'
<1>1. ASSUME NEW x \in Procs, x # Admin PROVE (ControlOK(x) /\ LockOK(x) /\ EntryOK(x))'
  <2>1. pc'[x] = pc[x] /\ th'[x] = th[x] /\ ControlOK(x) /\ LockOK(x) /\ EntryOK(x)
    BY Zenon, <1>1 DEF OthersWait, Control, ProcsOK
  <2> QED BY Zenon, <2>1 DEF ControlOK, EntryOK, LockOK, SrvQueue, PxQueue
<1>2. LockOK(Admin)' /\ EntryOK(Admin)'
  BY Zenon DEF LockOK, EntryOK, ControlOK, Locked
<1>3. ASSUME NEW x \in Streams PROVE (StreamOK(x) /\ FreeOK(x) /\ LinkOK(x))'
  <2>1. /\ pc'[x] = pc[x] /\ th'[x] = th[x]
        /\ StreamOK(x) /\ FreeOK(x) /\ LinkOK(x)
    BY Zenon, QueueAssumption DEF OthersWait, Control, StreamsOK, Procs
  <2>2. StreamOK(x)' /\ FreeOK(x)'
    BY ZenonT(30), <2>1 DEF StreamOK, FreeOK, Freeing
  <2>3. del_lock[x] # NULL => pc'[del_lock[x]] = "tell" /\ th'[del_lock[x]].pp = x
    BY Zenon, <2>1 DEF LinkOK, OthersWait, TypeOK, LinkTypes, Locked
  <2>4. LinkOK(x)'
    BY Zenon, <2>1, <2>3 DEF LinkOK, Waits, QueueOf, Linked
  <2> QED BY Zenon, <2>2, <2>4
<1> QED BY Zenon, <1>1, <1>2, <1>3 DEF Control, ProcsOK, StreamsOK, QueuesOK
(* p gives entry e the slot it reserved on server v. *)
Delivers(p, e, v) ==
  /\ th' = [th EXCEPT ![p].p = NULL, ![p].pp = NULL]
  /\ pend' = Assign(e, v) /\ strm' = [strm EXCEPT ![e].srv_conn = v]
(* The dequeuer gives the slot it reserved to an entry e it took out, and  *)
(* unlocks what it held for it.                                            *)
LEMMA DeliverStep ==
  ASSUME TypeOK, Control, NEW p \in Procs, NEW e \in Streams, NEW v \in Servers, OthersWait(p),
         pc[p] \in {"pick", "tell"}, pc'[p] \in {"count_px", "count_srv"},
         Delivers(p, e, v),
         Waits(e, InQueue \cup {"rdy_undo", "out"}), ~Linked(e)',
         \A x \in Streams \ {e} : del_lock'[x] = del_lock[x] /\ del_lock[x] # p,
         del_lock'[e] = NULL, del_lock[e] \in {NULL, p},
         \A q \in Queues :
           /\ lock[q] \notin {NULL, p} => lock'[q] = lock[q] /\ tree'[q] = tree[q]
           /\ Distinct(tree'[q])
           /\ \A x \in Streams \ {e} : InSeq(x, tree'[q]) <=> InSeq(x, tree[q]),
         lock'[SrvQueue(p)] = p
  PROVE  Control'
<1>a. NULL \notin Procs /\ ControlOK(p) /\ th[p] \in Locals
  BY Zenon, QueueAssumption DEF Procs, Control, ProcsOK, TypeOK, ProcTypes
<1>b. /\ th'[p].srv = th[p].srv /\ th'[p].cur = th[p].cur /\ th'[p].ret = th[p].ret
      /\ th'[p].owner = th[p].owner /\ th'[p].p = NULL /\ th'[p].pp = NULL
  BY DEF TypeOK, ProcTypes, Locals, Delivers
<1>c. strm[e] \in Stream /\ pend[e] \in Entry
  BY Zenon DEF TypeOK, StrmTypes, Waits
<1>d. /\ strm'[e].st = strm[e].st /\ strm'[e].target = strm[e].target
      /\ strm'[e].srv_conn = v /\ strm'[e].assigned = strm[e].assigned
      /\ pend'[e].assigned /\ pend'[e].target = v /\ pend'[e].owner = pend[e].owner
      /\ pend'[e] \in Entry
  BY Zenon, <1>c DEF TypeOK, StrmTypes, Stream, Entry, Assign, NServer, Delivers
<1>e. \A x \in Streams \ {e} : strm'[x] = strm[x] /\ pend'[x] = pend[x]
  BY Zenon DEF TypeOK, StrmTypes, Assign, Delivers
<1>1. ASSUME NEW x \in Procs, x # p PROVE (ControlOK(x) /\ LockOK(x) /\ EntryOK(x))'
  <2>1. pc'[x] = pc[x] /\ th'[x] = th[x] /\ ControlOK(x) /\ LockOK(x) /\ EntryOK(x)
    BY Zenon, <1>1 DEF OthersWait, Control, ProcsOK
  <2>2. ControlOK(x)'
    BY Zenon, <2>1 DEF ControlOK
  <2>3. pc[x] \in Locked => lock'[SrvQueue(x)] = x /\ tree'[SrvQueue(x)] = tree[SrvQueue(x)]
    BY Zenon, <1>1, <1>a, <2>1, OwnQueues DEF Control, LockOK, Dequeuing
  <2>4. pc[x] \in {"reserve", "pick"} /\ th[x].pp # NULL =>
          lock'[PxQueue(x)] = x /\ tree'[PxQueue(x)] = tree[PxQueue(x)]
    BY Zenon, <1>1, <1>a, <2>1, OwnQueues DEF Control, LockOK
  <2>5. pc[x] = "tell" => del_lock'[th[x].pp] = x
    <3> HAVE pc[x] = "tell"
    <3>1. th[x].pp \in Streams /\ del_lock[th[x].pp] = x
      BY Zenon, <2>1 DEF ControlOK, LockOK, TypeOK, ProcTypes, Locals
    <3> QED BY Zenon, <1>1, <1>a, <3>1
  <2>6. LockOK(x)'
    BY Zenon, <2>1, <2>3, <2>4, <2>5 DEF LockOK, SrvQueue, PxQueue
  <2>7. EntryOK(x)'
    BY Zenon, <2>1, <2>3, <2>4 DEF EntryOK, ControlOK, Locked, SrvQueue, PxQueue
  <2> QED BY Zenon, <2>2, <2>6, <2>7
<1>2. ControlOK(p)'
  BY Zenon, <1>a, <1>b DEF ControlOK, AdminLabels, Dequeuing, Locked, ReadyLabels
<1>3. LockOK(p)' /\ EntryOK(p)'
  BY Zenon, <1>b DEF LockOK, EntryOK, SrvQueue, Locked
<1>4. ASSUME NEW x \in Streams, x # e PROVE (StreamOK(x) /\ FreeOK(x) /\ LinkOK(x))'
  <2>1. /\ strm'[x] = strm[x] /\ pend'[x] = pend[x] /\ del_lock'[x] = del_lock[x] /\ del_lock[x] # p
        /\ StreamOK(x) /\ FreeOK(x) /\ LinkOK(x)
    BY Zenon, <1>4, <1>e DEF Control, StreamsOK
  <2>2. \/ pc'[x] = pc[x] /\ th'[x] = th[x]
        \/ x = p /\ th'[x].ret = th[x].ret
    BY Zenon, <1>b DEF OthersWait, Procs
  <2>3. StreamOK(x)'
    BY ZenonT(30), <2>1, <2>2 DEF StreamOK, ReadyLabels
  <2>4. FreeOK(x)'
    BY Zenon, <2>1, <2>2 DEF FreeOK, Freeing, Dequeuing, Locked
  <2>5. Linked(x)' <=> Linked(x)
    BY Zenon, <1>4 DEF Linked
  <2>6. del_lock[x] # NULL => pc'[del_lock[x]] = "tell" /\ th'[del_lock[x]].pp = x
    BY Zenon, <2>1 DEF LinkOK, OthersWait, TypeOK, LinkTypes
  <2>7. \A labels : Waits(x, labels) => Waits(x, labels)'
    BY ZenonT(30), <2>1, <2>2 DEF Waits, Dequeuing, Locked
  <2>8. LinkOK(x)'
    BY Zenon, <1>4, <2>1, <2>5, <2>6, <2>7 DEF LinkOK, QueueOf
  <2> QED BY Zenon, <2>3, <2>4, <2>8
<1>5. (StreamOK(e) /\ FreeOK(e) /\ LinkOK(e))'
  <2>1. StreamOK(e) /\ FreeOK(e) /\ LinkOK(e)
    BY Zenon DEF Control, StreamsOK
  <2>2. \/ pc'[e] = pc[e] /\ th'[e] = th[e]
        \/ e = p /\ th'[e].ret = th[e].ret
    BY Zenon, <1>b DEF OthersWait, Procs
  <2>3. v # NULL /\ pend'[e] # NULL
    BY ZenonT(30), <1>d, QueueAssumption
  <2>4. StreamOK(e)'
    BY <1>d, <2>1, <2>2, <2>3 DEF StreamOK, Waits, InQueue, ReadyLabels, Dequeuing, Locked
  <2>5. FreeOK(e)'
    BY ZenonT(30), <1>d, <2>1, <2>2, <2>3 DEF StreamOK, FreeOK, Freeing, Waits, Dequeuing, Locked
  <2>6. LinkOK(e)'
    BY Zenon DEF LinkOK, Linked
  <2> QED BY Zenon, <2>4, <2>5, <2>6
<1> QED BY Zenon, <1>1, <1>2, <1>3, <1>4, <1>5 DEF Control, ProcsOK, StreamsOK, QueuesOK
-----------------------------------------------------------------------------
(* A stream that does not wait is neither linked nor being told. *)
LEMMA NotWaiting ==
  ASSUME StreamsOK, NEW s \in Streams, ~Waits(s, InQueue \cup {"rdy_undo", "out"})
  PROVE  ~Linked(s) /\ del_lock[s] = NULL
BY Zenon DEF StreamsOK, LinkOK, Waits

(* A step of a stream that touches no queue. *)
LEMMA PlainStep ==
  ASSUME TypeOK, Control, NEW s \in Streams, OthersWait(s),
         \A x \in Streams \ {s} : strm'[x] = strm[x] /\ pend'[x] = pend[x],
         UNCHANGED links, pc[s] \notin Locked, pc'[s] \notin Locked,
         ControlOK(s)', StreamOK(s)', FreeOK(s)', LinkOK(s)'
  PROVE  Control'
<1>1. UNCHANGED <<tree, lock, del_lock>>
  BY Zenon DEF links
<1> QED BY Zenon, <1>1, OwnStep DEF Control, QueuesOK

(* The same, for a stream that does not wait. *)
LEMMA FreeStep ==
  ASSUME TypeOK, Control, NEW s \in Streams, OthersWait(s),
         \A x \in Streams \ {s} : strm'[x] = strm[x] /\ pend'[x] = pend[x],
         UNCHANGED links, ~Linked(s) /\ del_lock[s] = NULL,
         pc[s] \notin Locked, pc'[s] \notin Locked,
         ControlOK(s)', StreamOK(s)', FreeOK(s)'
  PROVE  Control'
<1>1. LinkOK(s)'
  BY Zenon DEF LinkOK, Linked, links
<1> QED BY Zenon, <1>1, PlainStep

(* Where a stream goes when it may dequeue others. *)
LEMMA CallControl ==
  ASSUME ProcTypes, NEW s \in Streams, NEW v \in NServer, NEW ret \in {"idle", "free_slot", "gone"},
         CallProcessQueue(s, v, ret)
  PROVE  /\ pc'[s] \in {"loop", ret} /\ OthersWait(s)
         /\ th'[s].ret = IF pc'[s] = "loop" THEN ret ELSE "idle"
         /\ pc'[s] \notin Locked /\ ControlOK(s)'
<1>1. s # Admin /\ s \in Procs
  BY Zenon, QueueAssumption DEF Procs
<1>2. CASE v # NULL /\ may_dequeue_tasks(v)
  <2>1. /\ pc'[s] = "loop" /\ th'[s] = ProcessQueue(v, ret) /\ v \in Servers /\ OthersWait(s)
    BY Zenon, <1>1, <1>2 DEF CallProcessQueue, Goto, OthersWait, ProcTypes, NServer
  <2>2. th'[s].ret = ret /\ th'[s].srv = v /\ th'[s].p = NULL /\ th'[s].pp = NULL
    BY Zenon, <2>1 DEF ProcessQueue, NoLocals
  <2> QED BY Zenon, <1>1, <2>1, <2>2 DEF ControlOK, Dequeuing, Locked, ReadyLabels
<1>3. CASE ~(v # NULL /\ may_dequeue_tasks(v))
  <2>1. /\ pc'[s] = ret /\ th'[s] = NoLocals /\ OthersWait(s)
    BY Zenon, <1>1, <1>3 DEF CallProcessQueue, Goto, OthersWait, ProcTypes
  <2>2. th'[s].ret = "idle" /\ th'[s].p = NULL /\ th'[s].pp = NULL
    BY <2>1 DEF NoLocals
  <2> QED BY Zenon, <1>1, <2>1, <2>2 DEF ControlOK, Dequeuing, Locked, ReadyLabels
<1> QED BY Zenon, <1>2, <1>3

(* Where a stream goes after sess_change_server(s, NULL), which detaches it *)
(* first when it holds a slot.                                             *)
LEMMA ReleaseControl ==
  ASSUME ProcTypes, NEW s \in Streams, NEW v \in NServer, NEW ret \in {"idle", "free_slot", "gone"},
         Release(s, v, ret)
  PROVE  /\ pc'[s] \in {"detach", "loop", ret} /\ OthersWait(s)
         /\ th'[s].ret = IF pc'[s] \in {"detach", "loop"} THEN ret ELSE "idle"
         /\ pc'[s] # "detach" => strm[s].srv_conn = NULL
         /\ pc'[s] \notin Locked /\ ControlOK(s)'
<1>1. s # Admin /\ s \in Procs
  BY Zenon, QueueAssumption DEF Procs
<1>2. CASE strm[s].srv_conn # NULL
  <2>1. pc'[s] = "detach" /\ th'[s] = ProcessQueue(v, ret) /\ OthersWait(s)
    BY Zenon, <1>1, <1>2 DEF Release, Goto, OthersWait, ProcTypes
  <2>2. th'[s].ret = ret /\ th'[s].p = NULL /\ th'[s].pp = NULL
    BY Zenon, <2>1 DEF ProcessQueue, NoLocals
  <2> QED BY Zenon, <1>1, <1>2, <2>1, <2>2 DEF ControlOK, Dequeuing, Locked, ReadyLabels
<1>3. CASE strm[s].srv_conn = NULL
  <2>1. CallProcessQueue(s, v, ret)
    BY Zenon, <1>3 DEF Release
  <2> QED BY Zenon, <1>3, <2>1, CallControl
<1> QED BY Zenon, <1>2, <1>3

(* The steps of a stream that is not in a queue. *)
LEMMA FreeControl ==
  ASSUME TypeOK, Control, NEW s \in Streams
  PROVE  (\/ Arrive(s) \/ assign_server(s) \/ CheckRoom(s) \/ TakeSlot(s)
          \/ AttachSlot(s) \/ pendconn_add(s) \/ RunOnReady(s) \/ connect_server(s)
          \/ AbortConnection(s) \/ RetrySameServer(s) \/ DropSlot(s) \/ Gone(s)
          \/ DetachSlot(s)
          \/ NoEntry(s) \/ EndOfStream(s) \/ Redispatch(s) \/ MayDequeue(s)
          \/ FreeUnlinked(s) \/ FreeSlot(s) \/ CountUnlinked(s) \/ TakeResult(s))
         => Control'
<1> USE DEF TypeOK, Control
<1>a. /\ s \in Procs /\ s # Admin /\ StreamOK(s) /\ FreeOK(s) /\ ControlOK(s) /\ StreamsOK
      /\ th[s] \in Locals /\ strm[s] \in Stream
  BY Zenon, QueueAssumption DEF ProcsOK, StreamsOK, Procs, ProcTypes, StrmTypes
<1>1. ASSUME Arrive(s) PROVE Control'
  <2>1. /\ OthersWait(s) /\ UNCHANGED links
        /\ \A x \in Streams \ {s} : strm'[x] = strm[x] /\ pend'[x] = pend[x]
    BY Zenon, <1>1, <1>a DEF Arrive, OthersWait, Goto, strms, StrmTypes, ProcTypes
  <2>2. ~Linked(s) /\ del_lock[s] = NULL
    <3>1. ~Waits(s, InQueue \cup {"rdy_undo", "out"})
      BY Zenon, <1>1, <1>a DEF Arrive, Waits, InQueue, StreamOK, Dequeuing, Locked
    <3> QED BY Zenon, <3>1, NotWaiting
  <2>3. pc[s] \notin Locked /\ pc'[s] \notin Locked
    BY Zenon, <1>1, <1>a DEF Arrive, Locked, Goto, ProcTypes
  <2>4. ControlOK(s)'
    BY Zenon, <1>1, <1>a DEF Arrive, ControlOK, Goto, ProcTypes, Dequeuing, Locked, ReadyLabels
  <2>5. StreamOK(s)'
    <3>1. PICK v \in Wants[s] :
            strm' = [strm EXCEPT ![s] = [@ EXCEPT !.st = "REQ", !.target = v,
                                           !.assigned = v # NULL, !.direct = v # NULL]]
      BY Zenon, <1>1 DEF Arrive
    <3>2. v = NULL \/ v \in Servers
      BY Zenon, QueueAssumption
    <3>3. /\ strm'[s].st = "REQ" /\ strm'[s].srv_conn = strm[s].srv_conn
          /\ strm'[s].assigned => strm'[s].target \in Servers
      BY Zenon, <1>a, <3>1, <3>2 DEF StrmTypes, Stream
    <3>4. pc'[s] = "idle" /\ pend'[s] = pend[s] /\ pc[s] = "idle" /\ strm[s].st = "INI"
      BY Zenon, <1>1 DEF Arrive
    <3> QED BY Zenon, <1>a, <3>3, <3>4 DEF StreamOK, ReadyLabels
  <2>6. FreeOK(s)'
    BY <1>1, <1>a DEF Arrive, FreeOK, Freeing, StreamOK, Goto, ProcTypes, StrmTypes, strms,
       Stream, Dequeuing, Locked
  <2> QED BY Zenon, <2>1, <2>2, <2>3, <2>4, <2>5, <2>6, FreeStep
<1>2. ASSUME assign_server(s) PROVE Control'
  <2>1. /\ OthersWait(s) /\ UNCHANGED links
        /\ \A x \in Streams \ {s} : strm'[x] = strm[x] /\ pend'[x] = pend[x]
    BY Zenon, <1>2, <1>a DEF assign_server, OthersWait, Goto, strms, StrmTypes, ProcTypes
  <2>7. \/ strm' = [strm EXCEPT ![s].st = "CLO", ![s].target = NULL] /\ UNCHANGED pc
        \/ strm' = [strm EXCEPT ![s].target = NULL] /\ Goto(s, "enqueue")
        \/ \E v \in Servers : strm' = [strm EXCEPT ![s].target = v, ![s].assigned = TRUE] /\ UNCHANGED pc
    BY Zenon, <1>2 DEF assign_server
  <2>8. /\ pc[s] = "idle" /\ strm[s].st = "REQ" /\ pend'[s] = pend[s] /\ th'[s] = th[s]
        /\ strm'[s].srv_conn = strm[s].srv_conn
        /\ strm'[s].assigned => strm'[s].target \in Servers
        /\ \/ pc'[s] \in {"idle", "enqueue"} /\ strm'[s].st = "REQ"
           \/ pc'[s] = "idle" /\ strm'[s].st = "CLO"
    <3>1. /\ pc[s] = "idle" /\ strm[s].st = "REQ" /\ pend'[s] = pend[s] /\ th'[s] = th[s]
          /\ ~strm[s].assigned
      BY Zenon, <1>2 DEF assign_server
    <3>2. CASE strm' = [strm EXCEPT ![s].st = "CLO", ![s].target = NULL] /\ UNCHANGED pc
      BY Zenon, <1>a, <3>1, <3>2 DEF StrmTypes, Stream
    <3>3. CASE strm' = [strm EXCEPT ![s].target = NULL] /\ Goto(s, "enqueue")
      BY Zenon, <1>a, <3>1, <3>3 DEF Goto, ProcTypes, StrmTypes, Stream
    <3>4. ASSUME NEW v \in Servers, UNCHANGED pc,
                 strm' = [strm EXCEPT ![s].target = v, ![s].assigned = TRUE]
          PROVE  strm'[s].srv_conn = strm[s].srv_conn /\ strm'[s].target = v /\ strm'[s].st = "REQ"
      BY Zenon, <1>a, <3>1, <3>4 DEF StrmTypes, Stream
    <3> QED BY Zenon, <2>7, <3>1, <3>2, <3>3, <3>4
  <2>2. ~Linked(s) /\ del_lock[s] = NULL
    <3>1. ~Waits(s, InQueue \cup {"rdy_undo", "out"})
      BY Zenon, <1>2, <1>a DEF assign_server, Waits, InQueue, StreamOK, Dequeuing, Locked
    <3> QED BY Zenon, <3>1, NotWaiting
  <2>3. pc[s] \notin Locked /\ pc'[s] \notin Locked
    BY Zenon, <1>2, <1>a DEF assign_server, Locked, Goto, ProcTypes
  <2>4. ControlOK(s)'
    BY Zenon, <1>2, <1>a DEF assign_server, ControlOK, Goto, ProcTypes, Dequeuing, Locked, ReadyLabels
  <2>5. StreamOK(s)'
    BY Zenon, <1>a, <2>8 DEF StreamOK, ReadyLabels
  <2>6. FreeOK(s)'
    BY Zenon, <2>8, <1>2, <1>a DEF assign_server, FreeOK, Freeing, StreamOK, Goto, ProcTypes,
       StrmTypes, strms, Stream, Dequeuing, Locked
  <2> QED BY Zenon, <2>1, <2>2, <2>3, <2>4, <2>5, <2>6, FreeStep
<1>3. ASSUME CheckRoom(s) PROVE Control'
  <2>1. /\ OthersWait(s) /\ UNCHANGED links
        /\ \A x \in Streams \ {s} : strm'[x] = strm[x] /\ pend'[x] = pend[x]
    BY Zenon, <1>3, <1>a DEF CheckRoom, QueueOnServer, OthersWait, Goto, strms, StrmTypes, ProcTypes
  <2>2. ~Linked(s) /\ del_lock[s] = NULL
    <3>1. ~Waits(s, InQueue \cup {"rdy_undo", "out"})
      BY Zenon, <1>3, <1>a DEF CheckRoom, QueueOnServer, Waits, InQueue, StreamOK, Dequeuing, Locked
    <3> QED BY Zenon, <3>1, NotWaiting
  <2>3. pc[s] \notin Locked /\ pc'[s] \notin Locked
    BY Zenon, <1>3, <1>a DEF CheckRoom, QueueOnServer, Locked, Goto, ProcTypes
  <2>4. ControlOK(s)'
    BY ZenonT(30), <1>3, <1>a DEF CheckRoom, QueueOnServer, ControlOK, Goto, ProcTypes, Dequeuing, Locked,
       ReadyLabels
  <2>5. StreamOK(s)'
    <3>1. /\ pc[s] = "idle" /\ strm[s].st = "REQ" /\ pend'[s] = pend[s] /\ strm[s].assigned
          /\ strm'[s].srv_conn = strm[s].srv_conn /\ strm'[s].target = strm[s].target
          /\ \/ pc'[s] \in {"cas", "idle", "enqueue"} /\ strm'[s].st = "REQ"
             \/ pc'[s] = "idle" /\ strm'[s].st = "CLO"
      BY <1>3, <1>a DEF CheckRoom, QueueOnServer, Goto, ProcTypes, StrmTypes, Stream
    <3> QED BY Zenon, <1>a, <3>1 DEF StreamOK, ReadyLabels
  <2>6. FreeOK(s)'
    BY <1>3, <1>a DEF CheckRoom, QueueOnServer, FreeOK, Freeing, StreamOK, Goto, ProcTypes,
       StrmTypes, strms, Stream, Dequeuing, Locked
  <2> QED BY Zenon, <2>1, <2>2, <2>3, <2>4, <2>5, <2>6, FreeStep
<1>4. ASSUME TakeSlot(s) PROVE Control'
  <2>1. /\ OthersWait(s) /\ UNCHANGED links
        /\ \A x \in Streams \ {s} : strm'[x] = strm[x] /\ pend'[x] = pend[x]
    BY Zenon, <1>4, <1>a DEF TakeSlot, QueueOnServer, OthersWait, Goto, strms, StrmTypes, ProcTypes
  <2>2. ~Linked(s) /\ del_lock[s] = NULL
    <3>1. ~Waits(s, InQueue \cup {"rdy_undo", "out"})
      BY Zenon, <1>4, <1>a DEF TakeSlot, QueueOnServer, Waits, InQueue, StreamOK, Dequeuing, Locked
    <3> QED BY Zenon, <3>1, NotWaiting
  <2>3. pc[s] \notin Locked /\ pc'[s] \notin Locked
    BY Zenon, <1>4, <1>a DEF TakeSlot, QueueOnServer, Locked, Goto, ProcTypes
  <2>4. ControlOK(s)'
    BY ZenonT(30), <1>4, <1>a DEF TakeSlot, QueueOnServer, ControlOK, Goto, ProcTypes, Dequeuing, Locked,
       ReadyLabels
  <2>5. StreamOK(s)'
    <3>1. /\ pc[s] = "cas" /\ pend'[s] = pend[s]
          /\ strm'[s].srv_conn = strm[s].srv_conn /\ strm'[s].target = strm[s].target
          /\ \/ pc'[s] \in {"got", "idle", "enqueue"} /\ strm'[s].st = strm[s].st
             \/ pc'[s] = "idle" /\ strm'[s].st = "CLO"
      BY <1>4, <1>a DEF TakeSlot, QueueOnServer, Goto, ProcTypes, StrmTypes, Stream
    <3> QED BY Zenon, <1>a, <3>1 DEF StreamOK, ReadyLabels
  <2>6. FreeOK(s)'
    BY <1>4, <1>a DEF TakeSlot, QueueOnServer, FreeOK, Freeing, StreamOK, Goto, ProcTypes,
       StrmTypes, strms, Stream, Dequeuing, Locked
  <2> QED BY Zenon, <2>1, <2>2, <2>3, <2>4, <2>5, <2>6, FreeStep
<1>5. ASSUME AttachSlot(s) PROVE Control'
  <2>1. /\ OthersWait(s) /\ UNCHANGED links
        /\ \A x \in Streams \ {s} : strm'[x] = strm[x] /\ pend'[x] = pend[x]
    BY Zenon, <1>5, <1>a DEF AttachSlot, OthersWait, Goto, strms, StrmTypes, ProcTypes
  <2>2. ~Linked(s) /\ del_lock[s] = NULL
    <3>1. ~Waits(s, InQueue \cup {"rdy_undo", "out"})
      BY Zenon, <1>5, <1>a DEF AttachSlot, Waits, InQueue, StreamOK, Dequeuing, Locked
    <3> QED BY Zenon, <3>1, NotWaiting
  <2>3. pc[s] \notin Locked /\ pc'[s] \notin Locked
    BY Zenon, <1>5, <1>a DEF AttachSlot, Locked, Goto, ProcTypes
  <2>4. ControlOK(s)'
    BY Zenon, <1>5, <1>a DEF AttachSlot, ControlOK, Goto, ProcTypes, Dequeuing, Locked, ReadyLabels
  <2>5. StreamOK(s)'
    BY <1>5, <1>a, QueueAssumption DEF AttachSlot, StreamOK, Goto, ProcTypes, StrmTypes,
       strms, Stream, ReadyLabels
  <2>6. FreeOK(s)'
    BY Zenon, <1>5, <1>a DEF AttachSlot, FreeOK, Freeing, StreamOK, Goto, ProcTypes, StrmTypes,
       strms, Stream, Dequeuing, Locked
  <2> QED BY Zenon, <2>1, <2>2, <2>3, <2>4, <2>5, <2>6, FreeStep
<1>6. ASSUME pendconn_add(s) PROVE Control'
  <2>1. /\ OthersWait(s) /\ UNCHANGED links
        /\ \A x \in Streams \ {s} : strm'[x] = strm[x] /\ pend'[x] = pend[x]
    BY Zenon, <1>6, <1>a DEF pendconn_add, OthersWait, Goto, strms, StrmTypes, ProcTypes
  <2>2. ~Linked(s) /\ del_lock[s] = NULL
    <3>1. ~Waits(s, InQueue \cup {"rdy_undo", "out"})
      BY Zenon, <1>6, <1>a DEF pendconn_add, Waits, InQueue, StreamOK, Dequeuing, Locked
    <3> QED BY Zenon, <3>1, NotWaiting
  <2>3. pc[s] \notin Locked /\ pc'[s] \notin Locked
    BY Zenon, <1>6, <1>a DEF pendconn_add, Locked, Goto, ProcTypes
  <2>4. ControlOK(s)'
    BY Zenon, <1>6, <1>a DEF pendconn_add, ControlOK, Goto, ProcTypes, Dequeuing, Locked, ReadyLabels
  <2>5. StreamOK(s)'
    <3>1. /\ pc[s] = "enqueue" /\ pc'[s] = "insert" /\ strm'[s] = strm[s]
          /\ pend'[s].assigned = strm[s].assigned /\ pend'[s].target = NULL
      BY Zenon, <1>6, <1>a DEF pendconn_add, Goto, ProcTypes, StrmTypes
    <3>2. pend'[s] # NULL
      <4>1. pend'[s] = [owner |-> IF strm[s].assigned THEN strm[s].target ELSE Px,
                        assigned |-> strm[s].assigned, direct |-> strm[s].direct, target |-> NULL]
        BY Zenon, <1>6 DEF pendconn_add, StrmTypes
      <4>2. pend'[s] \in Entry
        BY <1>a, <4>1 DEF StreamOK, Entry, Owners, NServer, Stream
      <4> QED BY Zenon, <4>2, QueueAssumption
    <3> QED BY Zenon, <1>a, <3>1, <3>2 DEF StreamOK, ReadyLabels
  <2>6. FreeOK(s)'
    BY Zenon, <1>6, <1>a DEF pendconn_add, FreeOK, Freeing, StreamOK, Goto, ProcTypes, StrmTypes,
       strms, Stream, Dequeuing, Locked
  <2> QED BY Zenon, <2>1, <2>2, <2>3, <2>4, <2>5, <2>6, FreeStep
<1>7. ASSUME RunOnReady(s) PROVE Control'
  <2>1. /\ OthersWait(s) /\ UNCHANGED links
        /\ \A x \in Streams \ {s} : strm'[x] = strm[x] /\ pend'[x] = pend[x]
    BY Zenon, <1>7, <1>a DEF RunOnReady, OthersWait, Goto, strms, StrmTypes, ProcTypes
  <2>2. ~Linked(s) /\ del_lock[s] = NULL
    <3>1. ~Waits(s, InQueue \cup {"rdy_undo", "out"})
      BY Zenon, <1>7, <1>a DEF RunOnReady, Waits, InQueue, StreamOK, Dequeuing, Locked
    <3> QED BY Zenon, <3>1, NotWaiting
  <2>3. pc[s] \notin Locked /\ pc'[s] \notin Locked
    BY Zenon, <1>7, <1>a DEF RunOnReady, Locked, Goto, ProcTypes
  <2>4. ControlOK(s)'
    BY Zenon, <1>7, <1>a DEF RunOnReady, ControlOK, Goto, ProcTypes, Dequeuing, Locked, ReadyLabels
  <2>5. StreamOK(s)'
    <3>1. /\ pc[s] = "rdy_take" /\ pc'[s] = "idle" /\ pend'[s] = NULL
          /\ strm'[s].st = "ASS" /\ strm'[s].target = th[s].srv
      BY Zenon, <1>7, <1>a DEF RunOnReady, Goto, ProcTypes, StrmTypes, Stream
    <3> QED BY Zenon, <1>a, <3>1 DEF StreamOK, ControlOK, ReadyLabels
  <2>6. FreeOK(s)'
    BY Zenon, <1>7, <1>a DEF RunOnReady, FreeOK, Freeing, StreamOK, Goto, ProcTypes, StrmTypes,
       strms, Stream, Dequeuing, Locked
  <2> QED BY Zenon, <2>1, <2>2, <2>3, <2>4, <2>5, <2>6, FreeStep
<1>8. ASSUME connect_server(s) PROVE Control'
  <2>1. /\ OthersWait(s) /\ UNCHANGED links
        /\ \A x \in Streams \ {s} : strm'[x] = strm[x] /\ pend'[x] = pend[x]
    BY Zenon, <1>8, <1>a DEF connect_server, OthersWait, Goto, strms, StrmTypes, ProcTypes
  <2>2. ~Linked(s) /\ del_lock[s] = NULL
    <3>1. ~Waits(s, InQueue \cup {"rdy_undo", "out"})
      BY Zenon, <1>8, <1>a DEF connect_server, Waits, InQueue, StreamOK, Dequeuing, Locked
    <3> QED BY Zenon, <3>1, NotWaiting
  <2>3. pc[s] \notin Locked /\ pc'[s] \notin Locked
    BY Zenon, <1>8, <1>a DEF connect_server, Locked, Goto, ProcTypes
  <2>4. ControlOK(s)'
    BY Zenon, <1>8, <1>a DEF connect_server, ControlOK, Goto, ProcTypes, Dequeuing, Locked, ReadyLabels
  <2>5. StreamOK(s)'
    BY ZenonT(30), <1>8, <1>a, QueueAssumption DEF connect_server, StreamOK, Goto, ProcTypes, StrmTypes,
       strms, Stream, ReadyLabels
  <2>6. FreeOK(s)'
    BY Zenon, <1>8, <1>a DEF connect_server, FreeOK, Freeing, StreamOK, Goto, ProcTypes, StrmTypes,
       strms, Stream, Dequeuing, Locked
  <2> QED BY Zenon, <2>1, <2>2, <2>3, <2>4, <2>5, <2>6, FreeStep
<1>9. ASSUME RetrySameServer(s) PROVE Control'
  <2>1. /\ OthersWait(s) /\ UNCHANGED links
        /\ \A x \in Streams \ {s} : strm'[x] = strm[x] /\ pend'[x] = pend[x]
    BY Zenon, <1>9, <1>a DEF RetrySameServer, LeaveServer, OthersWait, Goto, strms, StrmTypes,
       ProcTypes
  <2>2. ~Linked(s) /\ del_lock[s] = NULL
    <3>1. ~Waits(s, InQueue \cup {"rdy_undo", "out"})
      BY Zenon, <1>9, <1>a DEF RetrySameServer, LeaveServer, Waits, InQueue, StreamOK, Dequeuing,
         Locked
    <3> QED BY Zenon, <3>1, NotWaiting
  <2>3. pc[s] \notin Locked /\ pc'[s] \notin Locked
    BY Zenon, <1>9, <1>a DEF RetrySameServer, LeaveServer, Locked, Goto, ProcTypes
  <2>4. ControlOK(s)'
    BY Zenon, <1>9, <1>a DEF RetrySameServer, LeaveServer, ControlOK, Goto, ProcTypes, Dequeuing,
       Locked, ReadyLabels
  <2>5. StreamOK(s)'
    BY ZenonT(30), <1>9, <1>a, QueueAssumption DEF RetrySameServer, LeaveServer, StreamOK, Goto,
       ProcTypes, StrmTypes, strms, Stream, ReadyLabels
  <2>6. FreeOK(s)'
    BY Zenon, <1>9, <1>a DEF RetrySameServer, LeaveServer, FreeOK, Freeing, StreamOK, Goto,
       ProcTypes, StrmTypes, strms, Stream, Dequeuing, Locked
  <2> QED BY Zenon, <2>1, <2>2, <2>3, <2>4, <2>5, <2>6, FreeStep
<1>10. ASSUME DropSlot(s) PROVE Control'
  <2>1. /\ OthersWait(s) /\ UNCHANGED links
        /\ \A x \in Streams \ {s} : strm'[x] = strm[x] /\ pend'[x] = pend[x]
    BY Zenon, <1>10, <1>a DEF DropSlot, OthersWait, Goto, strms, StrmTypes, ProcTypes
  <2>2. ~Linked(s) /\ del_lock[s] = NULL
    <3>1. ~Waits(s, InQueue \cup {"rdy_undo", "out"})
      BY Zenon, <1>10, <1>a DEF DropSlot, Waits, InQueue, StreamOK, Dequeuing, Locked
    <3> QED BY Zenon, <3>1, NotWaiting
  <2>3. pc[s] \notin Locked /\ pc'[s] \notin Locked
    BY Zenon, <1>10, <1>a DEF DropSlot, Locked, Goto, ProcTypes
  <2>4. ControlOK(s)'
    BY Zenon, <1>10, <1>a DEF DropSlot, ControlOK, Goto, ProcTypes, Dequeuing, Locked, ReadyLabels
  <2>5. StreamOK(s)'
    BY <1>10, <1>a, QueueAssumption DEF DropSlot, StreamOK, Goto, ProcTypes, StrmTypes, strms,
       Stream, ReadyLabels
  <2>6. FreeOK(s)'
    BY Zenon, <1>10, <1>a DEF DropSlot, FreeOK, Freeing, StreamOK, Goto, ProcTypes, StrmTypes, strms,
       Stream, Dequeuing, Locked
  <2> QED BY Zenon, <2>1, <2>2, <2>3, <2>4, <2>5, <2>6, FreeStep
<1>11. ASSUME Gone(s) PROVE Control'
  <2>1. /\ OthersWait(s) /\ UNCHANGED links
        /\ \A x \in Streams \ {s} : strm'[x] = strm[x] /\ pend'[x] = pend[x]
    BY Zenon, <1>11, <1>a DEF Gone, NewStream, OthersWait, Goto, strms, StrmTypes, ProcTypes
  <2>2. ~Linked(s) /\ del_lock[s] = NULL
    <3>1. ~Waits(s, InQueue \cup {"rdy_undo", "out"})
      BY Zenon, <1>11, <1>a DEF Gone, NewStream, Waits, InQueue, StreamOK, Dequeuing, Locked
    <3> QED BY Zenon, <3>1, NotWaiting
  <2>3. pc[s] \notin Locked /\ pc'[s] \notin Locked
    BY Zenon, <1>11, <1>a DEF Gone, NewStream, Locked, Goto, ProcTypes
  <2>4. ControlOK(s)'
    BY Zenon, <1>11, <1>a DEF Gone, NewStream, ControlOK, Goto, ProcTypes, Dequeuing, Locked,
       ReadyLabels
  <2>5. StreamOK(s)'
    <3>1. /\ pc[s] \in {"gone", "free_slot"} /\ pc'[s] = "idle" /\ pend'[s] = pend[s]
          /\ strm'[s].st = "GONE" /\ ~strm'[s].assigned /\ strm'[s].srv_conn = strm[s].srv_conn
      BY Zenon, <1>11, <1>a DEF Gone, NewStream, Goto, ProcTypes, StrmTypes
    <3> QED BY Zenon, <1>a, <3>1 DEF StreamOK, FreeOK, Freeing, ReadyLabels
  <2>6. FreeOK(s)'
    BY Zenon, <1>11, <1>a DEF Gone, NewStream, FreeOK, Freeing, StreamOK, Goto, ProcTypes, StrmTypes,
       strms, Stream, Dequeuing, Locked
  <2> QED BY Zenon, <2>1, <2>2, <2>3, <2>4, <2>5, <2>6, FreeStep
<1>12. ASSUME DetachSlot(s) PROVE Control'
  <2>1. /\ OthersWait(s) /\ UNCHANGED links
        /\ \A x \in Streams \ {s} : strm'[x] = strm[x] /\ pend'[x] = pend[x]
    BY Zenon, <1>12, <1>a DEF DetachSlot, OthersWait, Goto, strms, StrmTypes, ProcTypes
  <2>2. ~Linked(s) /\ del_lock[s] = NULL
    <3>1. ~Waits(s, InQueue \cup {"rdy_undo", "out"})
      BY Zenon, <1>12, <1>a DEF DetachSlot, Waits, InQueue, StreamOK, Dequeuing, Locked
    <3> QED BY Zenon, <3>1, NotWaiting
  <2>3. pc[s] \notin Locked /\ pc'[s] \notin Locked
    BY Zenon, <1>12, <1>a DEF DetachSlot, Locked, Goto, ProcTypes
  <2>4. ControlOK(s)'
    BY <1>12, <1>a DEF DetachSlot, ControlOK, Goto, ProcTypes, Dequeuing, Locked, ReadyLabels
  <2>5. StreamOK(s)'
    BY ZenonT(30), <1>12, <1>a, QueueAssumption DEF DetachSlot, StreamOK, Goto, ProcTypes, StrmTypes,
       strms, Stream, ReadyLabels
  <2>6. FreeOK(s)'
    BY <1>12, <1>a DEF DetachSlot, FreeOK, Freeing, StreamOK, Goto, ProcTypes, StrmTypes,
       strms, Stream, Dequeuing, Locked
  <2> QED BY Zenon, <2>1, <2>2, <2>3, <2>4, <2>5, <2>6, FreeStep
<1>13. ASSUME NoEntry(s) PROVE Control'
  <2>0. CallProcessQueue(s, strm[s].target, "idle")
    BY Zenon, <1>13 DEF NoEntry
  <2>1. /\ OthersWait(s) /\ pc'[s] \notin Locked /\ ControlOK(s)'
        /\ pc'[s] \in {"loop", "idle"}
        /\ th'[s].ret = IF pc'[s] \in {"loop"} THEN "idle" ELSE "idle"
    BY Zenon, <1>13, <1>a, <2>0, CallControl DEF Stream, Locals
  <2>2. ~Linked(s) /\ del_lock[s] = NULL
    <3>1. ~Waits(s, InQueue \cup {"rdy_undo", "out"})
      BY Zenon, <1>13, <1>a DEF NoEntry, Waits, InQueue, StreamOK, FreeOK, Freeing, Dequeuing, Locked
    <3> QED BY Zenon, <3>1, NotWaiting
  <2>3. /\ UNCHANGED links /\ pc[s] \notin Locked
        /\ \A x \in Streams \ {s} : strm'[x] = strm[x] /\ pend'[x] = pend[x]
    BY Zenon, <1>13, <1>a DEF NoEntry, StrmTypes, strms, Locked
  <2>4. StreamOK(s)'
    BY Zenon, <1>13, <1>a, <2>1 DEF NoEntry, StreamOK, FreeOK, Freeing, StrmTypes, strms, Stream,
       ReadyLabels
  <2>5. FreeOK(s)'
    BY Zenon, <1>13, <1>a, <2>1 DEF NoEntry, FreeOK, Freeing, StreamOK, ControlOK, StrmTypes, strms,
       Stream, Dequeuing, Locked
  <2> QED BY Zenon, <2>1, <2>2, <2>3, <2>4, <2>5, FreeStep
<1>14. ASSUME EndOfStream(s) PROVE Control'
  <2>0. Release(s, strm[s].target, "idle")
    BY Zenon, <1>14 DEF EndOfStream, LeaveServer
  <2>1. /\ OthersWait(s) /\ pc'[s] \notin Locked /\ ControlOK(s)'
        /\ pc'[s] \in {"detach", "loop", "idle"}
        /\ th'[s].ret = IF pc'[s] \in {"detach", "loop"} THEN "idle" ELSE "idle"
        /\ pc'[s] # "detach" => strm[s].srv_conn = NULL
    BY Zenon, <1>14, <1>a, <2>0, ReleaseControl DEF Stream, Locals
  <2>2. ~Linked(s) /\ del_lock[s] = NULL
    <3>1. ~Waits(s, InQueue \cup {"rdy_undo", "out"})
      BY Zenon, <1>14, <1>a DEF EndOfStream, LeaveServer, Waits, InQueue, StreamOK, FreeOK, Freeing,
         Dequeuing, Locked
    <3> QED BY Zenon, <3>1, NotWaiting
  <2>3. /\ UNCHANGED links /\ pc[s] \notin Locked
        /\ \A x \in Streams \ {s} : strm'[x] = strm[x] /\ pend'[x] = pend[x]
    BY Zenon, <1>14, <1>a DEF EndOfStream, LeaveServer, StrmTypes, strms, Locked
  <2>4. StreamOK(s)'
    BY Zenon, <1>14, <1>a, <2>1 DEF EndOfStream, LeaveServer, StreamOK, FreeOK, Freeing, StrmTypes,
       strms, Stream, ReadyLabels
  <2>5. FreeOK(s)'
    BY Zenon, <1>14, <1>a, <2>1 DEF EndOfStream, LeaveServer, FreeOK, Freeing, StreamOK, ControlOK,
       StrmTypes, strms, Stream, Dequeuing, Locked
  <2> QED BY Zenon, <2>1, <2>2, <2>3, <2>4, <2>5, FreeStep
<1>15. ASSUME Redispatch(s) PROVE Control'
  <2>0. Release(s, strm[s].target, "idle")
    BY Zenon, <1>15 DEF Redispatch, LeaveServer
  <2>1. /\ OthersWait(s) /\ pc'[s] \notin Locked /\ ControlOK(s)'
        /\ pc'[s] \in {"detach", "loop", "idle"}
        /\ th'[s].ret = IF pc'[s] \in {"detach", "loop"} THEN "idle" ELSE "idle"
        /\ pc'[s] # "detach" => strm[s].srv_conn = NULL
    BY Zenon, <1>15, <1>a, <2>0, ReleaseControl DEF Stream, Locals
  <2>2. ~Linked(s) /\ del_lock[s] = NULL
    <3>1. ~Waits(s, InQueue \cup {"rdy_undo", "out"})
      BY Zenon, <1>15, <1>a DEF Redispatch, LeaveServer, Waits, InQueue, StreamOK, FreeOK, Freeing,
         Dequeuing, Locked
    <3> QED BY Zenon, <3>1, NotWaiting
  <2>3. /\ UNCHANGED links /\ pc[s] \notin Locked
        /\ \A x \in Streams \ {s} : strm'[x] = strm[x] /\ pend'[x] = pend[x]
    BY Zenon, <1>15, <1>a DEF Redispatch, LeaveServer, StrmTypes, strms, Locked
  <2>4. StreamOK(s)'
    BY Zenon, <1>15, <1>a, <2>1 DEF Redispatch, LeaveServer, StreamOK, FreeOK, Freeing, StrmTypes,
       strms, Stream, ReadyLabels
  <2>5. FreeOK(s)'
    BY Zenon, <1>15, <1>a, <2>1 DEF Redispatch, LeaveServer, FreeOK, Freeing, StreamOK, ControlOK,
       StrmTypes, strms, Stream, Dequeuing, Locked
  <2> QED BY Zenon, <2>1, <2>2, <2>3, <2>4, <2>5, FreeStep
<1>16. ASSUME MayDequeue(s) PROVE Control'
  <2>0. CallProcessQueue(s, th[s].srv, th[s].ret)
    BY Zenon, <1>16 DEF MayDequeue
  <2>1. /\ OthersWait(s) /\ pc'[s] \notin Locked /\ ControlOK(s)'
        /\ pc'[s] \in {"loop", th[s].ret}
        /\ th'[s].ret = IF pc'[s] \in {"loop"} THEN th[s].ret ELSE "idle"
    <3>1. th[s].ret \in {"idle", "free_slot", "gone"} /\ th[s].srv \in NServer
      BY Zenon, <1>16, <1>a DEF MayDequeue, ControlOK, Locals
    <3> QED BY Zenon, <2>0, <3>1, CallControl
  <2>2. ~Linked(s) /\ del_lock[s] = NULL
    <3>1. ~Waits(s, InQueue \cup {"rdy_undo", "out"})
      BY Zenon, <1>16, <1>a DEF MayDequeue, Waits, InQueue, StreamOK, FreeOK, Freeing, Dequeuing,
         Locked
    <3> QED BY Zenon, <3>1, NotWaiting
  <2>6. th[s].ret \in {"idle", "free_slot", "gone"}
    BY Zenon, <1>16, <1>a DEF MayDequeue, ControlOK
  <2>3. /\ UNCHANGED links /\ pc[s] \notin Locked
        /\ \A x \in Streams \ {s} : strm'[x] = strm[x] /\ pend'[x] = pend[x]
    BY Zenon, <1>16, <1>a DEF MayDequeue, StrmTypes, strms, Locked
  <2>4. StreamOK(s)'
    BY Zenon, <1>16, <1>a, <2>1, <2>6 DEF MayDequeue, StreamOK, FreeOK, Freeing, StrmTypes, strms,
       Stream, ReadyLabels
  <2>5. FreeOK(s)'
    BY Zenon, <1>16, <1>a, <2>1 DEF MayDequeue, FreeOK, Freeing, StreamOK, ControlOK, StrmTypes,
       strms, Stream, Dequeuing, Locked
  <2> QED BY Zenon, <2>1, <2>2, <2>3, <2>4, <2>5, FreeStep
<1>17. ASSUME FreeUnlinked(s) PROVE Control'
  <2>0. CallProcessQueue(s, strm[s].target, "free_slot")
    BY Zenon, <1>17 DEF FreeUnlinked, FreeEntry
  <2>1. /\ OthersWait(s) /\ pc'[s] \notin Locked /\ ControlOK(s)'
        /\ pc'[s] \in {"loop", "free_slot"}
        /\ th'[s].ret = IF pc'[s] \in {"loop"} THEN "free_slot" ELSE "idle"
    BY Zenon, <1>17, <1>a, <2>0, CallControl DEF Stream, Locals
  <2>2. ~Linked(s) /\ del_lock[s] = NULL
    <3>1. ~Waits(s, InQueue \cup {"rdy_undo", "out"})
      BY Zenon, <1>17, <1>a DEF FreeUnlinked, FreeEntry, Waits, InQueue, StreamOK, FreeOK, Freeing,
         Dequeuing, Locked
    <3> QED BY Zenon, <3>1, NotWaiting
  <2>3. /\ UNCHANGED links /\ pc[s] \notin Locked
        /\ \A x \in Streams \ {s} : strm'[x] = strm[x] /\ pend'[x] = pend[x]
    BY Zenon, <1>17, <1>a DEF FreeUnlinked, FreeEntry, StrmTypes, strms, Locked
  <2>4. StreamOK(s)'
    BY Zenon, <1>17, <1>a, <2>1 DEF FreeUnlinked, FreeEntry, StreamOK, FreeOK, Freeing, StrmTypes,
       strms, Stream, ReadyLabels
  <2>5. FreeOK(s)'
    BY Zenon, <1>17, <1>a, <2>1 DEF FreeUnlinked, FreeEntry, FreeOK, Freeing, StreamOK, ControlOK,
       StrmTypes, strms, Stream, Dequeuing, Locked
  <2> QED BY Zenon, <2>1, <2>2, <2>3, <2>4, <2>5, FreeStep
<1>18. ASSUME FreeSlot(s) PROVE Control'
  <2>0. Release(s, strm[s].srv_conn, "gone")
    BY Zenon, <1>18 DEF FreeSlot
  <2>1. /\ OthersWait(s) /\ pc'[s] \notin Locked /\ ControlOK(s)'
        /\ pc'[s] \in {"detach", "loop", "gone"}
        /\ th'[s].ret = IF pc'[s] \in {"detach", "loop"} THEN "gone" ELSE "idle"
        /\ pc'[s] # "detach" => strm[s].srv_conn = NULL
    BY Zenon, <1>18, <1>a, <2>0, ReleaseControl DEF Stream, Locals
  <2>2. ~Linked(s) /\ del_lock[s] = NULL
    <3>1. ~Waits(s, InQueue \cup {"rdy_undo", "out"})
      BY Zenon, <1>18, <1>a DEF FreeSlot, Waits, InQueue, StreamOK, FreeOK, Freeing, Dequeuing, Locked
    <3> QED BY Zenon, <3>1, NotWaiting
  <2>3. /\ UNCHANGED links /\ pc[s] \notin Locked
        /\ \A x \in Streams \ {s} : strm'[x] = strm[x] /\ pend'[x] = pend[x]
    BY Zenon, <1>18, <1>a DEF FreeSlot, StrmTypes, strms, Locked
  <2>4. StreamOK(s)'
    BY Zenon, <1>18, <1>a, <2>1 DEF FreeSlot, StreamOK, FreeOK, Freeing, StrmTypes, strms, Stream,
       ReadyLabels
  <2>5. FreeOK(s)'
    BY Zenon, <1>18, <1>a, <2>1 DEF FreeSlot, FreeOK, Freeing, StreamOK, ControlOK, StrmTypes, strms,
       Stream, Dequeuing, Locked
  <2> QED BY Zenon, <2>1, <2>2, <2>3, <2>4, <2>5, FreeStep
<1>19. ASSUME CountUnlinked(s) PROVE Control'
  <2>1. /\ OthersWait(s) /\ UNCHANGED links /\ UNCHANGED strms
        /\ pc[s] = "unlinked" /\ pc'[s] = th[s].ret /\ th'[s].ret = th[s].ret
        /\ th'[s].p = NULL /\ th'[s].pp = NULL
    BY Zenon, <1>19, <1>a DEF CountUnlinked, OthersWait, Goto, ProcTypes, NoLocals
  <2>2. ~Linked(s) /\ del_lock[s] = NULL
    <3>1. ~Waits(s, InQueue \cup {"rdy_undo", "out"})
      BY Zenon, <1>19, <1>a DEF CountUnlinked, Waits, InQueue, StreamOK, FreeOK, Freeing, Dequeuing,
         Locked
    <3> QED BY Zenon, <3>1, NotWaiting
  <2>3. pc[s] \notin Locked /\ pc'[s] \notin Locked /\ th[s].ret \in {"idle", "freed"}
    BY Zenon, <1>a, <2>1 DEF StreamOK, Locked
  <2>4. ControlOK(s)'
    BY Zenon, <1>a, <2>1, <2>3 DEF ControlOK, Dequeuing, Locked, ReadyLabels
  <2>5. StreamOK(s)' /\ FreeOK(s)'
    BY Zenon, <1>a, <2>1, <2>3 DEF StreamOK, FreeOK, Freeing, strms, ReadyLabels, Dequeuing, Locked
  <2> QED BY Zenon, <2>1, <2>2, <2>3, <2>4, <2>5, FreeStep DEF strms
<1>20. ASSUME TakeResult(s) PROVE Control'
  <2>1. /\ OthersWait(s) /\ UNCHANGED links /\ pc[s] = "out" /\ pc'[s] = "idle" /\ th'[s] = NoLocals
        /\ pend'[s] = NULL /\ del_lock[s] = NULL
        /\ \A x \in Streams \ {s} : strm'[x] = strm[x] /\ pend'[x] = pend[x]
    BY Zenon, <1>20, <1>a DEF TakeResult, OthersWait, Goto, ProcTypes, StrmTypes
  <2>2. ~Linked(s)
    BY Zenon, <2>1 DEF StreamsOK, LinkOK, Waits, InQueue, Dequeuing, Locked
  <2>3. th'[s].ret = "idle" /\ th'[s].p = NULL /\ th'[s].pp = NULL
    BY <2>1 DEF NoLocals
  <2>4. ControlOK(s)'
    BY Zenon, <1>a, <2>1, <2>3 DEF ControlOK, Dequeuing, Locked, ReadyLabels
  <2>5. /\ strm'[s].st = IF pend[s].assigned THEN "ASS" ELSE "REQ"
        /\ strm'[s].assigned = pend[s].assigned /\ strm'[s].srv_conn = strm[s].srv_conn
        /\ strm'[s].target = IF pend[s].target = NULL THEN strm[s].target ELSE pend[s].target
    BY Zenon, <1>20, <1>a DEF TakeResult, StrmTypes, Stream
  <2>6. pend[s] # NULL /\ pend[s] \in Entry
    BY Zenon, <1>a, <2>1 DEF StreamOK, StrmTypes
  <2>7. StreamOK(s)'
    <3>1. CASE pend[s].assigned
      <4>1. strm'[s].st = "ASS" /\ strm'[s].target \in Servers
        <5>1. NULL \notin Servers /\ pend[s].target \in NServer
          BY Zenon, <2>6, QueueAssumption DEF Entry
        <5> QED BY Zenon, <1>a, <2>5, <2>6, <3>1, <5>1 DEF StreamOK, NServer
      <4> QED BY Zenon, <2>1, <4>1 DEF StreamOK, ReadyLabels
    <3>2. CASE ~pend[s].assigned
      <4>1. strm'[s].st = "REQ" /\ ~strm'[s].assigned /\ strm'[s].srv_conn = NULL
        BY Zenon, <1>a, <2>5, <2>6, <3>2 DEF StreamOK
      <4> QED BY Zenon, <2>1, <4>1 DEF StreamOK, ReadyLabels
    <3> QED BY Zenon, <3>1, <3>2
  <2>8. FreeOK(s)'
    BY Zenon, <1>a, <2>1, <2>3, <2>5 DEF FreeOK, Freeing, Dequeuing, Locked
  <2> QED BY Zenon, <2>1, <2>2, <2>4, <2>7, <2>8, FreeStep DEF Locked
<1>21. ASSUME AbortConnection(s) PROVE Control'
  <2>1. /\ OthersWait(s) /\ UNCHANGED links
        /\ \A x \in Streams \ {s} : strm'[x] = strm[x] /\ pend'[x] = pend[x]
    BY Zenon, <1>21, <1>a DEF AbortConnection, OthersWait, Goto, strms, StrmTypes, ProcTypes
  <2>2. ~Linked(s) /\ del_lock[s] = NULL
    <3>1. ~Waits(s, InQueue \cup {"rdy_undo", "out"})
      BY Zenon, <1>21, <1>a DEF AbortConnection, Waits, InQueue, StreamOK, Dequeuing, Locked
    <3> QED BY Zenon, <3>1, NotWaiting
  <2>3. pc[s] \notin Locked /\ pc'[s] \notin Locked
    BY Zenon, <1>21, <1>a DEF AbortConnection, Locked, Goto, ProcTypes
  <2>4. ControlOK(s)'
    BY Zenon, <1>21, <1>a DEF AbortConnection, ControlOK, Goto, ProcTypes, Dequeuing, Locked,
       ReadyLabels
  <2>5. StreamOK(s)'
    BY Zenon, <1>21, <1>a, QueueAssumption DEF AbortConnection, StreamOK, Goto, ProcTypes, StrmTypes,
       strms, Stream, ReadyLabels
  <2>6. FreeOK(s)'
    BY Zenon, <1>21, <1>a DEF AbortConnection, FreeOK, Freeing, StreamOK, Goto, ProcTypes, StrmTypes,
       strms, Stream, Dequeuing, Locked
  <2> QED BY Zenon, <2>1, <2>2, <2>3, <2>4, <2>5, <2>6, FreeStep
<1> QED BY ZenonT(30), <1>1, <1>2, <1>3, <1>4, <1>5, <1>6, <1>7, <1>8, <1>9, <1>10, <1>11, <1>12, <1>13,
           <1>14, <1>15, <1>16, <1>17, <1>18, <1>19, <1>20, <1>21

-----------------------------------------------------------------------------
(* The steps of a stream that waits, or is about to, and leaves the queues *)
(* alone.                                                                  *)
LEMMA WaitControl ==
  ASSUME TypeOK, Control, NEW s \in Streams
  PROVE  (\/ CountPending(s) \/ GrabReady(s) \/ TakeReadySlot(s) \/ GiveReadyBack(s)
          \/ pendconn_dequeue(s) \/ StillQueued(s) \/ StreamFree(s))
         => Control'
<1> USE DEF TypeOK, Control
<1>a. /\ s \in Procs /\ s # Admin /\ StreamOK(s) /\ FreeOK(s) /\ LinkOK(s) /\ ControlOK(s)
      /\ th[s] \in Locals /\ strm[s] \in Stream /\ "idle" \in {"idle", "free_slot", "gone"}
  BY Zenon, QueueAssumption DEF ProcsOK, StreamsOK, Procs, ProcTypes, StrmTypes
<1>b. ASSUME UNCHANGED links, Linked(s) => Waits(s, InQueue)', UNCHANGED pend \/ pend'[s].owner = pend[s].owner,
             del_lock[s] # NULL => Waits(s, InQueue \cup {"rdy_undo", "out"})',
             pc[s] \notin Locked, OthersWait(s)
      PROVE  LinkOK(s)'
  <2>1. /\ UNCHANGED <<tree, del_lock>> /\ (Linked(s)' <=> Linked(s))
        /\ QueueOf(s)' = QueueOf(s)
    BY Zenon, <1>b DEF links, Linked, QueueOf
  <2>2. del_lock[s] # NULL => pc'[del_lock[s]] = "tell" /\ th'[del_lock[s]].pp = s
    BY Zenon, <1>a, <1>b DEF LinkOK, OthersWait, LinkTypes, Locked
  <2> QED BY Zenon, <1>a, <1>b, <2>1, <2>2 DEF LinkOK
<1>1. ASSUME CountPending(s) PROVE Control'
  <2>1. /\ UNCHANGED links /\ UNCHANGED pend /\ pc[s] = "added" /\ pend[s] # NULL
        /\ strm'[s].st = "QUE" /\ strm'[s].assigned = strm[s].assigned
        /\ strm'[s].target = strm[s].target /\ strm'[s].srv_conn = strm[s].srv_conn
        /\ \A x \in Streams \ {s} : strm'[x] = strm[x] /\ pend'[x] = pend[x]
    BY Zenon, <1>1, <1>a DEF CountPending, StreamOK, StrmTypes, Stream
  <2>2. /\ OthersWait(s) /\ pc'[s] \in {"ready", "loop", "idle"} /\ pc'[s] \notin Locked
        /\ ControlOK(s)' /\ (pc'[s] = "loop" => th'[s].ret = "idle")
    <3>1. CASE pend[s].owner = Px
      BY Zenon, <1>1, <1>a, <3>1 DEF CountPending, Goto, OthersWait, ProcTypes, ControlOK, Dequeuing,
                              Locked, ReadyLabels
    <3>2. CASE pend[s].owner # Px
      <4>1. pend[s].owner \in NServer
        BY Zenon, <2>1, <3>2 DEF StrmTypes, Entry, Owners, NServer
      <4>2. CallProcessQueue(s, pend[s].owner, "idle")
        BY Zenon, <1>1, <3>2 DEF CountPending
      <4> QED BY Zenon, <1>a, <4>1, <4>2, CallControl
    <3> QED BY Zenon, <3>1, <3>2
  <2>3. StreamOK(s)'
    BY Zenon, <1>a, <2>1, <2>2 DEF StreamOK, ReadyLabels
  <2>4. FreeOK(s)'
    BY Zenon, <1>a, <2>1, <2>2 DEF FreeOK, Freeing, Dequeuing, Locked
  <2>5. \A labels : InQueue \subseteq labels /\ Waits(s, labels) => Waits(s, labels)'
    BY Zenon, <2>1, <2>2 DEF Waits, InQueue, Dequeuing, Locked
  <2>6. LinkOK(s)'
    BY Zenon, <1>a, <1>b, <2>1, <2>2, <2>5 DEF LinkOK, Locked
  <2> QED BY Zenon, <2>1, <2>2, <2>3, <2>4, <2>6, PlainStep DEF Locked
<1>c. ASSUME UNCHANGED links, UNCHANGED <<strm, pend>>, OthersWait(s), strm[s].st = "QUE",
             pc[s] \in InQueue \cup {"rdy_undo"}, pc'[s] \in {"idle", "rdy_cas", "rdy_lock", "still", "out"},
             th'[s].ret = th[s].ret /\ th'[s].p = th[s].p /\ th'[s].pp = th[s].pp,
             pc'[s] \in {"rdy_cas", "rdy_lock"} => th'[s].srv \in Servers,
             pc'[s] = "out" => ~Linked(s)
      PROVE  Control'
  <2>1. pc[s] \notin Locked \cup Dequeuing /\ pc'[s] \notin Locked \cup Dequeuing
    BY Zenon, <1>c DEF InQueue, Locked, Dequeuing
  <2>2. ControlOK(s)'
    BY Zenon, <1>a, <1>c, <2>1 DEF ControlOK, ReadyLabels, InQueue
  <2>3. StreamOK(s)' /\ FreeOK(s)'
    BY Zenon, <1>a, <1>c, <2>1 DEF StreamOK, FreeOK, Freeing, ReadyLabels
  <2>4. Linked(s) => Waits(s, InQueue)'
    BY Zenon, <1>a, <1>c, <2>1 DEF LinkOK, Waits, InQueue
  <2>5. del_lock[s] # NULL => Waits(s, InQueue \cup {"rdy_undo", "out"})'
    BY Zenon, <1>a, <1>c, <2>1 DEF LinkOK, Waits, InQueue
  <2>6. LinkOK(s)'
    BY Zenon, <1>b, <1>c, <2>1, <2>4, <2>5
  <2> QED BY Zenon, <1>c, <2>1, <2>2, <2>3, <2>6, PlainStep
<1>2. ASSUME GrabReady(s) PROVE Control'
  <2>1. /\ UNCHANGED links /\ UNCHANGED <<strm, pend>> /\ pc[s] = "ready"
    BY Zenon, <1>2 DEF GrabReady, strms
  <2>2. /\ OthersWait(s) /\ pc'[s] = IF ready_srv = NULL THEN "idle" ELSE "rdy_cas"
        /\ th'[s] = [th[s] EXCEPT !.srv = ready_srv]
    BY Zenon, <1>2, <1>a DEF GrabReady, Goto, OthersWait, ProcTypes
  <2>3. /\ th'[s].ret = th[s].ret /\ th'[s].p = th[s].p /\ th'[s].pp = th[s].pp
        /\ th'[s].srv = ready_srv
    BY Zenon, <1>a, <2>2 DEF Locals
  <2> QED BY Zenon, <1>a, <1>c, <2>1, <2>2, <2>3 DEF SrvTypes, NServer, InQueue, StreamOK, ReadyLabels
<1>3. ASSUME TakeReadySlot(s) PROVE Control'
  <2>1. /\ UNCHANGED links /\ UNCHANGED <<strm, pend>> /\ pc[s] = "rdy_cas" /\ UNCHANGED th
        /\ OthersWait(s) /\ pc'[s] \in {"idle", "rdy_lock"}
    BY Zenon, <1>3, <1>a DEF TakeReadySlot, strms, Goto, OthersWait, ProcTypes
  <2> QED BY Zenon, <1>a, <1>c, <2>1 DEF InQueue, StreamOK, ControlOK, ReadyLabels
<1>4. ASSUME GiveReadyBack(s) PROVE Control'
  <2>1. /\ UNCHANGED links /\ UNCHANGED <<strm, pend>> /\ pc[s] = "rdy_undo" /\ UNCHANGED th
        /\ OthersWait(s) /\ pc'[s] = "idle"
    BY Zenon, <1>4, <1>a DEF GiveReadyBack, strms, Goto, OthersWait, ProcTypes
  <2> QED BY Zenon, <1>a, <1>c, <2>1 DEF StreamOK, ReadyLabels
<1>5. ASSUME pendconn_dequeue(s) PROVE Control'
  <2>1. /\ UNCHANGED links /\ UNCHANGED <<strm, pend>> /\ pc[s] = "idle" /\ strm[s].st = "QUE"
        /\ OthersWait(s) /\ pc'[s] = IF Linked(s) THEN "still" ELSE "out"
        /\ \E x \in {FALSE, Timeouts} : th'[s] = [th[s] EXCEPT !.expired = x]
    BY Zenon, <1>5, <1>a DEF pendconn_dequeue, Goto, OthersWait, ProcTypes
  <2>2. th'[s].ret = th[s].ret /\ th'[s].p = th[s].p /\ th'[s].pp = th[s].pp
    BY Zenon, <1>a, <2>1 DEF Locals
  <2> QED BY Zenon, <1>c, <2>1, <2>2 DEF InQueue
<1>6. ASSUME StillQueued(s) PROVE Control'
  <2>1. UNCHANGED links /\ UNCHANGED pend /\ pc[s] = "still" /\ del_lock[s] = NULL /\ strm[s].st = "QUE"
    BY Zenon, <1>6, <1>a DEF StillQueued, StreamOK
  <2>2. CASE ~th[s].expired
    <3>1. UNCHANGED <<strm, th>> /\ pc'[s] = "idle" /\ OthersWait(s)
      BY Zenon, <1>6, <1>a, <2>2 DEF StillQueued, Goto, OthersWait, ProcTypes
    <3> QED BY Zenon, <1>c, <2>1, <3>1 DEF InQueue
  <2>3. CASE th[s].expired
    <3>1. /\ pc'[s] = "unlink" /\ OthersWait(s) /\ th'[s] = NoLocals
          /\ \A x \in Streams \ {s} : strm'[x] = strm[x]
          /\ strm'[s].st = "CLO" /\ strm'[s].assigned = strm[s].assigned
          /\ strm'[s].target = strm[s].target /\ strm'[s].srv_conn = strm[s].srv_conn
      BY <1>6, <1>a, <2>3 DEF StillQueued, Goto, OthersWait, ProcTypes, StrmTypes, Stream
    <3>2. th'[s].ret = "idle" /\ th'[s].p = NULL /\ th'[s].pp = NULL
      BY <3>1 DEF NoLocals
    <3>3. ControlOK(s)'
      BY Zenon, <1>a, <3>1, <3>2 DEF ControlOK, Dequeuing, Locked, ReadyLabels
    <3>4. StreamOK(s)'
      BY Zenon, <1>a, <2>1, <3>1, <3>2 DEF StreamOK, ReadyLabels
    <3>5. FreeOK(s)'
      BY Zenon, <1>a, <2>1, <3>1, <3>2 DEF FreeOK, Freeing, Dequeuing, Locked
    <3>6. Linked(s) => Waits(s, InQueue)'
      BY Zenon, <1>a, <2>1, <3>1 DEF LinkOK, Waits, InQueue, Dequeuing, Locked
    <3>7. LinkOK(s)'
      BY Zenon, <1>b, <2>1, <3>1, <3>6 DEF Locked
    <3> QED BY Zenon, <2>1, <3>1, <3>3, <3>4, <3>5, <3>7, PlainStep DEF Locked
  <2> QED BY Zenon, <2>2, <2>3
<1>7. ASSUME StreamFree(s) PROVE Control'
  <2>1. UNCHANGED links /\ UNCHANGED strm /\ pc[s] = "idle" /\ strm[s].st = "CLO"
    BY Zenon, <1>7 DEF StreamFree
  <2>2. CASE pend[s] # NULL
    <3>1. UNCHANGED pend /\ pc'[s] = "unlink" /\ OthersWait(s) /\ th'[s] = [th[s] EXCEPT !.ret = "freed"]
      BY Zenon, <1>7, <1>a, <2>2 DEF StreamFree, Goto, OthersWait, ProcTypes
    <3>2. th'[s].ret = "freed" /\ th'[s].p = th[s].p /\ th'[s].pp = th[s].pp
      BY Zenon, <1>a, <3>1 DEF Locals
    <3>3. ControlOK(s)'
      BY Zenon, <1>a, <2>1, <3>1, <3>2 DEF ControlOK, Dequeuing, Locked, ReadyLabels
    <3>4. StreamOK(s)'
      BY Zenon, <1>a, <2>1, <2>2, <3>1, <3>2 DEF StreamOK, ReadyLabels
    <3>5. FreeOK(s)'
      BY Zenon, <1>a, <2>1, <3>1, <3>2 DEF FreeOK, Freeing, Dequeuing, Locked
    <3>6. \A labels : InQueue \subseteq labels /\ Waits(s, labels) => Waits(s, labels)'
      BY Zenon, <2>1, <3>1 DEF Waits, InQueue, Dequeuing, Locked
    <3>7. LinkOK(s)'
      BY Zenon, <1>a, <1>b, <2>1, <3>1, <3>6 DEF LinkOK, Locked
    <3> QED BY Zenon, <2>1, <3>1, <3>3, <3>4, <3>5, <3>7, PlainStep DEF Locked
  <2>3. CASE pend[s] = NULL
    <3>1. CallProcessQueue(s, strm[s].target, "free_slot") /\ pend' = [pend EXCEPT ![s] = NULL]
      BY Zenon, <1>7, <2>3 DEF StreamFree, FreeEntry
    <3>2. /\ pc'[s] \in {"loop", "free_slot"} /\ OthersWait(s) /\ pc'[s] \notin Locked
          /\ th'[s].ret = (IF pc'[s] = "loop" THEN "free_slot" ELSE "idle") /\ ControlOK(s)'
      BY Zenon, <1>a, <3>1, CallControl DEF Stream
    <3>3. pend'[s] = NULL /\ \A x \in Streams \ {s} : pend'[x] = pend[x]
      BY Zenon, <3>1 DEF StrmTypes
    <3>4. ~Linked(s) /\ del_lock[s] = NULL
      BY Zenon, <1>a, <2>3 DEF LinkOK, Waits
    <3>5. StreamOK(s)'
      BY Zenon, <1>a, <2>1, <3>2, <3>3 DEF StreamOK, ReadyLabels
    <3>6. FreeOK(s)'
      BY Zenon, <1>a, <2>1, <3>2, <3>3 DEF FreeOK, Freeing, Dequeuing, Locked
    <3> QED BY Zenon, <2>1, <3>2, <3>3, <3>4, <3>5, <3>6, FreeStep DEF Locked
  <2> QED BY Zenon, <2>2, <2>3
<1> QED BY Zenon, <1>1, <1>2, <1>3, <1>4, <1>5, <1>6, <1>7

-----------------------------------------------------------------------------
(* The steps of process_srv_queue() that take no entry out. *)
LEMMA QuietControl ==
  ASSUME TypeOK, Control, NEW p \in Procs
  PROVE  (\/ LoopHead(p) \/ TakeTurn(p) \/ LockServerQueue(p) \/ InnerLoop(p) \/ PeekQueues(p)
          \/ ReserveSlot(p) \/ CountDequeued(p) \/ UnlockServerQueue(p) \/ Account(p)
          \/ CheckIdle(p) \/ SetReady(p) \/ RetryGroup(p) \/ RetryAccount(p) \/ NextGroup(p))
         => Control'
<1> USE DEF TypeOK, Control
<1>a. /\ ControlOK(p) /\ LockOK(p) /\ EntryOK(p) /\ th[p] \in Locals /\ PxQueue(p) \in Queues
      /\ p # NULL /\ (pc[p] \in Dequeuing => SrvQueue(p) \in Queues /\ SrvQueue(p) # PxQueue(p))
  BY ZenonT(30), OwnQueues, QueueAssumption DEF ProcsOK, ProcTypes, Procs, ControlOK, SrvQueue, PxQueue
<1>b. ASSUME NEW l \in Dequeuing \ Locked, pc[p] \in Dequeuing \ {"tell"}, Goto(p, l),
             UNCHANGED <<tree, del_lock, strm, pend>>,
             \A x \in Procs \ {p} : th'[x] = th[x],
             \A q \in Queues : lock[q] \notin {NULL, p} => lock'[q] = lock[q],
             th'[p].ret = th[p].ret /\ th'[p].srv = th[p].srv /\ th'[p].p = NULL /\ th'[p].pp = NULL
      PROVE  Control'
  <2>1. pc'[p] = l /\ OthersWait(p)
    BY Zenon, <1>b DEF Goto, OthersWait, ProcTypes
  <2>2. ControlOK(p)'
    BY Zenon, <1>a, <1>b, <2>1 DEF ControlOK, AdminLabels, Dequeuing, Locked, ReadyLabels
  <2>3. LockOK(p)' /\ EntryOK(p)'
    BY Zenon, <1>b, <2>1 DEF LockOK, EntryOK, Locked
  <2> QED BY Zenon, <1>b, <2>1, <2>2, <2>3, QuietStep
<1>c. ASSUME pc[p] \in Dequeuing \ {"tell"}, Return(p), UNCHANGED <<tree, del_lock, strm, pend>>,
             \A q \in Queues : lock[q] \notin {NULL, p} => lock'[q] = lock[q]
      PROVE  Control'
  <2>1. pc'[p] = th[p].ret /\ th'[p] = NoLocals /\ OthersWait(p)
    BY Zenon, <1>c DEF Return, Goto, OthersWait, ProcTypes
  <2>2. th'[p].ret = "idle" /\ th'[p].p = NULL /\ th'[p].pp = NULL
    BY <2>1 DEF NoLocals
  <2>3. th[p].ret \in {"idle", "free_slot", "gone"}
    BY Zenon, <1>a, <1>c DEF ControlOK
  <2>4. ControlOK(p)'
    BY Zenon, <1>a, <1>c, <2>1, <2>2, <2>3 DEF ControlOK, AdminLabels, Dequeuing, Locked, ReadyLabels
  <2>5. LockOK(p)' /\ EntryOK(p)'
    BY Zenon, <2>1, <2>2, <2>3 DEF LockOK, EntryOK, Locked
  <2> QED BY Zenon, <1>c, <2>1, <2>2, <2>4, <2>5, QuietStep
<1>d. ASSUME NEW l \in Locked \ {"pick", "reserve", "tell"}, pc[p] \in Dequeuing \ {"tell"}, Goto(p, l),
             UNCHANGED <<tree, del_lock, strm, pend>>,
             \A x \in Procs \ {p} : th'[x] = th[x],
             \A q \in Queues : lock[q] \notin {NULL, p} => lock'[q] = lock[q],
             th'[p].ret = th[p].ret /\ th'[p].srv = th[p].srv /\ th'[p].cur = th[p].cur,
             th'[p].p = NULL /\ th'[p].pp = NULL, lock'[SrvQueue(p)] = p
      PROVE  Control'
  <2>1. pc'[p] = l /\ OthersWait(p)
    BY Zenon, <1>d DEF Goto, OthersWait, ProcTypes
  <2>2. ControlOK(p)'
    BY Zenon, <1>a, <1>d, <2>1 DEF ControlOK, AdminLabels, Dequeuing, Locked, ReadyLabels
  <2>3. LockOK(p)' /\ EntryOK(p)'
    BY Zenon, <1>d, <2>1 DEF LockOK, EntryOK, SrvQueue
  <2>4. l \in Dequeuing
    BY Zenon DEF Dequeuing
  <2> QED BY Zenon, <1>d, <2>1, <2>2, <2>3, <2>4, QuietStep
<1>e. pc[p] \notin {"reserve", "pick", "tell"} => th[p].p = NULL /\ th[p].pp = NULL
  BY Zenon, <1>a DEF ControlOK
<1>1. ASSUME LoopHead(p) PROVE Control'
  <2> DEFINE l == IF pc'[p] = "turn" THEN "turn" ELSE IF th[p].done > 0 THEN "account" ELSE "idle_srv"
  <2>1. /\ pc[p] = "loop" /\ Goto(p, l) /\ UNCHANGED links /\ UNCHANGED strms
        /\ \A x \in Procs \ {p} : th'[x] = th[x]
        /\ \/ th'[p] = th[p]
           \/ th'[p] = [th[p] EXCEPT !.cur = PickGroup(p).cur, !.todo = PickGroup(p).todo]
    BY Zenon, <1>1 DEF LoopHead, Goto, ProcTypes
  <2>2. th'[p].ret = th[p].ret /\ th'[p].srv = th[p].srv /\ th'[p].p = th[p].p /\ th'[p].pp = th[p].pp
    BY Zenon, <1>a, <2>1 DEF Locals
  <2>3. l \in Dequeuing \ Locked
    BY Zenon DEF Dequeuing, Locked
  <2> QED BY Zenon, <1>b, <1>e, <2>1, <2>2, <2>3 DEF links, strms, Dequeuing
<1>2. ASSUME TakeTurn(p) PROVE Control'
  <2>1. /\ pc[p] = "turn" /\ (Goto(p, "loop") \/ Goto(p, "lock")) /\ UNCHANGED links /\ UNCHANGED strms
        /\ \A x \in Procs \ {p} : th'[x] = th[x]
        /\ \/ th'[p] = th[p]
           \/ th'[p] = [th[p] EXCEPT !.grps = @ \ {th[p].cur}]
    BY Zenon, <1>2 DEF TakeTurn, ProcTypes
  <2>2. th'[p].ret = th[p].ret /\ th'[p].srv = th[p].srv /\ th'[p].p = th[p].p /\ th'[p].pp = th[p].pp
    BY Zenon, <1>a, <2>1 DEF Locals
  <2>3. "loop" \in Dequeuing \ Locked /\ "lock" \in Dequeuing \ Locked
    BY Zenon DEF Dequeuing, Locked
  <2> QED BY Zenon, <1>b, <1>e, <2>1, <2>2, <2>3 DEF links, strms, Dequeuing
<1>3. ASSUME LockServerQueue(p) \/ RetryGroup(p) PROVE Control'
  <2>1. /\ pc[p] \in {"lock", "retry"} /\ (Goto(p, "peek") \/ Goto(p, "unlock")) /\ lock[SrvQueue(p)] = NULL
        /\ lock' = [lock EXCEPT ![SrvQueue(p)] = p] /\ UNCHANGED <<tree, del_lock, strm, pend, th>>
    BY Zenon, <1>3 DEF LockServerQueue, RetryGroup, strms
  <2>2. lock'[SrvQueue(p)] = p /\ \A q \in Queues : lock[q] \notin {NULL, p} => lock'[q] = lock[q]
    BY Zenon, <1>a, <2>1 DEF LinkTypes, Dequeuing
  <2>3. {"peek", "unlock"} \subseteq Locked \ {"pick", "reserve", "tell"}
    BY Zenon DEF Locked
  <2> QED BY Zenon, <1>d, <1>e, <2>1, <2>2, <2>3 DEF Dequeuing
<1>4. ASSUME InnerLoop(p) PROVE Control'
  <2>1. /\ pc[p] = "inner" /\ (Goto(p, "peek") \/ Goto(p, "unlock"))
        /\ UNCHANGED <<tree, lock, del_lock, strm, pend, th>>
    BY Zenon, <1>4 DEF InnerLoop, links, strms
  <2>2. lock[SrvQueue(p)] = p
    BY Zenon, <1>a, <2>1 DEF LockOK, Locked
  <2>3. {"peek", "unlock"} \subseteq Locked \ {"pick", "reserve", "tell"}
    BY Zenon DEF Locked
  <2> QED BY Zenon, <1>d, <1>e, <2>1, <2>2, <2>3 DEF Dequeuing, Locked
<1>f. ASSUME NothingDone(p), pc[p] \in {"peek", "reserve"}, UNCHANGED <<tree, del_lock, strm, pend>>,
             \A q \in Queues : lock[q] \notin {NULL, p} => lock'[q] = lock[q],
             lock'[SrvQueue(p)] = lock[SrvQueue(p)]
      PROVE  Control'
  <2>1. /\ Goto(p, "next_grp") \/ Goto(p, "unlock")
        /\ \A x \in Procs \ {p} : th'[x] = th[x]
        /\ \/ th'[p] = [th[p] EXCEPT !.p = NULL, !.pp = NULL]
           \/ th'[p] = [th[p] EXCEPT !.p = NULL, !.pp = NULL, !.grps = @ \ {th[p].cur}]
    BY Zenon, <1>f DEF NothingDone, ProcTypes
  <2>2. /\ th'[p].ret = th[p].ret /\ th'[p].srv = th[p].srv /\ th'[p].cur = th[p].cur
        /\ th'[p].p = NULL /\ th'[p].pp = NULL
    BY Zenon, <1>a, <2>1 DEF Locals
  <2>3. lock[SrvQueue(p)] = p
    BY Zenon, <1>a, <1>f DEF LockOK, Locked
  <2>4. {"next_grp", "unlock"} \subseteq Locked \ {"pick", "reserve", "tell"}
    BY Zenon DEF Locked
  <2> QED BY Zenon, <1>d, <1>f, <2>1, <2>2, <2>3, <2>4 DEF Dequeuing, Locked
<1>5. ASSUME PeekQueues(p) PROVE Control'
  <2> DEFINE sq == SrvQueue(p)
             pq == PxQueue(p)
             look == th[p].px_ok /\ length[pq] > 0
             e == IF length[sq] > 0 THEN First(tree[sq]) ELSE NULL
             ee == IF look THEN First(tree[pq]) ELSE NULL
  <2>1. /\ pc[p] = "peek" /\ (look => lock[pq] = NULL)
        /\ lock' = IF ee # NULL THEN [lock EXCEPT ![pq] = p] ELSE lock
        /\ IF e = NULL /\ ee = NULL
             THEN NothingDone(p)
             ELSE Goto(p, "reserve") /\ th' = [th EXCEPT ![p].p = e, ![p].pp = ee]
        /\ UNCHANGED <<tree, del_lock, strm, pend>>
    BY Zenon, <1>5 DEF PeekQueues, strms
  <2>2. /\ sq \in Queues /\ pq \in Queues /\ sq # pq /\ lock[sq] = p
    BY Zenon, <1>a, <2>1 DEF LockOK, Dequeuing, Locked
  <2>3. /\ e # NULL => InSeq(e, tree[sq])
        /\ ee # NULL => InSeq(ee, tree[pq]) /\ look
    BY Zenon, <2>2, FirstSeq DEF LinkTypes
  <2> HIDE DEF sq, pq, e, ee, look
  <2>4. \A q \in Queues : lock[q] \notin {NULL, p} => lock'[q] = lock[q]
    BY Zenon, <2>1, <2>2, <2>3 DEF LinkTypes
  <2>5. lock'[sq] = p /\ (ee # NULL => lock'[pq] = p)
    BY Zenon, <2>1, <2>2 DEF LinkTypes
  <2>6. CASE e = NULL /\ ee = NULL
    BY Zenon, <1>f, <2>1, <2>2, <2>4, <2>5, <2>6 DEF sq
  <2>7. CASE ~(e = NULL /\ ee = NULL)
    <3>1. pc'[p] = "reserve" /\ OthersWait(p) /\ th'[p] = [th[p] EXCEPT !.p = e, !.pp = ee]
      BY Zenon, <2>1, <2>7 DEF Goto, OthersWait, ProcTypes
    <3>2. /\ th'[p].ret = th[p].ret /\ th'[p].srv = th[p].srv /\ th'[p].cur = th[p].cur
          /\ th'[p].p = e /\ th'[p].pp = ee
      BY Zenon, <1>a, <3>1 DEF Locals
    <3>3. SrvQueue(p)' = sq /\ PxQueue(p)' = pq
      BY Zenon, <3>2 DEF SrvQueue, PxQueue, sq, pq
    <3>4. ControlOK(p)'
      BY Zenon, <1>a, <2>1, <2>7, <3>1, <3>2 DEF ControlOK, AdminLabels, Dequeuing, Locked, ReadyLabels
    <3>5. LockOK(p)' /\ EntryOK(p)'
      BY Zenon, <2>1, <2>3, <2>5, <3>1, <3>2, <3>3 DEF LockOK, EntryOK
    <3> QED BY Zenon, <2>1, <2>4, <3>1, <3>2, <3>4, <3>5, QuietStep DEF Dequeuing, Locked
  <2> QED BY Zenon, <2>6, <2>7
<1>g. /\ UnlockPx(p)[PxQueue(p)] \in {NULL, lock[PxQueue(p)]}
      /\ \A q \in Queues \ {PxQueue(p)} : UnlockPx(p)[q] = lock[q]
      /\ pc[p] \in {"reserve", "pick"} => \A q \in Queues : lock[q] \notin {NULL, p} => UnlockPx(p)[q] = lock[q]
  BY Zenon, <1>a DEF UnlockPx, LinkTypes, LockOK
<1>6. ASSUME ReserveSlot(p) PROVE Control'
  <2>1. pc[p] = "reserve" /\ UNCHANGED <<tree, del_lock, strm, pend>>
    BY Zenon, <1>6 DEF ReserveSlot, strms
  <2>2. CASE served[th[p].srv] < MaxConn[th[p].srv]
    <3>1. pc'[p] = "pick" /\ OthersWait(p) /\ UNCHANGED <<lock, th>>
      BY Zenon, <1>6, <2>2 DEF ReserveSlot, Goto, OthersWait, ProcTypes
    <3>2. ControlOK(p)'
      BY Zenon, <1>a, <2>1, <3>1 DEF ControlOK, AdminLabels, Dequeuing, Locked, ReadyLabels
    <3>3. LockOK(p)' /\ EntryOK(p)'
      BY Zenon, <1>a, <2>1, <3>1 DEF LockOK, EntryOK, SrvQueue, PxQueue, Locked
    <3> QED BY Zenon, <2>1, <3>1, <3>2, <3>3, QuietStep DEF Dequeuing, Locked
  <2>3. CASE ~(served[th[p].srv] < MaxConn[th[p].srv])
    <3>1. lock' = UnlockPx(p) /\ NothingDone(p)
      BY Zenon, <1>6, <2>3 DEF ReserveSlot
    <3>2. SrvQueue(p) \in Queues \ {PxQueue(p)}
      BY Zenon, <1>a, <2>1 DEF Dequeuing, Locked
    <3> QED BY Zenon, <1>f, <1>g, <2>1, <3>1, <3>2
  <2> QED BY Zenon, <2>2, <2>3
<1>7. ASSUME CountDequeued(p) PROVE Control'
  <2>1. pc[p] \in {"count_px", "count_srv"} /\ UNCHANGED <<tree, del_lock, strm, pend>>
    BY Zenon, <1>7 DEF CountDequeued, strms
  <2>2. lock[SrvQueue(p)] = p
    BY Zenon, <1>a, <2>1 DEF LockOK, Locked
  <2>3. CASE th[p].retry
    <3>1. Goto(p, "retry_acc") /\ lock' = [lock EXCEPT ![SrvQueue(p)] = NULL] /\ UNCHANGED th
      BY Zenon, <1>7, <2>3 DEF CountDequeued
    <3>2. \A q \in Queues : lock[q] \notin {NULL, p} => lock'[q] = lock[q]
      BY Zenon, <2>2, <3>1 DEF LinkTypes
    <3>3. "retry_acc" \in Dequeuing \ Locked
      BY Zenon DEF Dequeuing, Locked
    <3> QED BY Zenon, <1>b, <1>e, <2>1, <3>1, <3>2, <3>3 DEF Dequeuing, Locked
  <2>4. CASE ~th[p].retry
    <3>1. /\ Goto(p, "unlock") \/ Goto(p, "inner")
          /\ \A x \in Procs \ {p} : th'[x] = th[x]
          /\ th'[p] = [th[p] EXCEPT !.todo = @ - 1, !.done = @ + 1] /\ UNCHANGED lock
      BY Zenon, <1>7, <2>4 DEF CountDequeued, ProcTypes
    <3>2. /\ th'[p].ret = th[p].ret /\ th'[p].srv = th[p].srv /\ th'[p].cur = th[p].cur
          /\ th'[p].p = th[p].p /\ th'[p].pp = th[p].pp
      BY Zenon, <1>a, <3>1 DEF Locals
    <3>3. {"inner", "unlock"} \subseteq Locked \ {"pick", "reserve", "tell"}
      BY Zenon DEF Locked
    <3> QED BY Zenon, <1>d, <1>e, <2>1, <2>2, <3>1, <3>2, <3>3 DEF Dequeuing, Locked
  <2> QED BY Zenon, <2>3, <2>4
<1>8. ASSUME UnlockServerQueue(p) PROVE Control'
  <2>1. /\ pc[p] = "unlock" /\ Goto(p, "loop") /\ UNCHANGED <<tree, del_lock, strm, pend, th>>
        /\ lock' = [lock EXCEPT ![SrvQueue(p)] = NULL]
    BY Zenon, <1>8 DEF UnlockServerQueue, strms
  <2>2. \A q \in Queues : lock[q] \notin {NULL, p} => lock'[q] = lock[q]
    BY Zenon, <1>a, <2>1 DEF LinkTypes, LockOK, Locked
  <2>3. "loop" \in Dequeuing \ Locked
    BY Zenon DEF Dequeuing, Locked
  <2> QED BY Zenon, <1>b, <1>e, <2>1, <2>2, <2>3 DEF Dequeuing, Locked
<1>9. ASSUME Account(p) PROVE Control'
  <2>1. pc[p] = "account" /\ Goto(p, "idle_srv") /\ UNCHANGED <<tree, lock, del_lock, strm, pend, th>>
    BY Zenon, <1>9 DEF Account, links, strms
  <2>2. "idle_srv" \in Dequeuing \ Locked
    BY Zenon DEF Dequeuing, Locked
  <2> QED BY Zenon, <1>b, <1>e, <2>1, <2>2 DEF Dequeuing
<1>10. ASSUME CheckIdle(p) PROVE Control'
  <2>1. /\ pc[p] = "idle_srv" /\ UNCHANGED <<tree, lock, del_lock, strm, pend>>
        /\ Return(p) \/ (Goto(p, "set_ready") /\ UNCHANGED th)
    BY Zenon, <1>10 DEF CheckIdle, links, strms
  <2>2. "set_ready" \in Dequeuing \ Locked
    BY Zenon DEF Dequeuing, Locked
  <2> QED BY Zenon, <1>b, <1>c, <1>e, <2>1, <2>2 DEF Dequeuing
<1>11. ASSUME SetReady(p) PROVE Control'
  <2>1. /\ pc[p] = "set_ready" /\ Goto(p, "retry") /\ UNCHANGED <<tree, lock, del_lock, strm, pend>>
        /\ \A x \in Procs \ {p} : th'[x] = th[x]
        /\ th'[p] = [th[p] EXCEPT !.cur = 1, !.retry = TRUE]
    BY Zenon, <1>11 DEF SetReady, links, strms, ProcTypes
  <2>2. th'[p].ret = th[p].ret /\ th'[p].srv = th[p].srv /\ th'[p].p = th[p].p /\ th'[p].pp = th[p].pp
    BY Zenon, <1>a, <2>1 DEF Locals
  <2>3. "retry" \in Dequeuing \ Locked
    BY Zenon DEF Dequeuing, Locked
  <2> QED BY Zenon, <1>b, <1>e, <2>1, <2>2, <2>3 DEF Dequeuing
<1>12. ASSUME RetryAccount(p) PROVE Control'
  <2>1. pc[p] = "retry_acc" /\ Return(p) /\ UNCHANGED <<tree, lock, del_lock, strm, pend>>
    BY Zenon, <1>12 DEF RetryAccount, links, strms
  <2> QED BY Zenon, <1>c, <2>1 DEF Dequeuing
<1>13. ASSUME NextGroup(p) PROVE Control'
  <2>1. /\ pc[p] = "next_grp" /\ UNCHANGED <<tree, del_lock, strm, pend>>
        /\ lock' = [lock EXCEPT ![SrvQueue(p)] = NULL]
    BY Zenon, <1>13 DEF NextGroup, strms
  <2>2. \A q \in Queues : lock[q] \notin {NULL, p} => lock'[q] = lock[q]
    BY Zenon, <1>a, <2>1 DEF LinkTypes, LockOK, Locked
  <2>3. CASE th[p].cur = Cardinality(Groups)
    BY Zenon, <1>13, <1>c, <2>1, <2>2, <2>3 DEF NextGroup, Dequeuing, Locked
  <2>4. CASE th[p].cur # Cardinality(Groups)
    <3>1. /\ Goto(p, "retry") /\ \A x \in Procs \ {p} : th'[x] = th[x]
          /\ th'[p] = [th[p] EXCEPT !.cur = @ + 1]
      BY Zenon, <1>13, <2>4 DEF NextGroup, ProcTypes
    <3>2. th'[p].ret = th[p].ret /\ th'[p].srv = th[p].srv /\ th'[p].p = th[p].p /\ th'[p].pp = th[p].pp
      BY Zenon, <1>a, <3>1 DEF Locals
    <3>3. "retry" \in Dequeuing \ Locked
      BY Zenon DEF Dequeuing, Locked
    <3> QED BY Zenon, <1>b, <1>e, <2>1, <2>2, <3>1, <3>2, <3>3 DEF Dequeuing, Locked
  <2> QED BY Zenon, <2>3, <2>4
<1> QED BY Zenon, <1>1, <1>2, <1>3, <1>4, <1>5, <1>6, <1>7, <1>8, <1>9, <1>10, <1>11, <1>12, <1>13
(* s is taken out of queue q. *)
TakesOut(q, s) == tree' = [tree EXCEPT ![q] = Without(@, s)]
(* A dequeuer takes an entry out of a queue and gives it its slot. *)
LEMMA TakeControl ==
  ASSUME TypeOK, Control, NEW p \in Procs
  PROVE  UseServerEntry(p) \/ UseProxyEntry(p) \/ TellProxyEntry(p) => Control'
<1> USE DEF TypeOK, Control
<1>a. /\ ControlOK(p) /\ LockOK(p) /\ EntryOK(p) /\ th[p] \in Locals /\ PxQueue(p) \in Queues
      /\ p # NULL /\ (pc[p] \in Dequeuing => SrvQueue(p) \in Queues /\ SrvQueue(p) # PxQueue(p))
  BY ZenonT(30), OwnQueues, QueueAssumption DEF ProcsOK, ProcTypes, Procs, ControlOK, SrvQueue, PxQueue
<1>b. /\ \A q \in Queues \ {PxQueue(p)} : UnlockPx(p)[q] = lock[q]
      /\ pc[p] = "pick" => \A q \in Queues : lock[q] \notin {NULL, p} => UnlockPx(p)[q] = lock[q]
  BY Zenon, <1>a DEF UnlockPx, LinkTypes, LockOK
<1>c. ASSUME NEW q \in Queues, NEW s \in Streams, InSeq(s, tree[q]),
             TakesOut(q, s)
      PROVE  /\ \A x \in Queues \ {q} : tree'[x] = tree[x]
             /\ \A x \in Queues : /\ Distinct(tree'[x]) /\ ~InSeq(s, tree'[x])
                                  /\ \A y \in Streams \ {s} : InSeq(y, tree'[x]) <=> InSeq(y, tree[x])
             /\ ~Linked(s)' /\ del_lock[s] = NULL /\ Waits(s, InQueue)
  <2>1. tree'[q] = Without(tree[q], s) /\ \A x \in Queues \ {q} : tree'[x] = tree[x]
    BY Zenon, <1>c DEF LinkTypes, TakesOut
  <2>2. LinkOK(s) /\ Linked(s)
    BY Zenon, <1>c DEF StreamsOK, Linked
  <2>3. \A x \in Queues \ {q} : ~InSeq(s, tree[x])
    BY Zenon, <1>c, <2>2 DEF LinkOK
  <2>4. \A x \in Queues : /\ Distinct(tree'[x]) /\ ~InSeq(s, tree'[x])
                          /\ \A y \in Streams \ {s} : InSeq(y, tree'[x]) <=> InSeq(y, tree[x])
    <3> SUFFICES ASSUME NEW x \in Queues
                 PROVE  /\ Distinct(tree'[x]) /\ ~InSeq(s, tree'[x])
                        /\ \A y \in Streams \ {s} : InSeq(y, tree'[x]) <=> InSeq(y, tree[x])
      BY Zenon
    <3>1. tree[x] \in Seq(Streams) /\ Distinct(tree[x])
      BY Zenon DEF LinkTypes, QueuesOK
    <3>2. CASE x = q
      BY SMTT(30), <2>1, <3>1, <3>2, WithoutSeq
    <3>3. CASE x # q
      BY Zenon, <2>1, <2>3, <3>1, <3>3
    <3> QED BY Zenon, <3>2, <3>3
  <2> QED BY Zenon, <2>1, <2>2, <2>4 DEF LinkOK, Linked
<1>d. ASSUME pc[p] # "tell" PROVE \A x \in Streams : del_lock[x] # p
  BY Zenon, <1>a, <1>d DEF StreamsOK, LinkOK
<1>1. ASSUME UseServerEntry(p) PROVE Control'
  <2>0. pc[p] = "pick" /\ th[p].p \in Streams /\ th[p].srv \in Servers
    BY Zenon, <1>1, <1>a DEF UseServerEntry, ControlOK, Dequeuing, Locked, UsePp, Locals
  <2> SUFFICES ASSUME NEW e \in Streams, NEW v \in Servers, e = th[p].p, v = th[p].srv
               PROVE  Control'
    BY Zenon, <2>0
  <2>1. /\ pc[p] = "pick" /\ ~UsePp(p) /\ lock' = UnlockPx(p) /\ pend' = Assign(e, v)
        /\ strm' = [strm EXCEPT ![e].srv_conn = v] /\ tree' = [tree EXCEPT ![SrvQueue(p)] = Without(@, e)]
        /\ th' = [th EXCEPT ![p].p = NULL, ![p].pp = NULL]
        /\ pc'[p] = "count_srv" /\ UNCHANGED del_lock /\ OthersWait(p)
    BY Zenon, <1>1 DEF UseServerEntry, Goto, OthersWait, ProcTypes
  <2>2. e \in Streams /\ v \in Servers
    BY Zenon
  <2>3. InSeq(e, tree[SrvQueue(p)]) /\ lock[SrvQueue(p)] = p /\ SrvQueue(p) \in Queues \ {PxQueue(p)}
    BY Zenon, <1>a, <2>1, <2>2, QueueAssumption DEF EntryOK, LockOK, Dequeuing, Locked
  <2>4. /\ \A x \in Queues \ {SrvQueue(p)} : tree'[x] = tree[x]
        /\ \A x \in Queues : /\ Distinct(tree'[x])
                             /\ \A y \in Streams \ {e} : InSeq(y, tree'[x]) <=> InSeq(y, tree[x])
        /\ ~Linked(e)' /\ del_lock[e] = NULL /\ Waits(e, InQueue)
    <3>1. TakesOut(SrvQueue(p), e)
      BY Zenon, <2>1 DEF TakesOut
    <3> QED BY <1>c, <2>3, <3>1
  <2>5. Waits(e, InQueue \cup {"rdy_undo", "out"})
    BY Zenon, <2>4 DEF Waits
  <2>6. \A q \in Queues : lock[q] \notin {NULL, p} => lock'[q] = lock[q] /\ tree'[q] = tree[q]
    BY Zenon, <1>b, <2>1, <2>3, <2>4
  <2>7. lock'[SrvQueue(p)] = p /\ \A x \in Streams : del_lock[x] # p
    BY Zenon, <1>b, <1>d, <2>1, <2>3
  <2>8. \A q \in Queues :
          /\ lock[q] \notin {NULL, p} => lock'[q] = lock[q] /\ tree'[q] = tree[q]
          /\ Distinct(tree'[q])
          /\ \A x \in Streams \ {e} : InSeq(x, tree'[q]) <=> InSeq(x, tree[q])
    BY Zenon, <2>4, <2>6
  <2>9. /\ \A x \in Streams \ {e} : del_lock'[x] = del_lock[x] /\ del_lock[x] # p
        /\ del_lock'[e] = NULL /\ del_lock[e] \in {NULL, p}
    BY Zenon, <2>1, <2>4, <2>7
  <2>10. pc[p] \in {"pick", "tell"} /\ pc'[p] \in {"count_px", "count_srv"}
    BY Zenon, <2>1
  <2>11. Delivers(p, e, v)
    BY Zenon, <2>1 DEF Delivers
  <2>12. OthersWait(p) /\ ~Linked(e)' /\ lock'[SrvQueue(p)] = p
    BY Zenon, <2>1, <2>4, <2>7
  <2> HIDE DEF TypeOK, Control
  <2> QED BY Zenon, <2>5, <2>8, <2>9, <2>10, <2>11, <2>12, DeliverStep
<1>2. ASSUME TellProxyEntry(p) PROVE Control'
  <2>0. th[p].pp \in Streams /\ th[p].srv \in Servers
    BY Zenon, <1>2, <1>a DEF TellProxyEntry, ControlOK, Dequeuing, Locked, Locals
  <2> SUFFICES ASSUME NEW e \in Streams, NEW v \in Servers, e = th[p].pp, v = th[p].srv
               PROVE  Control'
    BY Zenon, <2>0
  <2>1. /\ pc[p] = "tell" /\ pend' = Assign(e, v) /\ strm' = [strm EXCEPT ![e].srv_conn = v]
        /\ th' = [th EXCEPT ![p].p = NULL, ![p].pp = NULL]
        /\ pc'[p] = "count_px" /\ UNCHANGED <<tree, lock>> /\ OthersWait(p)
        /\ del_lock' = [del_lock EXCEPT ![e] = NULL]
    BY Zenon, <1>2 DEF TellProxyEntry, Goto, OthersWait, ProcTypes
  <2>2. e \in Streams /\ v \in Servers
    BY Zenon
  <2>3. del_lock[e] = p /\ lock[SrvQueue(p)] = p
    BY Zenon, <1>a, <2>1 DEF LockOK, Locked
  <2>4. Waits(e, InQueue \cup {"rdy_undo", "out"}) /\ ~Linked(e)
    BY Zenon, <1>a, <2>2, <2>3 DEF StreamsOK, LinkOK
  <2>5. \A x \in Streams \ {e} : del_lock'[x] = del_lock[x] /\ del_lock[x] # p
    BY Zenon, <1>a, <2>1 DEF LinkTypes, StreamsOK, LinkOK
  <2>6. del_lock'[e] = NULL /\ del_lock[e] \in {NULL, p}
    BY Zenon, <2>1, <2>2, <2>3 DEF LinkTypes
  <2>7. ~Linked(e)'
    BY Zenon, <2>1, <2>4 DEF Linked
  <2>8. \A q \in Queues :
          /\ lock[q] \notin {NULL, p} => lock'[q] = lock[q] /\ tree'[q] = tree[q]
          /\ Distinct(tree'[q])
          /\ \A x \in Streams \ {e} : InSeq(x, tree'[q]) <=> InSeq(x, tree[q])
    BY Zenon, <2>1 DEF QueuesOK
  <2>9. /\ pc[p] \in {"pick", "tell"} /\ pc'[p] \in {"count_px", "count_srv"}
        /\ lock'[SrvQueue(p)] = p
    BY Zenon, <2>1, <2>3
  <2>10. Delivers(p, e, v)
    BY Zenon, <2>1 DEF Delivers
  <2> QED BY Zenon, <2>1, <2>4, <2>5, <2>6, <2>7, <2>8, <2>9, <2>10, DeliverStep
<1>3. ASSUME UseProxyEntry(p) PROVE Control'
  <2>9. th[p].pp \in Streams
    BY Zenon, <1>3, <1>a DEF UseProxyEntry, UsePp, Locals
  <2> SUFFICES ASSUME NEW e \in Streams, e = th[p].pp
               PROVE  Control'
    BY Zenon, <2>9
  <2>1. /\ pc[p] = "pick" /\ UsePp(p) /\ lock' = UnlockPx(p) /\ UNCHANGED <<strm, pend, th>>
        /\ tree' = [tree EXCEPT ![PxQueue(p)] = Without(@, e)]
        /\ del_lock' = [del_lock EXCEPT ![e] = p]
        /\ pc'[p] = "tell" /\ OthersWait(p)
    BY Zenon, <1>3 DEF UseProxyEntry, Goto, OthersWait, ProcTypes, strms
  <2>2. e \in Streams /\ e # NULL
    BY Zenon, <2>1, QueueAssumption
  <2>3. InSeq(e, tree[PxQueue(p)]) /\ lock[PxQueue(p)] = p /\ lock[SrvQueue(p)] = p
    BY Zenon, <1>a, <2>1, <2>2 DEF EntryOK, LockOK, Locked
  <2>0. th[p].pp = e
    BY Zenon
  <2>4. /\ \A x \in Queues \ {PxQueue(p)} : tree'[x] = tree[x]
        /\ \A x \in Queues : /\ Distinct(tree'[x]) /\ ~InSeq(e, tree'[x])
                             /\ \A y \in Streams \ {e} : InSeq(y, tree'[x]) <=> InSeq(y, tree[x])
        /\ ~Linked(e)' /\ del_lock[e] = NULL /\ Waits(e, InQueue)
    <3>1. TakesOut(PxQueue(p), e) /\ PxQueue(p) \in Queues
      BY Zenon, <1>a, <2>1 DEF TakesOut
    <3> QED BY <1>c, <2>3, <3>1
  <2>5. del_lock'[e] = p /\ \A x \in Streams \ {e} : del_lock'[x] = del_lock[x] /\ del_lock[x] # p
    BY Zenon, <1>d, <2>1, <2>2 DEF LinkTypes
  <2>6. \A q \in Queues : lock[q] \notin {NULL, p} => lock'[q] = lock[q] /\ tree'[q] = tree[q]
    BY Zenon, <1>b, <2>1, <2>3, <2>4
  <2>7. ASSUME NEW x \in Procs, x # p PROVE (ControlOK(x) /\ LockOK(x) /\ EntryOK(x))'
    <3>1. pc'[x] = pc[x] /\ th'[x] = th[x] /\ ControlOK(x) /\ LockOK(x) /\ EntryOK(x) /\ x # NULL
      BY Zenon, <2>1, <2>7, QueueAssumption DEF OthersWait, ProcsOK, Procs
    <3>2. ControlOK(x)'
      BY Zenon, <3>1 DEF ControlOK
    <3>3. pc[x] \in Locked => lock'[SrvQueue(x)] = x /\ tree'[SrvQueue(x)] = tree[SrvQueue(x)]
      BY Zenon, <2>6, <2>7, <3>1, OwnQueues DEF LockOK, Dequeuing
    <3>4. pc[x] \in {"reserve", "pick"} /\ th[x].pp # NULL =>
            lock'[PxQueue(x)] = x /\ tree'[PxQueue(x)] = tree[PxQueue(x)]
      BY Zenon, <2>6, <2>7, <3>1, OwnQueues DEF LockOK
    <3>5. pc[x] = "tell" => del_lock'[th[x].pp] = x
      <4> HAVE pc[x] = "tell"
      <4>1. th[x].pp \in Streams /\ del_lock[th[x].pp] = x
        BY Zenon, <3>1 DEF ControlOK, LockOK, ProcTypes, Locals
      <4> QED BY Zenon, <2>4, <2>5, <3>1, <4>1
    <3>6. LockOK(x)'
      BY Zenon, <3>1, <3>3, <3>4, <3>5 DEF LockOK, SrvQueue, PxQueue
    <3>7. EntryOK(x)'
      BY Zenon, <3>1, <3>3, <3>4 DEF EntryOK, ControlOK, Locked, SrvQueue, PxQueue
    <3> QED BY Zenon, <3>2, <3>6, <3>7
  <2>8. ControlOK(p)'
    BY Zenon, <1>a, <2>0, <2>1, <2>2 DEF ControlOK, AdminLabels, Dequeuing, Locked, ReadyLabels
  <2>18. SrvQueue(p) \in Queues \ {PxQueue(p)}
    BY Zenon, <1>a, <2>1 DEF Dequeuing, Locked
  <2>10. LockOK(p)' /\ EntryOK(p)'
    <3>1. SrvQueue(p)' = SrvQueue(p) /\ lock'[SrvQueue(p)] = p
      BY Zenon, <1>b, <2>1, <2>3, <2>18 DEF SrvQueue
    <3>2. th[p].p # NULL => InSeq(th[p].p, tree'[SrvQueue(p)])
      BY Zenon, <1>a, <2>4, <2>18 DEF EntryOK
    <3> QED BY Zenon, <2>0, <2>1, <2>5, <3>1, <3>2 DEF LockOK, EntryOK
  <2>11. ASSUME NEW x \in Streams PROVE (StreamOK(x) /\ FreeOK(x))'
    <3>1. /\ StreamOK(x) /\ FreeOK(x) /\ strm'[x] = strm[x] /\ pend'[x] = pend[x] /\ th'[x] = th[x]
          /\ pc'[x] = pc[x] \/ x = p
      BY Zenon, <2>1 DEF StreamsOK, OthersWait, Procs
    <3>2. StreamOK(x)'
      BY Zenon, <2>1, <3>1 DEF StreamOK, ReadyLabels
    <3>3. FreeOK(x)'
      BY Zenon, <2>1, <3>1 DEF FreeOK, Freeing, Dequeuing, Locked
    <3> QED BY Zenon, <3>2, <3>3
  <2>12. \A x \in Streams : \A labels : Waits(x, labels) => Waits(x, labels)'
    BY ZenonT(30), <2>1 DEF Waits, OthersWait, Procs, Dequeuing, Locked
  <2>13. ASSUME NEW x \in Streams, x # e PROVE LinkOK(x)'
    <3>1. LinkOK(x) /\ del_lock'[x] = del_lock[x] /\ del_lock[x] # p
      BY Zenon, <2>5, <2>13 DEF StreamsOK
    <3>2. (Linked(x)' <=> Linked(x)) /\ QueueOf(x)' = QueueOf(x)
      BY Zenon, <2>1, <2>4, <2>13 DEF Linked, QueueOf
    <3>3. del_lock[x] # NULL => pc'[del_lock[x]] = "tell" /\ th'[del_lock[x]].pp = x
      BY Zenon, <2>1, <3>1 DEF LinkOK, OthersWait, LinkTypes
    <3> QED BY Zenon, <2>4, <2>12, <2>13, <3>1, <3>2, <3>3 DEF LinkOK
  <2>14. LinkOK(e)'
    <3>1. Waits(e, InQueue \cup {"rdy_undo", "out"})
      BY Zenon, <2>4 DEF Waits
    <3> QED BY Zenon, <2>0, <2>1, <2>2, <2>4, <2>5, <2>12, <3>1 DEF LinkOK
  <2>15. ProcsOK'
    BY Zenon, <2>7, <2>8, <2>10 DEF ProcsOK
  <2>16. StreamsOK'
    BY Zenon, <2>11, <2>13, <2>14 DEF StreamsOK
  <2>17. QueuesOK'
    BY Zenon, <2>4 DEF QueuesOK
  <2> QED BY Zenon, <2>15, <2>16, <2>17
<1> QED BY Zenon, <1>1, <1>2, <1>3
(* pendconn_redistribute() empties a queue nobody holds: the entries it    *)
(* unlinks keep waiting until their streams pick them up.                  *)
LEMMA RedistributeControl ==
  ASSUME TypeOK, Control, RedistributeGroup
  PROVE  Control'
<1> USE DEF TypeOK, Control
<1>a. /\ ControlOK(Admin) /\ Admin \in Procs /\ th[Admin] \in Locals /\ NULL \notin Procs
      /\ pc[Admin] = "redist"
  BY Zenon, QueueAssumption DEF ProcsOK, Procs, ProcTypes, RedistributeGroup
<1>b. <<th[Admin].owner, th[Admin].cur>> \in Queues
  BY Zenon, <1>a DEF ControlOK, Locals, Queues
<1> SUFFICES ASSUME NEW q \in Queues, q = <<th[Admin].owner, th[Admin].cur>>
             PROVE  Control'
  BY Zenon, <1>b
<1>c. /\ UNCHANGED <<strm, lock, del_lock>> /\ lock[q] = NULL /\ OthersWait(Admin)
      /\ tree' = [tree EXCEPT ![q] = <<>>]
      /\ pc'[Admin] = "redist_len"
  BY Zenon, <1>a DEF RedistributeGroup, OthersWait, Goto, ProcTypes
<1>d. /\ th'[Admin].srv = th[Admin].srv /\ th'[Admin].ret = th[Admin].ret
      /\ th'[Admin].owner = th[Admin].owner /\ th'[Admin].p = th[Admin].p
      /\ th'[Admin].pp = th[Admin].pp
  <2>1. th' = [th EXCEPT ![Admin].xfer = @ + Len(tree[q]), ![Admin].done = Len(tree[q])]
    BY Zenon DEF RedistributeGroup
  <2>2. th'[Admin] = [th[Admin] EXCEPT !.xfer = th[Admin].xfer + Len(tree[q]),
                                      !.done = Len(tree[q])]
    BY Zenon, <1>a, <2>1 DEF ProcTypes, Locals
  <2> QED BY Zenon, <1>a, <2>2 DEF Locals
<1>e. tree'[q] = <<>> /\ \A x \in Queues \ {q} : tree'[x] = tree[x]
  BY Zenon, <1>c DEF LinkTypes
<1>f. \A x \in Queues : /\ Distinct(tree'[x])
                        /\ \A s \in Streams : InSeq(s, tree'[x]) => InSeq(s, tree[x])
  BY <1>e DEF QueuesOK, Distinct, InSeq
<1>g. ASSUME NEW s \in Streams
      PROVE  \/ pend'[s] = pend[s]
             \/ /\ InSeq(s, tree[q])
                /\ pend'[s] = [pend[s] EXCEPT !.assigned = FALSE, !.direct = FALSE]
  <2>1. tree[q] \in Seq(Streams)
    BY Zenon DEF LinkTypes
  <2>2. s \in {tree[q][i] : i \in DOMAIN tree[q]} => InSeq(s, tree[q])
    BY <2>1 DEF InSeq
  <2> QED BY Zenon, <2>2 DEF RedistributeGroup
<1>h. ASSUME NEW s \in Streams, InSeq(s, tree[q]), pend'[s] # pend[s]
      PROVE  /\ pend[s] # NULL /\ pend'[s] # NULL /\ strm[s].srv_conn = NULL
             /\ ~pend'[s].assigned /\ pend'[s].target = pend[s].target
             /\ pend'[s].owner = pend[s].owner
  <2>1. LinkOK(s) /\ Linked(s)
    BY Zenon, <1>h DEF StreamsOK, Linked
  <2>2. pend[s] \in Entry /\ strm[s].srv_conn = NULL /\ pend[s] # NULL
    BY Zenon, <2>1 DEF LinkOK, Waits, StrmTypes
  <2>3. pend'[s] = [pend[s] EXCEPT !.assigned = FALSE, !.direct = FALSE]
    BY Zenon, <1>g, <1>h
  <2>4. pend'[s] \in Entry
    BY Zenon, <2>2, <2>3 DEF Entry
  <2>5. pend'[s] # NULL
    BY Zenon, <2>4, QueueAssumption
  <2> QED BY Zenon, <2>2, <2>3, <2>5 DEF Entry
<1>1. ASSUME NEW x \in Procs, x # Admin PROVE (ControlOK(x) /\ LockOK(x) /\ EntryOK(x))'
  <2>1. pc'[x] = pc[x] /\ th'[x] = th[x] /\ ControlOK(x) /\ LockOK(x) /\ EntryOK(x) /\ x # NULL
    BY Zenon, <1>1, <1>a, <1>c DEF OthersWait, ProcsOK
  <2>2. ControlOK(x)' /\ LockOK(x)'
    BY Zenon, <1>c, <2>1 DEF ControlOK, LockOK, SrvQueue, PxQueue
  <2>3. pc[x] \in Locked => tree'[SrvQueue(x)] = tree[SrvQueue(x)]
    BY Zenon, <1>c, <1>e, <2>1, OwnQueues DEF LockOK, Dequeuing
  <2>4. pc[x] \in {"reserve", "pick"} /\ th[x].pp # NULL => tree'[PxQueue(x)] = tree[PxQueue(x)]
    BY Zenon, <1>c, <1>e, <2>1, OwnQueues DEF LockOK
  <2>5. EntryOK(x)'
    BY Zenon, <2>1, <2>3, <2>4 DEF EntryOK, ControlOK, Locked, SrvQueue, PxQueue
  <2> QED BY Zenon, <2>2, <2>5
<1>2. ControlOK(Admin)'
  BY Zenon, <1>a, <1>c, <1>d DEF ControlOK, AdminLabels, Dequeuing, Locked, ReadyLabels
<1>3. LockOK(Admin)' /\ EntryOK(Admin)'
  BY Zenon, <1>c, <1>2 DEF LockOK, EntryOK, ControlOK, Locked
<1>4. ASSUME NEW x \in Streams PROVE (StreamOK(x) /\ FreeOK(x) /\ LinkOK(x))'
  <2>1. /\ pc'[x] = pc[x] /\ th'[x] = th[x] /\ strm'[x] = strm[x] /\ del_lock'[x] = del_lock[x]
        /\ StreamOK(x) /\ FreeOK(x) /\ LinkOK(x)
    BY Zenon, <1>c, QueueAssumption DEF OthersWait, StreamsOK, Procs
  <2>2. \/ pend'[x] = pend[x]
        \/ /\ pend[x] # NULL /\ pend'[x] # NULL /\ strm[x].srv_conn = NULL
           /\ ~pend'[x].assigned /\ pend'[x].target = pend[x].target
           /\ pend'[x].owner = pend[x].owner
    BY Zenon, <1>g, <1>h
  <2>3. StreamOK(x)'
    BY Zenon, <2>1, <2>2 DEF StreamOK
  <2>4. FreeOK(x)'
    BY Zenon, <2>1, <2>2 DEF FreeOK, Freeing
  <2>5. \A labels : Waits(x, labels) => Waits(x, labels)'
    BY Zenon, <2>1, <2>2 DEF Waits
  <2>6. del_lock[x] # NULL => pc'[del_lock[x]] = "tell" /\ th'[del_lock[x]].pp = x
    BY Zenon, <1>a, <1>c, <2>1 DEF LinkOK, OthersWait, LinkTypes
  <2>7. /\ \A y \in Queues : InSeq(x, tree'[y]) => InSeq(x, tree[y])
        /\ Linked(x)' => Linked(x)
        /\ QueueOf(x)' = QueueOf(x)
    BY Zenon, <1>f, <2>2 DEF Linked, QueueOf
  <2>8. LinkOK(x)'
    BY Zenon, <2>1, <2>5, <2>6, <2>7 DEF LinkOK
  <2> QED BY Zenon, <2>3, <2>4, <2>8
<1>5. ProcsOK'
  BY Zenon, <1>1, <1>2, <1>3 DEF ProcsOK
<1>6. StreamsOK'
  BY Zenon, <1>4 DEF StreamsOK
<1>7. QueuesOK'
  BY Zenon, <1>f DEF QueuesOK
<1> QED BY Zenon, <1>5, <1>6, <1>7

(* A server that goes down or comes back, and the steps of                 *)
(* pendconn_redistribute() that touch no entry.                            *)
LEMMA AdminControl ==
  ASSUME TypeOK, Control
  PROVE  /\ \/ RedistributeLength \/ CountRedistributed \/ RedistributeProxy
            \/ ClearReady
            => Control'
         /\ \A v \in Servers : ServerDown(v) \/ ServerUp(v) => Control'
<1>a. /\ ControlOK(Admin) /\ Admin \in Procs /\ th[Admin] \in Locals /\ ProcTypes
      /\ Px # NULL
  BY Zenon, QueueAssumption DEF Control, ProcsOK, Procs, TypeOK, ProcTypes
<1> USE DEF AdminLabels, Dequeuing, Locked, ReadyLabels
<1>1. ASSUME CountRedistributed PROVE Control'
  <2>1. /\ pc[Admin] = "redist_cnt" /\ pc'[Admin] \in {"clear_ready", "redist_px"}
        /\ UNCHANGED <<tree, lock, del_lock, strm, pend>> /\ OthersWait(Admin)
        /\ th'[Admin] = [NoLocals EXCEPT !.srv = th[Admin].srv]
    BY Zenon, <1>1, <1>a DEF CountRedistributed, Goto, OthersWait, ProcTypes, links, strms
  <2>2. ControlOK(Admin)'
    BY Zenon, <1>a, <2>1 DEF ControlOK, NoLocals
  <2> QED BY Zenon, <2>1, <2>2, AdminQuiet
<1>2. ASSUME RedistributeProxy PROVE Control'
  <2>1. /\ pc[Admin] = "redist_px" /\ pc'[Admin] \in {"redist", "clear_ready"}
        /\ UNCHANGED <<tree, lock, del_lock, strm, pend>> /\ OthersWait(Admin)
    BY Zenon, <1>2, <1>a DEF RedistributeProxy, Goto, OthersWait, ProcTypes, links, strms
  <2>2. /\ th'[Admin].srv = th[Admin].srv /\ th'[Admin].ret = th[Admin].ret
        /\ th'[Admin].owner = Px /\ th'[Admin].p = th[Admin].p /\ th'[Admin].pp = th[Admin].pp
    BY Zenon, <1>2, <1>a DEF RedistributeProxy, ProcTypes, Locals
  <2>3. ControlOK(Admin)'
    BY Zenon, <1>a, <2>1, <2>2 DEF ControlOK
  <2> QED BY Zenon, <2>1, <2>3, AdminQuiet
<1>3. ASSUME ClearReady PROVE Control'
  <2>1. /\ pc[Admin] = "clear_ready" /\ pc'[Admin] = "idle" /\ th'[Admin] = NoLocals
        /\ UNCHANGED <<tree, lock, del_lock, strm, pend>> /\ OthersWait(Admin)
    BY Zenon, <1>3, <1>a DEF ClearReady, Goto, OthersWait, ProcTypes, links, strms
  <2>2. ControlOK(Admin)'
    BY <1>a, <2>1 DEF ControlOK, NoLocals
  <2> QED BY Zenon, <2>1, <2>2, AdminQuiet
<1>4. ASSUME NEW v \in Servers, ServerDown(v) PROVE Control'
  <2>1. /\ pc[Admin] = "idle" /\ pc'[Admin] \in {"redist", "redist_px"}
        /\ UNCHANGED <<tree, lock, del_lock, strm, pend>> /\ OthersWait(Admin)
        /\ th'[Admin] = [NoLocals EXCEPT !.srv = v, !.owner = v] /\ v # NULL
    BY Zenon, <1>4, <1>a, QueueAssumption DEF ServerDown, Goto, OthersWait, ProcTypes, links, strms
  <2>2. ControlOK(Admin)'
    BY Zenon, <1>a, <2>1 DEF ControlOK, NoLocals
  <2> QED BY Zenon, <2>1, <2>2, AdminQuiet
<1>5. ASSUME NEW v \in Servers, ServerUp(v) PROVE Control'
  <2>1. /\ pc[Admin] = "idle" /\ UNCHANGED <<tree, lock, del_lock, strm, pend>>
        /\ OthersWait(Admin) /\ pc'[Admin] \in {"idle", "loop"}
        /\ \/ pc'[Admin] = "idle" /\ th'[Admin] = th[Admin]
           \/ th'[Admin] = [ProcessQueue(v, "idle") EXCEPT !.px_ok = TRUE]
    BY Zenon, <1>5, <1>a DEF ServerUp, Goto, OthersWait, ProcTypes, links, strms
  <2>2. ControlOK(Admin)'
    <3>1. CASE pc'[Admin] = "idle" /\ th'[Admin] = th[Admin]
      BY Zenon, <1>a, <2>1, <3>1 DEF ControlOK
    <3>2. CASE th'[Admin] = [ProcessQueue(v, "idle") EXCEPT !.px_ok = TRUE]
      <4>1. /\ th'[Admin].srv = v /\ th'[Admin].ret = "idle"
            /\ th'[Admin].p = NULL /\ th'[Admin].pp = NULL
        BY Zenon, <3>2 DEF ProcessQueue, NoLocals
      <4> QED BY Zenon, <2>1, <4>1 DEF ControlOK
    <3> QED BY Zenon, <2>1, <3>1, <3>2
  <2> QED BY Zenon, <2>1, <2>2, AdminQuiet
<1>6. ASSUME RedistributeLength PROVE Control'
  <2>1. /\ pc[Admin] = "redist_len" /\ pc'[Admin] \in {"redist", "redist_cnt"}
        /\ UNCHANGED <<tree, lock, del_lock, strm, pend>> /\ OthersWait(Admin)
    BY Zenon, <1>6, <1>a DEF RedistributeLength, Goto, OthersWait, ProcTypes, links, strms
  <2>2. /\ th'[Admin].srv = th[Admin].srv /\ th'[Admin].ret = th[Admin].ret
        /\ th'[Admin].owner = th[Admin].owner /\ th'[Admin].p = th[Admin].p
        /\ th'[Admin].pp = th[Admin].pp
    BY <1>6, <1>a DEF RedistributeLength, ProcTypes, Locals
  <2>3. ControlOK(Admin)'
    BY Zenon, <1>a, <2>1, <2>2 DEF ControlOK
  <2> QED BY Zenon, <2>1, <2>3, AdminQuiet
<1> QED BY Zenon, <1>1, <1>2, <1>3, <1>4, <1>5, <1>6

(* Initially nobody is inside an operation and no stream owns anything. *)
LEMMA InitControl == Init => Control
<1> SUFFICES ASSUME Init PROVE Control
  BY Zenon
<1>1. ASSUME NEW p \in Procs PROVE ControlOK(p) /\ LockOK(p) /\ EntryOK(p)
  <2>1. pc[p] = "idle" /\ th[p] = NoLocals
    BY Zenon DEF Init
  <2>2. th[p].ret = "idle" /\ th[p].p = NULL /\ th[p].pp = NULL
    BY <2>1 DEF NoLocals
  <2> QED BY Zenon, <2>1, <2>2
        DEF ControlOK, LockOK, EntryOK, AdminLabels, Dequeuing, Locked, ReadyLabels
<1>2. \A q \in Queues : tree[q] = <<>>
  BY Zenon DEF Init
<1>3. ASSUME NEW s \in Streams PROVE StreamOK(s) /\ FreeOK(s) /\ LinkOK(s)
  <2>1. /\ pc[s] = "idle" /\ strm[s] = NewStream /\ pend[s] = NULL /\ del_lock[s] = NULL
    BY Zenon DEF Init, Procs
  <2>2. strm[s].st = "INI" /\ strm[s].srv_conn = NULL /\ ~strm[s].assigned
    BY <2>1 DEF NewStream
  <2>3. ~Linked(s)
    BY <1>2 DEF Linked, InSeq
  <2> QED BY Zenon, <2>1, <2>2, <2>3
        DEF StreamOK, FreeOK, LinkOK, Freeing, Linked, Dequeuing, Locked, ReadyLabels
<1>4. QueuesOK
  BY <1>2 DEF QueuesOK, Distinct
<1> QED BY Zenon, <1>1, <1>3, <1>4 DEF Control, ProcsOK, StreamsOK
=============================================================================
