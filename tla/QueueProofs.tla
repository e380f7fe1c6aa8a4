---------------------------- MODULE QueueProofs -----------------------------
(***************************************************************************)
(* The inductive invariant IInv of Queue and the theorems that follow from *)
(* it. Every step keeps the control part, by the lemmas of QueueControl,   *)
(* and served equal to the number of slots in use.                         *)
(***************************************************************************)
EXTENDS QueueControl

(* A stream links its entry, or unlinks it. *)
LEMMA TreeControl ==
  ASSUME TypeOK, Control, NEW s \in Streams
  PROVE  InsertEntry(s) \/ UnqueueSelf(s) \/ pendconn_unlink(s) => Control'
<1> USE DEF TypeOK, Control
<1>a. /\ s \in Procs /\ s # Admin /\ StreamOK(s) /\ FreeOK(s) /\ LinkOK(s) /\ ControlOK(s)
      /\ th[s] \in Locals /\ strm[s] \in Stream /\ Group[s] \in Groups
  BY Zenon, QueueAssumption DEF ProcsOK, StreamsOK, Procs, ProcTypes, StrmTypes
<1>b. pend[s] # NULL => QueueOf(s) \in Queues
  BY Zenon, <1>a DEF StrmTypes, Entry, QueueOf, Queues
<1>c. ASSUME pend[s] # NULL, tree' = [tree EXCEPT ![QueueOf(s)] = Without(@, s)],
             lock[QueueOf(s)] = NULL
      PROVE  /\ \A q \in Queues :
                  /\ lock[q] # NULL => tree'[q] = tree[q]
                  /\ Distinct(tree'[q])
                  /\ \A x \in Streams \ {s} : InSeq(x, tree'[q]) <=> InSeq(x, tree[q])
             /\ ~Linked(s)'
  <2>1. ASSUME NEW q \in Queues
        PROVE  /\ lock[q] # NULL => tree'[q] = tree[q]
               /\ Distinct(tree'[q]) /\ ~InSeq(s, tree'[q])
               /\ \A x \in Streams \ {s} : InSeq(x, tree'[q]) <=> InSeq(x, tree[q])
    <3>1. CASE q = QueueOf(s)
      <4>1. tree'[q] = Without(tree[q], s) /\ tree[q] \in Seq(Streams) /\ Distinct(tree[q])
        BY Zenon, <1>c, <3>1 DEF LinkTypes, QueuesOK
      <4> QED BY SMTT(30), <1>c, <3>1, <4>1, WithoutSeq
    <3>2. CASE q # QueueOf(s)
      BY Zenon, <1>a, <1>c, <3>2 DEF LinkTypes, QueuesOK, LinkOK
    <3> QED BY Zenon, <3>1, <3>2
  <2> QED BY Zenon, <2>1 DEF Linked
<1>1. ASSUME InsertEntry(s) PROVE Control'
  <2>1. /\ pc[s] = "insert" /\ pc'[s] = "added" /\ OthersWait(s) /\ UNCHANGED <<lock, del_lock, th, strm, pend>>
        /\ lock[QueueOf(s)] = NULL /\ tree' = [tree EXCEPT ![QueueOf(s)] = Insert(@, s)]
    BY Zenon, <1>1, <1>a DEF InsertEntry, Goto, OthersWait, ProcTypes, strms
  <2>2. ~Linked(s) /\ del_lock[s] = NULL /\ pend[s] # NULL
    BY Zenon, <1>a, <2>1 DEF StreamOK, LinkOK, Waits, InQueue, Dequeuing, Locked
  <2>3. ASSUME NEW q \in Queues
        PROVE  /\ lock[q] # NULL => tree'[q] = tree[q]
               /\ Distinct(tree'[q]) /\ (InSeq(s, tree'[q]) => q = QueueOf(s))
               /\ \A x \in Streams \ {s} : InSeq(x, tree'[q]) <=> InSeq(x, tree[q])
    <3>0. tree[q] \in Seq(Streams) /\ Distinct(tree[q]) /\ ~InSeq(s, tree[q])
      BY Zenon, <2>2 DEF LinkTypes, QueuesOK, Linked
    <3>1. CASE q = QueueOf(s)
      <4>1. tree'[q] = Insert(tree[q], s)
        BY Zenon, <2>1, <3>1 DEF LinkTypes
      <4> QED BY SMTT(30), <2>1, <3>0, <3>1, <4>1, InsertSeq
    <3>2. CASE q # QueueOf(s)
      BY Zenon, <2>1, <3>0, <3>2 DEF LinkTypes
    <3> QED BY Zenon, <3>1, <3>2
  <2>4. ControlOK(s)'
    BY Zenon, <1>a, <2>1 DEF ControlOK, Dequeuing, Locked, ReadyLabels
  <2>5. StreamOK(s)'
    BY Zenon, <1>a, <2>1 DEF StreamOK, ReadyLabels
  <2>6. FreeOK(s)'
    BY Zenon, <1>a, <2>1 DEF FreeOK, Freeing, Dequeuing, Locked
  <2>7. LinkOK(s)'
    <3>1. Waits(s, InQueue)'
      BY Zenon, <1>a, <2>1, <2>2 DEF Waits, InQueue, StreamOK, Dequeuing, Locked
    <3>2. QueueOf(s)' = QueueOf(s)
      BY Zenon, <2>1 DEF QueueOf
    <3> QED BY Zenon, <2>1, <2>2, <2>3, <3>1, <3>2 DEF LinkOK
  <2> QED BY ZenonT(30), <2>1, <2>3, <2>4, <2>5, <2>6, <2>7, OwnStep DEF Locked
<1>2. ASSUME UnqueueSelf(s) PROVE Control'
  <2>1. /\ pc[s] = "rdy_lock" /\ pc'[s] = (IF Linked(s) THEN "rdy_take" ELSE "rdy_undo") /\ OthersWait(s)
        /\ UNCHANGED <<lock, del_lock, th, strm, pend>>
        /\ lock[QueueOf(s)] = NULL /\ tree' = [tree EXCEPT ![QueueOf(s)] = Without(@, s)]
    BY Zenon, <1>2, <1>a DEF UnqueueSelf, Goto, OthersWait, ProcTypes, strms
  <2>2. pend[s] # NULL
    BY Zenon, <1>a, <2>1 DEF StreamOK, ReadyLabels
  <2>3. ControlOK(s)'
    BY Zenon, <1>a, <2>1 DEF ControlOK, Dequeuing, Locked, ReadyLabels
  <2>4. StreamOK(s)'
    BY Zenon, <1>a, <2>1 DEF StreamOK, LinkOK, Waits, ReadyLabels
  <2>5. FreeOK(s)'
    BY Zenon, <1>a, <2>1 DEF FreeOK, Freeing, Dequeuing, Locked
  <2>6. LinkOK(s)'
    <3>1. del_lock[s] # NULL => Waits(s, InQueue \cup {"rdy_undo", "out"})'
      BY Zenon, <1>a, <2>1 DEF LinkOK, Waits, Dequeuing, Locked
    <3>2. del_lock[s] # NULL => pc'[del_lock[s]] = "tell" /\ th'[del_lock[s]].pp = s
      BY Zenon, <1>a, <2>1 DEF LinkOK, OthersWait, LinkTypes
    <3> QED BY Zenon, <1>c, <2>1, <2>2, <3>1, <3>2 DEF LinkOK, Linked
  <2> QED BY ZenonT(30), <1>c, <2>1, <2>2, <2>3, <2>4, <2>5, <2>6, OwnStep DEF Locked
<1>3. ASSUME pendconn_unlink(s) PROVE Control'
  <2>1. /\ pc[s] = "unlink" /\ pc'[s] = "unlinked" /\ OthersWait(s) /\ del_lock[s] = NULL
        /\ UNCHANGED <<lock, del_lock, strm, pend>>
        /\ th'[s] = [th[s] EXCEPT !.xfer = IF Linked(s) THEN 1 ELSE 0]
        /\ lock[QueueOf(s)] = NULL /\ tree' = [tree EXCEPT ![QueueOf(s)] = Without(@, s)]
    BY Zenon, <1>3, <1>a DEF pendconn_unlink, Goto, OthersWait, ProcTypes, strms
  <2>2. pend[s] # NULL /\ th'[s].ret = th[s].ret /\ th'[s].p = th[s].p /\ th'[s].pp = th[s].pp
    BY Zenon, <1>a, <2>1 DEF StreamOK, Locals
  <2>3. ControlOK(s)'
    BY Zenon, <1>a, <2>1, <2>2 DEF ControlOK, Dequeuing, Locked, ReadyLabels
  <2>4. StreamOK(s)'
    BY Zenon, <1>a, <2>1, <2>2 DEF StreamOK, ReadyLabels
  <2>5. FreeOK(s)'
    BY Zenon, <1>a, <2>1, <2>2 DEF FreeOK, Freeing, Dequeuing, Locked
  <2>6. LinkOK(s)'
    BY Zenon, <1>c, <2>1, <2>2 DEF LinkOK, Linked
  <2> QED BY ZenonT(30), <1>c, <2>1, <2>2, <2>3, <2>4, <2>5, <2>6, OwnStep DEF Locked
<1> QED BY Zenon, <1>1, <1>2, <1>3

(* No step of the program breaks it. *)
LEMMA NextControl ==
  ASSUME TypeOK, Control, [Next]_vars
  PROVE  Control'
<1>1. CASE UNCHANGED vars
  <2>1. UNCHANGED <<tree, lock, del_lock, strm, pend, pc, th>>
    BY Zenon, <1>1 DEF vars, links, strms
  <2>2. ASSUME NEW p \in Procs PROVE (ControlOK(p) /\ LockOK(p) /\ EntryOK(p))'
    <3>1. ControlOK(p) /\ LockOK(p) /\ EntryOK(p)
      BY Zenon DEF Control, ProcsOK
    <3> QED BY ZenonT(30), <2>1, <3>1 DEF ControlOK, LockOK, EntryOK, SrvQueue, PxQueue
  <2>3. ASSUME NEW s \in Streams PROVE (StreamOK(s) /\ FreeOK(s) /\ LinkOK(s))'
    <3>1. StreamOK(s) /\ FreeOK(s) /\ LinkOK(s)
      BY Zenon DEF Control, StreamsOK
    <3> QED BY <2>1, <3>1 DEF StreamOK, FreeOK, Freeing, LinkOK, Linked, Waits, QueueOf
  <2>4. QueuesOK'
    BY Zenon, <2>1 DEF Control, QueuesOK
  <2> QED BY Zenon, <2>2, <2>3, <2>4 DEF Control, ProcsOK, StreamsOK
<1>2. ASSUME NEW p \in Procs, process_srv_queue(p) PROVE Control'
  BY Zenon, <1>2, QuietControl, TakeControl DEF process_srv_queue
<1>3. ASSUME NEW s \in Streams, Arrive(s) \/ StreamStep(s) PROVE Control'
  <2>1. s \in Procs
    BY Zenon DEF Procs
  <2> QED BY Zenon, <1>2, <1>3, <2>1, FreeControl, WaitControl, TreeControl
        DEF StreamStep, assign_server_and_queue, LeaveQueue, Serve, stream_free
<1>4. CASE AdminStep
  BY Zenon, <1>2, <1>4, RedistributeControl, AdminControl DEF AdminStep, Procs
<1>5. CASE \E v \in Servers : ServerDown(v) \/ ServerUp(v)
  BY Zenon, <1>5, AdminControl
<1>6. CASE Over
  BY Zenon, <1>1, <1>6 DEF Over
<1> QED BY Zenon, <1>1, <1>3, <1>4, <1>5, <1>6 DEF Next

-----------------------------------------------------------------------------
(* labels at which a process holds a slot no stream is attached to *)
Transit == {"got", "rdy_lock", "rdy_take", "rdy_undo", "pick", "tell", "drop"}
One(x, v) == IF x = v THEN 1 ELSE 0

(* The slots of the other processes stay where they are. *)
LEMMA OthersTransit ==
  ASSUME ProcsOK, NEW p \in Procs, OthersWait(p),
         \A x \in Streams \ {p} : strm'[x].target = strm[x].target
  PROVE  \A x \in Procs \ {p} : SlotInTransit(x)' = SlotInTransit(x)
<1> SUFFICES ASSUME NEW x \in Procs \ {p} PROVE SlotInTransit(x)' = SlotInTransit(x)
  BY Zenon
<1>1. pc'[x] = pc[x] /\ th'[x] = th[x] /\ ControlOK(x)
  BY Zenon DEF OthersWait, ProcsOK
<1>2. CASE x \in Streams
  BY Zenon, <1>1, <1>2 DEF SlotInTransit
<1>3. CASE x = Admin
  <2>1. pc[x] # "got"
    BY Zenon, <1>1, <1>3 DEF ControlOK, AdminLabels, Dequeuing, Locked
  <2> QED BY Zenon, <1>1, <2>1 DEF SlotInTransit
<1> QED BY Zenon, <1>2, <1>3 DEF Procs

(* The slots stay accounted for when served changes by what process p and  *)
(* stream e gain or lose.                                                  *)
LEMMA SlotMove ==
  ASSUME TypeOK, SlotsAccounted, NEW p \in Procs, NEW e \in Streams,
         \A x \in Procs \ {p} : SlotInTransit(x)' = SlotInTransit(x),
         \A x \in Streams \ {e} : strm'[x].srv_conn = strm[x].srv_conn,
         \A v \in Servers :
           served'[v] = served[v] + One(strm'[e].srv_conn, v) - One(strm[e].srv_conn, v)
                                  + One(SlotInTransit(p)', v) - One(SlotInTransit(p), v)
  PROVE  SlotsAccounted'
<1> SUFFICES ASSUME NEW v \in Servers
             PROVE  served'[v] = Cardinality({s \in Streams : strm'[s].srv_conn = v})
                               + Cardinality({x \in Procs : SlotInTransit(x)' = v})
  BY Zenon DEF SlotsAccounted
<1>f. IsFiniteSet(Streams) /\ IsFiniteSet(Procs)
  BY Zenon, QueueAssumption, FS_AddElement DEF Procs
<1> DEFINE f == [s \in Streams |-> strm[s].srv_conn]
           g == [s \in Streams |-> strm'[s].srv_conn]
           h == [x \in Procs |-> SlotInTransit(x)]
           k == [x \in Procs |-> SlotInTransit(x)']
<1>1. /\ Count(Streams, f, v) = Cardinality({s \in Streams : strm[s].srv_conn = v})
      /\ Count(Streams, g, v) = Cardinality({s \in Streams : strm'[s].srv_conn = v})
      /\ Count(Procs, h, v) = Cardinality({x \in Procs : SlotInTransit(x) = v})
      /\ Count(Procs, k, v) = Cardinality({x \in Procs : SlotInTransit(x)' = v})
  <2>1. /\ {s \in Streams : f[s] = v} = {s \in Streams : strm[s].srv_conn = v}
        /\ {s \in Streams : g[s] = v} = {s \in Streams : strm'[s].srv_conn = v}
        /\ {x \in Procs : h[x] = v} = {x \in Procs : SlotInTransit(x) = v}
        /\ {x \in Procs : k[x] = v} = {x \in Procs : SlotInTransit(x)' = v}
    BY Zenon
  <2> QED BY Zenon, <2>1 DEF Count
<1>2. /\ f[e] = strm[e].srv_conn /\ g[e] = strm'[e].srv_conn
      /\ h[p] = SlotInTransit(p) /\ k[p] = SlotInTransit(p)'
      /\ SameBut(Streams, f, g, e) /\ SameBut(Procs, h, k, p)
  BY Zenon DEF SameBut
<1>3. served[v] = Count(Streams, f, v) + Count(Procs, h, v)
  BY Zenon, <1>1 DEF SlotsAccounted
<1>4. /\ Count(Streams, f, v) \in Nat /\ Count(Streams, g, v) \in Nat
      /\ Count(Streams, g, v) = Count(Streams, f, v) + One(g[e], v) - One(f[e], v)
  <2> HIDE DEF f, g
  <2> QED BY <1>f, <1>2, CountUpdate DEF One
<1>5. /\ Count(Procs, h, v) \in Nat /\ Count(Procs, k, v) \in Nat
      /\ Count(Procs, k, v) = Count(Procs, h, v) + One(k[p], v) - One(h[p], v)
  <2> HIDE DEF h, k
  <2> QED BY <1>f, <1>2, CountUpdate DEF One
<1>6. served'[v] = served[v] + One(g[e], v) - One(f[e], v) + One(k[p], v) - One(h[p], v)
  BY Zenon, <1>2
<1>7. /\ One(g[e], v) \in Int /\ One(f[e], v) \in Int
      /\ One(k[p], v) \in Int /\ One(h[p], v) \in Int
  BY DEF One
<1>8. served'[v] = Count(Streams, g, v) + Count(Procs, k, v)
  <2> HIDE DEF f, g, h, k
  <2> QED BY <1>3, <1>4, <1>5, <1>6, <1>7
<1> QED BY Zenon, <1>1, <1>8

(* A step that moves no slot. *)
LEMMA SlotsKept ==
  ASSUME TypeOK, ProcsOK, SlotsAccounted, NEW p \in Procs, OthersWait(p), UNCHANGED served,
         \A x \in Streams : strm'[x].srv_conn = strm[x].srv_conn,
         \A x \in Streams \ {p} : strm'[x].target = strm[x].target,
         SlotInTransit(p)' = SlotInTransit(p)
  PROVE  SlotsAccounted'
<1>1. \A x \in Procs : SlotInTransit(x)' = SlotInTransit(x)
  BY Zenon, OthersTransit
<1> SUFFICES ASSUME NEW v \in Servers
             PROVE  served'[v] = Cardinality({s \in Streams : strm'[s].srv_conn = v})
                               + Cardinality({x \in Procs : SlotInTransit(x)' = v})
  BY Zenon DEF SlotsAccounted
<1>2. /\ {s \in Streams : strm'[s].srv_conn = v} = {s \in Streams : strm[s].srv_conn = v}
      /\ {x \in Procs : SlotInTransit(x)' = v} = {x \in Procs : SlotInTransit(x) = v}
  BY Zenon, <1>1
<1> QED BY Zenon, <1>2 DEF SlotsAccounted

(* A step of a process that holds no slot before or after. *)
LEMMA OffTransit ==
  ASSUME TypeOK, ProcsOK, SlotsAccounted, NEW p \in Procs, OthersWait(p), UNCHANGED served,
         \A x \in Streams : /\ strm'[x].srv_conn = strm[x].srv_conn
                            /\ x # p => strm'[x].target = strm[x].target,
         pc[p] \notin Transit, pc'[p] \notin Transit
  PROVE  SlotsAccounted'
<1>1. SlotInTransit(p)' = NULL /\ SlotInTransit(p) = NULL
  BY Zenon DEF SlotInTransit, Transit
<1> QED BY Zenon, <1>1, SlotsKept


(* What a stream does while it holds no slot in transit moves none. *)
LEMMA StreamSlots ==
  ASSUME TypeOK, Control, SlotsAccounted, NEW s \in Streams
  PROVE  (\/ Arrive(s) \/ assign_server(s) \/ CheckRoom(s) \/ pendconn_add(s)
          \/ NoEntry(s) \/ InsertEntry(s) \/ CountPending(s) \/ GrabReady(s)
          \/ pendconn_dequeue(s) \/ StillQueued(s) \/ TakeResult(s)
          \/ pendconn_unlink(s) \/ CountUnlinked(s) \/ connect_server(s) \/ AbortConnection(s)
          \/ EndOfStream(s) \/ RetrySameServer(s) \/ Redispatch(s) \/ MayDequeue(s)
          \/ StreamFree(s) \/ FreeUnlinked(s) \/ FreeSlot(s) \/ Gone(s))
         => SlotsAccounted'
<1> USE DEF TypeOK, Control
<1>a. /\ s \in Procs /\ ControlOK(s) /\ StreamOK(s) /\ ProcTypes /\ ProcsOK
      /\ th[s] \in Locals /\ strm[s] \in Stream /\ strm[s].target \in NServer
      /\ strm[s].srv_conn \in NServer /\ th[s].srv \in NServer
      /\ "idle" \in {"idle", "free_slot", "gone"} /\ "free_slot" \in {"idle", "free_slot", "gone"}
      /\ "gone" \in {"idle", "free_slot", "gone"}
  BY Zenon DEF ProcsOK, StreamsOK, Procs, ProcTypes, StrmTypes, Stream, Locals
<1>b. \A x \in Streams : strm[x] \in Stream
  BY Zenon DEF StrmTypes
<1>1. ASSUME Arrive(s) PROVE SlotsAccounted'
  <2>1. UNCHANGED served /\ pc[s] \notin Transit
    BY Zenon, <1>1 DEF Arrive, slots, Transit
  <2>2. OthersWait(s) /\ pc'[s] \notin Transit
    BY Zenon, <1>1, <1>a DEF Arrive, Goto, OthersWait, ProcTypes, Transit
  <2>3. \A x \in Streams : /\ strm'[x].srv_conn = strm[x].srv_conn
                           /\ x # s => strm'[x].target = strm[x].target
    BY <1>1, <1>b DEF Arrive, StrmTypes, Stream
  <2> HIDE DEF TypeOK, Control
  <2> QED BY Zenon, <1>a, <2>1, <2>2, <2>3, OffTransit
<1>2. ASSUME assign_server(s) PROVE SlotsAccounted'
  <2>1. UNCHANGED served /\ pc[s] \notin Transit
    BY Zenon, <1>2 DEF assign_server, slots, Transit
  <2>2. OthersWait(s) /\ pc'[s] \notin Transit
    BY Zenon, <1>2, <1>a DEF assign_server, Goto, OthersWait, ProcTypes, Transit
  <2>3. \A x \in Streams : /\ strm'[x].srv_conn = strm[x].srv_conn
                           /\ x # s => strm'[x].target = strm[x].target
    <3>1. \/ strm' = [strm EXCEPT ![s].st = "CLO", ![s].target = NULL]
          \/ strm' = [strm EXCEPT ![s].target = NULL]
          \/ \E v \in Servers : strm' = [strm EXCEPT ![s].target = v, ![s].assigned = TRUE]
      BY Zenon, <1>2 DEF assign_server
    <3>2. ASSUME NEW v, strm' = [strm EXCEPT ![s].target = v, ![s].assigned = TRUE]
          PROVE  \A x \in Streams : /\ strm'[x].srv_conn = strm[x].srv_conn
                                    /\ x # s => strm'[x].target = strm[x].target
      BY Zenon, <1>b, <3>2 DEF StrmTypes, Stream
    <3>3. CASE strm' = [strm EXCEPT ![s].target = NULL]
      BY Zenon, <1>b, <3>3 DEF StrmTypes, Stream
    <3>4. CASE strm' = [strm EXCEPT ![s].st = "CLO", ![s].target = NULL]
      BY Zenon, <1>b, <3>4 DEF StrmTypes, Stream
    <3> QED BY Zenon, <3>1, <3>2, <3>3, <3>4
  <2> HIDE DEF TypeOK, Control
  <2> QED BY Zenon, <1>a, <2>1, <2>2, <2>3, OffTransit
<1>3. ASSUME CheckRoom(s) PROVE SlotsAccounted'
  <2>1. UNCHANGED served /\ pc[s] \notin Transit
    BY Zenon, <1>3 DEF CheckRoom, QueueOnServer, slots, Transit
  <2>2. OthersWait(s) /\ pc'[s] \notin Transit
    BY Zenon, <1>3, <1>a DEF CheckRoom, QueueOnServer, Goto, OthersWait, ProcTypes, Transit
  <2>3. \A x \in Streams : /\ strm'[x].srv_conn = strm[x].srv_conn
                           /\ x # s => strm'[x].target = strm[x].target
    BY <1>3, <1>b DEF CheckRoom, QueueOnServer, StrmTypes, Stream
  <2> HIDE DEF TypeOK, Control
  <2> QED BY Zenon, <1>a, <2>1, <2>2, <2>3, OffTransit
<1>4. ASSUME pendconn_add(s) PROVE SlotsAccounted'
  <2>1. UNCHANGED served /\ pc[s] \notin Transit
    BY Zenon, <1>4 DEF pendconn_add, slots, Transit
  <2>2. OthersWait(s) /\ pc'[s] \notin Transit
    BY Zenon, <1>4, <1>a DEF pendconn_add, Goto, OthersWait, ProcTypes, Transit
  <2>3. \A x \in Streams : /\ strm'[x].srv_conn = strm[x].srv_conn
                           /\ x # s => strm'[x].target = strm[x].target
    BY Zenon, <1>4 DEF pendconn_add, strms
  <2> HIDE DEF TypeOK, Control
  <2> QED BY Zenon, <1>a, <2>1, <2>2, <2>3, OffTransit
<1>5. ASSUME NoEntry(s) PROVE SlotsAccounted'
  <2>1. UNCHANGED served /\ pc[s] \notin Transit
    BY Zenon, <1>5 DEF NoEntry, slots, Transit
  <2>2. OthersWait(s) /\ pc'[s] \notin Transit
    BY Zenon, <1>5, <1>a, CallControl DEF NoEntry, Transit
  <2>3. \A x \in Streams : /\ strm'[x].srv_conn = strm[x].srv_conn
                           /\ x # s => strm'[x].target = strm[x].target
    BY Zenon, <1>5, <1>b DEF NoEntry, StrmTypes, Stream
  <2> HIDE DEF TypeOK, Control
  <2> QED BY ZenonT(30), <1>a, <2>1, <2>2, <2>3, OffTransit
<1>6. ASSUME InsertEntry(s) PROVE SlotsAccounted'
  <2>1. UNCHANGED served /\ pc[s] \notin Transit
    BY Zenon, <1>6 DEF InsertEntry, slots, Transit
  <2>2. OthersWait(s) /\ pc'[s] \notin Transit
    BY Zenon, <1>6, <1>a DEF InsertEntry, Goto, OthersWait, ProcTypes, Transit
  <2>3. \A x \in Streams : /\ strm'[x].srv_conn = strm[x].srv_conn
                           /\ x # s => strm'[x].target = strm[x].target
    BY Zenon, <1>6 DEF InsertEntry, strms
  <2> HIDE DEF TypeOK, Control
  <2> QED BY ZenonT(30), <1>a, <2>1, <2>2, <2>3, OffTransit
<1>7. ASSUME CountPending(s) PROVE SlotsAccounted'
  <2>1. UNCHANGED served /\ pc[s] \notin Transit
    BY Zenon, <1>7 DEF CountPending, slots, Transit
  <2>2. OthersWait(s) /\ pc'[s] \notin Transit
    <3>1. CASE pend[s].owner = Px
      BY ZenonT(30), <1>7, <1>a, <3>1 DEF CountPending, Goto, OthersWait, ProcTypes, Transit
    <3>2. CASE pend[s].owner # Px
      <4>1. pend[s].owner \in NServer
        BY ZenonT(30), <1>7, <1>a, <3>2 DEF CountPending, StreamOK, StrmTypes, Entry, Owners, NServer
      <4>2. CallProcessQueue(s, pend[s].owner, "idle")
        BY Zenon, <1>7, <3>2 DEF CountPending
      <4> QED BY ZenonT(30), <1>a, <4>1, <4>2, CallControl DEF Transit
    <3> QED BY Zenon, <3>1, <3>2
  <2>3. \A x \in Streams : /\ strm'[x].srv_conn = strm[x].srv_conn
                           /\ x # s => strm'[x].target = strm[x].target
    BY Zenon, <1>7, <1>b DEF CountPending, StrmTypes, Stream
  <2> HIDE DEF TypeOK, Control
  <2> QED BY ZenonT(30), <1>a, <2>1, <2>2, <2>3, OffTransit
<1>8. ASSUME GrabReady(s) PROVE SlotsAccounted'
  <2>1. UNCHANGED served /\ pc[s] \notin Transit
    BY Zenon, <1>8 DEF GrabReady, slots, Transit
  <2>2. OthersWait(s) /\ pc'[s] \notin Transit
    BY Zenon, <1>8, <1>a DEF GrabReady, Goto, OthersWait, ProcTypes, Transit
  <2>3. \A x \in Streams : /\ strm'[x].srv_conn = strm[x].srv_conn
                           /\ x # s => strm'[x].target = strm[x].target
    BY Zenon, <1>8 DEF GrabReady, strms
  <2> HIDE DEF TypeOK, Control
  <2> QED BY ZenonT(30), <1>a, <2>1, <2>2, <2>3, OffTransit
<1>9. ASSUME pendconn_dequeue(s) PROVE SlotsAccounted'
  <2>1. UNCHANGED served /\ pc[s] \notin Transit
    BY Zenon, <1>9 DEF pendconn_dequeue, slots, Transit
  <2>2. OthersWait(s) /\ pc'[s] \notin Transit
    BY Zenon, <1>9, <1>a DEF pendconn_dequeue, Goto, OthersWait, ProcTypes, Transit
  <2>3. \A x \in Streams : /\ strm'[x].srv_conn = strm[x].srv_conn
                           /\ x # s => strm'[x].target = strm[x].target
    BY Zenon, <1>9 DEF pendconn_dequeue, strms
  <2> HIDE DEF TypeOK, Control
  <2> QED BY Zenon, <1>a, <2>1, <2>2, <2>3, OffTransit
<1>10. ASSUME StillQueued(s) PROVE SlotsAccounted'
  <2>1. UNCHANGED served /\ pc[s] \notin Transit
    BY Zenon, <1>10 DEF StillQueued, slots, Transit
  <2>2. OthersWait(s) /\ pc'[s] \notin Transit
    BY Zenon, <1>10, <1>a DEF StillQueued, Goto, OthersWait, ProcTypes, Transit
  <2>3. \A x \in Streams : /\ strm'[x].srv_conn = strm[x].srv_conn
                           /\ x # s => strm'[x].target = strm[x].target
    BY <1>10, <1>b DEF StillQueued, StrmTypes, Stream
  <2> HIDE DEF TypeOK, Control
  <2> QED BY Zenon, <1>a, <2>1, <2>2, <2>3, OffTransit
<1>11. ASSUME TakeResult(s) PROVE SlotsAccounted'
  <2>1. UNCHANGED served /\ pc[s] \notin Transit
    BY Zenon, <1>11 DEF TakeResult, slots, Transit
  <2>2. OthersWait(s) /\ pc'[s] \notin Transit
    BY Zenon, <1>11, <1>a DEF TakeResult, Goto, OthersWait, ProcTypes, Transit
  <2>3. \A x \in Streams : /\ strm'[x].srv_conn = strm[x].srv_conn
                           /\ x # s => strm'[x].target = strm[x].target
    BY Zenon, <1>11, <1>b DEF TakeResult, StrmTypes, Stream
  <2> HIDE DEF TypeOK, Control
  <2> QED BY Zenon, <1>a, <2>1, <2>2, <2>3, OffTransit
<1>12. ASSUME pendconn_unlink(s) PROVE SlotsAccounted'
  <2>1. UNCHANGED served /\ pc[s] \notin Transit
    BY Zenon, <1>12 DEF pendconn_unlink, slots, Transit
  <2>2. OthersWait(s) /\ pc'[s] \notin Transit
    BY Zenon, <1>12, <1>a DEF pendconn_unlink, Goto, OthersWait, ProcTypes, Transit
  <2>3. \A x \in Streams : /\ strm'[x].srv_conn = strm[x].srv_conn
                           /\ x # s => strm'[x].target = strm[x].target
    BY Zenon, <1>12 DEF pendconn_unlink, strms
  <2> HIDE DEF TypeOK, Control
  <2> QED BY ZenonT(30), <1>a, <2>1, <2>2, <2>3, OffTransit
<1>13. ASSUME CountUnlinked(s) PROVE SlotsAccounted'
  <2>1. UNCHANGED served /\ pc[s] \notin Transit
    BY Zenon, <1>13 DEF CountUnlinked, slots, Transit
  <2>2. OthersWait(s) /\ pc'[s] \notin Transit
    BY Zenon, <1>13, <1>a DEF CountUnlinked, Goto, OthersWait, ProcTypes, Transit, ControlOK
  <2>3. \A x \in Streams : /\ strm'[x].srv_conn = strm[x].srv_conn
                           /\ x # s => strm'[x].target = strm[x].target
    BY Zenon, <1>13 DEF CountUnlinked, strms
  <2> HIDE DEF TypeOK, Control
  <2> QED BY ZenonT(30), <1>a, <2>1, <2>2, <2>3, OffTransit
<1>14. ASSUME connect_server(s) PROVE SlotsAccounted'
  <2>1. UNCHANGED served /\ pc[s] \notin Transit
    BY Zenon, <1>14 DEF connect_server, slots, Transit
  <2>2. OthersWait(s) /\ pc'[s] \notin Transit
    BY Zenon, <1>14, <1>a DEF connect_server, Goto, OthersWait, ProcTypes, Transit
  <2>3. \A x \in Streams : /\ strm'[x].srv_conn = strm[x].srv_conn
                           /\ x # s => strm'[x].target = strm[x].target
    BY Zenon, <1>14, <1>b DEF connect_server, StrmTypes, Stream
  <2> HIDE DEF TypeOK, Control
  <2> QED BY Zenon, <1>a, <2>1, <2>2, <2>3, OffTransit
<1>15. ASSUME EndOfStream(s) PROVE SlotsAccounted'
  <2>1. UNCHANGED served /\ pc[s] \notin Transit
    BY Zenon, <1>15 DEF EndOfStream, LeaveServer, slots, Transit
  <2>2. OthersWait(s) /\ pc'[s] \notin Transit
    <3>1. Release(s, strm[s].target, "idle")
      BY Zenon, <1>15 DEF EndOfStream
    <3> QED BY Zenon, <1>a, <3>1, ReleaseControl DEF Transit
  <2>3. \A x \in Streams : /\ strm'[x].srv_conn = strm[x].srv_conn
                           /\ x # s => strm'[x].target = strm[x].target
    BY Zenon, <1>15, <1>b DEF EndOfStream, LeaveServer, StrmTypes, Stream
  <2> HIDE DEF TypeOK, Control
  <2> QED BY Zenon, <1>a, <2>1, <2>2, <2>3, OffTransit
<1>16. ASSUME RetrySameServer(s) PROVE SlotsAccounted'
  <2>1. UNCHANGED served /\ pc[s] \notin Transit
    BY Zenon, <1>16 DEF RetrySameServer, LeaveServer, slots, Transit
  <2>2. OthersWait(s) /\ pc'[s] \notin Transit
    BY Zenon, <1>16, <1>a DEF RetrySameServer, LeaveServer, Goto, OthersWait, ProcTypes, Transit
  <2>3. \A x \in Streams : /\ strm'[x].srv_conn = strm[x].srv_conn
                           /\ x # s => strm'[x].target = strm[x].target
    BY Zenon, <1>16, <1>b DEF RetrySameServer, LeaveServer, StrmTypes, Stream
  <2> HIDE DEF TypeOK, Control
  <2> QED BY Zenon, <1>a, <2>1, <2>2, <2>3, OffTransit
<1>17. ASSUME Redispatch(s) PROVE SlotsAccounted'
  <2>1. UNCHANGED served /\ pc[s] \notin Transit
    BY Zenon, <1>17 DEF Redispatch, LeaveServer, slots, Transit
  <2>2. OthersWait(s) /\ pc'[s] \notin Transit
    <3>1. Release(s, strm[s].target, "idle")
      BY Zenon, <1>17 DEF Redispatch
    <3> QED BY Zenon, <1>a, <3>1, ReleaseControl DEF Transit
  <2>3. \A x \in Streams : /\ strm'[x].srv_conn = strm[x].srv_conn
                           /\ x # s => strm'[x].target = strm[x].target
    BY Zenon, <1>17, <1>b DEF Redispatch, LeaveServer, StrmTypes, Stream
  <2> HIDE DEF TypeOK, Control
  <2> QED BY Zenon, <1>a, <2>1, <2>2, <2>3, OffTransit
<1>18. ASSUME MayDequeue(s) PROVE SlotsAccounted'
  <2>1. UNCHANGED served /\ pc[s] \notin Transit
    BY Zenon, <1>18 DEF MayDequeue, slots, Transit
  <2>2. OthersWait(s) /\ pc'[s] \notin Transit
    <3>1. CallProcessQueue(s, th[s].srv, th[s].ret) /\ th[s].ret \in {"idle", "free_slot", "gone"}
      BY Zenon, <1>18, <1>a DEF MayDequeue, ControlOK
    <3> QED BY Zenon, <1>a, <3>1, CallControl DEF Transit
  <2>3. \A x \in Streams : /\ strm'[x].srv_conn = strm[x].srv_conn
                           /\ x # s => strm'[x].target = strm[x].target
    BY Zenon, <1>18 DEF MayDequeue, strms
  <2> HIDE DEF TypeOK, Control
  <2> QED BY ZenonT(30), <1>a, <2>1, <2>2, <2>3, OffTransit
<1>19. ASSUME StreamFree(s) PROVE SlotsAccounted'
  <2>1. UNCHANGED served /\ pc[s] \notin Transit
    BY Zenon, <1>19 DEF StreamFree, slots, Transit
  <2>2. OthersWait(s) /\ pc'[s] \notin Transit
    <3>1. CASE pend[s] = NULL
      <4>1. CallProcessQueue(s, strm[s].target, "free_slot")
        BY Zenon, <1>19, <3>1 DEF StreamFree, FreeEntry
      <4> QED BY Zenon, <1>a, <4>1, CallControl DEF Transit
    <3>2. CASE pend[s] # NULL
      BY Zenon, <1>19, <1>a, <3>2 DEF StreamFree, Goto, OthersWait, ProcTypes, Transit
    <3> QED BY Zenon, <3>1, <3>2
  <2>3. \A x \in Streams : /\ strm'[x].srv_conn = strm[x].srv_conn
                           /\ x # s => strm'[x].target = strm[x].target
    BY Zenon, <1>19 DEF StreamFree, strms
  <2> HIDE DEF TypeOK, Control
  <2> QED BY ZenonT(30), <1>a, <2>1, <2>2, <2>3, OffTransit
<1>20. ASSUME FreeUnlinked(s) PROVE SlotsAccounted'
  <2>1. UNCHANGED served /\ pc[s] \notin Transit
    BY Zenon, <1>20 DEF FreeUnlinked, FreeEntry, slots, Transit
  <2>2. OthersWait(s) /\ pc'[s] \notin Transit
    BY Zenon, <1>20, <1>a, CallControl DEF FreeUnlinked, FreeEntry, Transit
  <2>3. \A x \in Streams : /\ strm'[x].srv_conn = strm[x].srv_conn
                           /\ x # s => strm'[x].target = strm[x].target
    BY Zenon, <1>20 DEF FreeUnlinked, FreeEntry, strms
  <2> HIDE DEF TypeOK, Control
  <2> QED BY Zenon, <1>a, <2>1, <2>2, <2>3, OffTransit
<1>21. ASSUME FreeSlot(s) PROVE SlotsAccounted'
  <2>1. UNCHANGED served /\ pc[s] \notin Transit
    BY Zenon, <1>21 DEF FreeSlot, slots, Transit
  <2>2. OthersWait(s) /\ pc'[s] \notin Transit
    <3>1. Release(s, strm[s].srv_conn, "gone")
      BY Zenon, <1>21 DEF FreeSlot
    <3> QED BY Zenon, <1>a, <3>1, ReleaseControl DEF Transit
  <2>3. \A x \in Streams : /\ strm'[x].srv_conn = strm[x].srv_conn
                           /\ x # s => strm'[x].target = strm[x].target
    BY Zenon, <1>21 DEF FreeSlot, strms
  <2> HIDE DEF TypeOK, Control
  <2> QED BY ZenonT(30), <1>a, <2>1, <2>2, <2>3, OffTransit
<1>22. ASSUME Gone(s) PROVE SlotsAccounted'
  <2>1. UNCHANGED served /\ pc[s] \notin Transit
    BY Zenon, <1>22 DEF Gone, slots, Transit
  <2>2. OthersWait(s) /\ pc'[s] \notin Transit
    BY Zenon, <1>22, <1>a DEF Gone, Goto, OthersWait, ProcTypes, Transit
  <2>3. \A x \in Streams : /\ strm'[x].srv_conn = strm[x].srv_conn
                           /\ x # s => strm'[x].target = strm[x].target
    BY <1>22, <1>b DEF Gone, StrmTypes, Stream
  <2> HIDE DEF TypeOK, Control
  <2> QED BY Zenon, <1>a, <2>1, <2>2, <2>3, OffTransit
<1>23. ASSUME AbortConnection(s) PROVE SlotsAccounted'
  <2>1. UNCHANGED served /\ pc[s] \notin Transit
    BY Zenon, <1>23 DEF AbortConnection, slots, Transit
  <2>2. OthersWait(s) /\ pc'[s] \notin Transit
    BY Zenon, <1>23, <1>a DEF AbortConnection, Goto, OthersWait, ProcTypes, Transit
  <2>3. \A x \in Streams : /\ strm'[x].srv_conn = strm[x].srv_conn
                           /\ x # s => strm'[x].target = strm[x].target
    BY Zenon, <1>23, <1>b DEF AbortConnection, StrmTypes, Stream
  <2> HIDE DEF TypeOK, Control
  <2> QED BY Zenon, <1>a, <2>1, <2>2, <2>3, OffTransit
<1> QED BY ZenonT(30), <1>1, <1>2, <1>3, <1>4, <1>5, <1>6, <1>7, <1>8, <1>9, <1>10, <1>11, <1>12, <1>13,
           <1>14, <1>15, <1>16, <1>17, <1>18, <1>19, <1>20, <1>21, <1>22, <1>23

(* served after Add(served, v, n) *)
LEMMA AddServed ==
  ASSUME TypeOK, NEW v \in Servers, NEW n \in Int, served' = Add(served, v, n)
  PROVE  /\ served'[v] = served[v] + n
         /\ \A x \in Servers \ {v} : served'[x] = served[x]
         /\ \A x \in Servers : served[x] \in Int
BY Zenon DEF Add, TypeOK, SlotTypes

(* A process takes a slot, or gives back one that no stream is attached to. *)
LEMMA TakeOrGive ==
  ASSUME TypeOK, ProcsOK, SlotsAccounted, NEW p \in Procs, NEW v \in Servers, OthersWait(p),
         UNCHANGED strm, NEW n \in {1, -1}, served' = Add(served, v, n),
         n = 1 => SlotInTransit(p) = NULL /\ SlotInTransit(p)' = v,
         n = -1 => SlotInTransit(p) = v /\ SlotInTransit(p)' = NULL
  PROVE  SlotsAccounted'
<1>1. \A x \in Procs \ {p} : SlotInTransit(x)' = SlotInTransit(x)
  BY Zenon, OthersTransit
<1>2. NULL \notin Servers
  BY Zenon, QueueAssumption
<1>f. IsFiniteSet(Procs)
  BY Zenon, QueueAssumption, FS_AddElement DEF Procs
<1> SUFFICES ASSUME NEW w \in Servers
             PROVE  served'[w] = Cardinality({s \in Streams : strm'[s].srv_conn = w})
                               + Cardinality({x \in Procs : SlotInTransit(x)' = w})
  BY Zenon DEF SlotsAccounted
<1> DEFINE A == Cardinality({s \in Streams : strm[s].srv_conn = w})
           h == [x \in Procs |-> SlotInTransit(x)]
           k == [x \in Procs |-> SlotInTransit(x)']
<1>3. /\ Count(Procs, h, w) = Cardinality({x \in Procs : SlotInTransit(x) = w})
      /\ Count(Procs, k, w) = Cardinality({x \in Procs : SlotInTransit(x)' = w})
  <2>1. /\ {x \in Procs : h[x] = w} = {x \in Procs : SlotInTransit(x) = w}
        /\ {x \in Procs : k[x] = w} = {x \in Procs : SlotInTransit(x)' = w}
    BY Zenon
  <2> QED BY Zenon, <2>1 DEF Count
<1>4. /\ h[p] = SlotInTransit(p) /\ k[p] = SlotInTransit(p)'
      /\ SameBut(Procs, h, k, p)
  BY Zenon, <1>1 DEF SameBut
<1>5. A \in Nat
  BY Zenon, QueueAssumption, FS_Subset, FS_CardinalityType
<1>6. served[w] = A + Count(Procs, h, w)
  BY Zenon, <1>3 DEF SlotsAccounted
<1>7. /\ Count(Procs, h, w) \in Nat /\ Count(Procs, k, w) \in Nat
      /\ Count(Procs, k, w) =
           Count(Procs, h, w) + (IF k[p] = w THEN 1 ELSE 0) - (IF h[p] = w THEN 1 ELSE 0)
  <2> HIDE DEF h, k
  <2> QED BY <1>f, <1>4, CountUpdate
<1>8. served'[w] = served[w] + (IF w = v THEN n ELSE 0)
  BY AddServed
<1>9. served'[w] = A + Count(Procs, k, w)
  <2>1. \/ n = 1 /\ h[p] = NULL /\ k[p] = v
        \/ n = -1 /\ h[p] = v /\ k[p] = NULL
    BY Zenon, <1>4
  <2> HIDE DEF h, k, A
  <2> QED BY SMTT(30), <1>2, <1>5, <1>6, <1>7, <1>8, <2>1
<1> QED BY Zenon, <1>3, <1>9

(* A slot held by p is attached to stream e, or e's slot is detached and   *)
(* held by p; served does not change.                                      *)
LEMMA AttachOrDetach ==
  ASSUME TypeOK, ProcsOK, SlotsAccounted, NEW p \in Procs, NEW e \in Streams, OthersWait(p),
         UNCHANGED served,
         \A x \in Streams \ {p} : strm'[x].target = strm[x].target,
         \A x \in Streams \ {e} : strm'[x].srv_conn = strm[x].srv_conn,
         strm'[e].srv_conn = SlotInTransit(p), SlotInTransit(p)' = strm[e].srv_conn
  PROVE  SlotsAccounted'
<1>1. \A x \in Procs \ {p} : SlotInTransit(x)' = SlotInTransit(x)
  BY Zenon, OthersTransit
<1>2. \A v \in Servers : served[v] \in Int
  BY Zenon DEF TypeOK, SlotTypes
<1>3. \A v \in Servers :
        served'[v] = served[v] + One(strm'[e].srv_conn, v) - One(strm[e].srv_conn, v)
                               + One(SlotInTransit(p)', v) - One(SlotInTransit(p), v)
  BY <1>2 DEF One
<1> QED BY Zenon, <1>1, <1>3, SlotMove

(* The steps of a stream that take a slot, attach it, detach it or give it *)
(* back.                                                                   *)
LEMMA OwnSlots ==
  ASSUME TypeOK, Control, SlotsAccounted, NEW s \in Streams
  PROVE  (\/ TakeSlot(s) \/ AttachSlot(s) \/ TakeReadySlot(s) \/ UnqueueSelf(s)
          \/ GiveReadyBack(s) \/ RunOnReady(s) \/ DetachSlot(s) \/ DropSlot(s))
         => SlotsAccounted'
<1>a. /\ s \in Procs /\ ControlOK(s) /\ StreamOK(s) /\ ProcTypes /\ ProcsOK /\ StrmTypes
      /\ th[s] \in Locals /\ strm[s] \in Stream /\ SlotTypes
  BY Zenon DEF TypeOK, Control, ProcsOK, StreamsOK, Procs, ProcTypes, StrmTypes
<1>b. \A x \in Streams : strm[x] \in Stream
  BY Zenon, <1>a DEF StrmTypes
<1>1. ASSUME TakeSlot(s) PROVE SlotsAccounted'
  <2>1. pc[s] = "cas" /\ strm[s].target \in Servers /\ SlotInTransit(s) = NULL
    BY Zenon, <1>1, <1>a DEF TakeSlot, StreamOK, SlotInTransit
  <2>2. CASE served[strm[s].target] < MaxConn[strm[s].target]
    <3>1. /\ served' = Add(served, strm[s].target, 1) /\ UNCHANGED <<strm, th>> /\ pc'[s] = "got"
          /\ OthersWait(s)
      BY Zenon, <1>1, <1>a, <2>2 DEF TakeSlot, Goto, OthersWait, ProcTypes
    <3>2. SlotInTransit(s)' = strm[s].target
      BY Zenon, <3>1 DEF SlotInTransit
    <3> QED BY <1>a, <2>1, <3>1, <3>2, TakeOrGive
  <2>3. CASE ~(served[strm[s].target] < MaxConn[strm[s].target])
    <3>1. QueueOnServer(s, strm[s].target) /\ UNCHANGED <<served, th>>
      BY Zenon, <1>1, <2>3 DEF TakeSlot
    <3>2. OthersWait(s) /\ pc[s] \notin Transit /\ pc'[s] \notin Transit
      BY ZenonT(30), <1>a, <2>1, <3>1 DEF QueueOnServer, Goto, OthersWait, ProcTypes, Transit
    <3>3. \A x \in Streams : /\ strm'[x].srv_conn = strm[x].srv_conn
                             /\ x # s => strm'[x].target = strm[x].target
      BY <1>a, <1>b, <3>1 DEF QueueOnServer, StrmTypes, Stream
    <3> QED BY ZenonT(30), <1>a, <3>1, <3>2, <3>3, OffTransit
  <2> QED BY Zenon, <2>2, <2>3
<1>2. ASSUME AttachSlot(s) PROVE SlotsAccounted'
  <2>1. /\ UNCHANGED served /\ OthersWait(s) /\ pc[s] = "got" /\ pc'[s] = "idle"
        /\ strm' = [strm EXCEPT ![s].srv_conn = strm[s].target, ![s].st = "ASS"]
    BY Zenon, <1>2, <1>a DEF AttachSlot, Goto, OthersWait, ProcTypes
  <2>2. /\ \A x \in Streams \ {s} : strm'[x] = strm[x]
        /\ strm'[s].srv_conn = strm[s].target
    BY Zenon, <1>a, <2>1 DEF StrmTypes, Stream
  <2>3. strm[s].srv_conn = NULL
    BY ZenonT(30), <1>a, <2>1 DEF StreamOK
  <2>4. SlotInTransit(s) = strm[s].target /\ SlotInTransit(s)' = NULL
    BY Zenon, <2>1 DEF SlotInTransit
  <2> QED BY ZenonT(30), <1>a, <2>1, <2>2, <2>3, <2>4, AttachOrDetach
<1>3. ASSUME TakeReadySlot(s) PROVE SlotsAccounted'
  <2>1. pc[s] = "rdy_cas" /\ th[s].srv \in Servers /\ SlotInTransit(s) = NULL
    BY Zenon, <1>3, <1>a DEF TakeReadySlot, ControlOK, ReadyLabels, SlotInTransit
  <2>2. CASE served[th[s].srv] = 0
    <3>1. /\ served' = Add(served, th[s].srv, 1) /\ UNCHANGED <<strm, th>>
          /\ pc'[s] = "rdy_lock" /\ OthersWait(s)
      BY ZenonT(30), <1>3, <1>a, <2>2 DEF TakeReadySlot, Goto, OthersWait, ProcTypes, strms
    <3>2. SlotInTransit(s)' = th[s].srv
      BY Zenon, <3>1 DEF SlotInTransit
    <3> QED BY SMTT(30), <1>a, <2>1, <3>1, <3>2, TakeOrGive
  <2>3. CASE served[th[s].srv] # 0
    <3>1. /\ UNCHANGED <<served, strm, th>> /\ pc'[s] = "idle" /\ OthersWait(s)
      BY Zenon, <1>3, <1>a, <2>3 DEF TakeReadySlot, Goto, OthersWait, ProcTypes, strms
    <3>2. pc[s] \notin Transit /\ pc'[s] \notin Transit
      BY Zenon, <2>1, <3>1 DEF Transit
    <3> QED BY ZenonT(30), <1>a, <3>1, <3>2, OffTransit
  <2> QED BY ZenonT(30), <2>2, <2>3
<1>4. ASSUME UnqueueSelf(s) PROVE SlotsAccounted'
  <2>1. /\ UNCHANGED <<served, strm, th>> /\ OthersWait(s) /\ pc[s] = "rdy_lock"
        /\ pc'[s] \in {"rdy_take", "rdy_undo"}
    BY Zenon, <1>4, <1>a DEF UnqueueSelf, Goto, OthersWait, ProcTypes, slots, strms
  <2>2. SlotInTransit(s)' = SlotInTransit(s)
    BY Zenon, <2>1 DEF SlotInTransit
  <2> QED BY Zenon, <1>a, <2>1, <2>2, SlotsKept
<1>5. ASSUME GiveReadyBack(s) PROVE SlotsAccounted'
  <2>1. /\ pc[s] = "rdy_undo" /\ th[s].srv \in Servers /\ SlotInTransit(s) = th[s].srv
    BY Zenon, <1>5, <1>a DEF GiveReadyBack, ControlOK, ReadyLabels, SlotInTransit
  <2>2. /\ served' = Add(served, th[s].srv, -1) /\ UNCHANGED <<strm, th>>
        /\ pc'[s] = "idle" /\ OthersWait(s)
    BY Zenon, <1>5, <1>a DEF GiveReadyBack, Goto, OthersWait, ProcTypes, strms
  <2>3. SlotInTransit(s)' = NULL
    BY Zenon, <2>2 DEF SlotInTransit
  <2> QED BY <1>a, <2>1, <2>2, <2>3, TakeOrGive
<1>6. ASSUME RunOnReady(s) PROVE SlotsAccounted'
  <2>1. /\ UNCHANGED served /\ OthersWait(s) /\ pc[s] = "rdy_take" /\ pc'[s] = "idle"
        /\ strm' = [strm EXCEPT ![s] = [@ EXCEPT !.st = "ASS", !.assigned = TRUE,
                                          !.target = th[s].srv, !.srv_conn = th[s].srv]]
    BY Zenon, <1>6, <1>a DEF RunOnReady, Goto, OthersWait, ProcTypes
  <2>2. /\ \A x \in Streams \ {s} : strm'[x] = strm[x]
        /\ strm'[s].srv_conn = th[s].srv
    BY Zenon, <1>a, <2>1 DEF StrmTypes, Stream
  <2>3. strm[s].srv_conn = NULL
    BY Zenon, <1>a, <2>1 DEF StreamOK
  <2>4. SlotInTransit(s) = th[s].srv /\ SlotInTransit(s)' = NULL
    BY Zenon, <2>1 DEF SlotInTransit
  <2> QED BY ZenonT(30), <1>a, <2>1, <2>2, <2>3, <2>4, AttachOrDetach
<1>7. ASSUME DetachSlot(s) PROVE SlotsAccounted'
  <2>1. /\ UNCHANGED served /\ OthersWait(s) /\ pc[s] = "detach" /\ pc'[s] = "drop"
        /\ strm' = [strm EXCEPT ![s].srv_conn = NULL]
        /\ th' = [th EXCEPT ![s].owner = strm[s].srv_conn]
    BY Zenon, <1>7, <1>a DEF DetachSlot, Goto, OthersWait, ProcTypes
  <2>2. /\ \A x \in Streams \ {s} : strm'[x] = strm[x]
        /\ strm'[s].srv_conn = NULL /\ th'[s].owner = strm[s].srv_conn
    BY Zenon, <1>a, <2>1 DEF StrmTypes, Stream, ProcTypes, Locals
  <2>3. SlotInTransit(s) = NULL /\ SlotInTransit(s)' = strm[s].srv_conn
    BY Zenon, <2>1, <2>2 DEF SlotInTransit
  <2> QED BY ZenonT(30), <1>a, <2>1, <2>2, <2>3, AttachOrDetach
<1>8. ASSUME DropSlot(s) PROVE SlotsAccounted'
  <2>1. /\ pc[s] = "drop" /\ SlotInTransit(s) = th[s].owner /\ UNCHANGED <<strm, th>>
        /\ served' = Add(served, th[s].owner, -1) /\ pc'[s] = "dequeue" /\ OthersWait(s)
    BY Zenon, <1>8, <1>a DEF DropSlot, Goto, OthersWait, ProcTypes, strms, SlotInTransit
  <2>2. SlotInTransit(s)' = NULL
    BY Zenon, <2>1 DEF SlotInTransit
  <2>3. \A v \in Servers : served'[v] = served[v] - One(th[s].owner, v)
    BY <1>a, <2>1 DEF Add, One, SlotTypes
  <2>4. \A v \in Servers :
          /\ served[v] \in Int /\ One(th[s].owner, v) \in Int
          /\ One(strm'[s].srv_conn, v) = One(strm[s].srv_conn, v)
          /\ One(strm[s].srv_conn, v) \in Int /\ One(NULL, v) = 0
    BY SMTT(30), <1>a, <2>1, QueueAssumption DEF One, SlotTypes
  <2>5. \A v \in Servers :
          served'[v] = served[v] + One(strm'[s].srv_conn, v) - One(strm[s].srv_conn, v)
                                 + One(SlotInTransit(s)', v) - One(SlotInTransit(s), v)
    BY <2>1, <2>2, <2>3, <2>4
  <2> QED BY ZenonT(30), <1>a, <2>1, <2>5, OthersTransit, SlotMove
<1> QED BY ZenonT(30), <1>1, <1>2, <1>3, <1>4, <1>5, <1>6, <1>7, <1>8
(* A dequeuer moves a slot when it reserves one and when it hands it over. *)
LEMMA DequeueSlots ==
  ASSUME TypeOK, Control, SlotsAccounted, NEW p \in Procs
  PROVE  process_srv_queue(p) => SlotsAccounted'
<1>a. /\ ControlOK(p) /\ LockOK(p) /\ EntryOK(p) /\ ProcTypes /\ ProcsOK /\ StrmTypes
      /\ th[p] \in Locals /\ SlotTypes /\ StreamsOK
      /\ pc[p] \in Dequeuing => SrvQueue(p) \in Queues
  BY Zenon, OwnQueues DEF TypeOK, Control, ProcsOK, ProcTypes
<1>q. ASSUME UNCHANGED <<served, strm>>, OthersWait(p), pc[p] \notin Transit, pc'[p] \notin Transit
      PROVE  SlotsAccounted'
  BY Zenon, <1>a, <1>q, OffTransit
<1>1. ASSUME \/ LoopHead(p) \/ TakeTurn(p) \/ LockServerQueue(p) \/ InnerLoop(p) \/ PeekQueues(p)
      PROVE  SlotsAccounted'
  <2>1. UNCHANGED <<served, strm>>
    BY Zenon, <1>1 DEF LoopHead, TakeTurn, LockServerQueue, InnerLoop, PeekQueues, slots, strms
  <2>2. OthersWait(p) /\ pc[p] \notin Transit /\ pc'[p] \notin Transit
    BY Zenon, <1>1, <1>a DEF LoopHead, TakeTurn, LockServerQueue, InnerLoop, PeekQueues, NothingDone,
                      Goto, OthersWait, ProcTypes, Transit
  <2> QED BY Zenon, <1>q, <2>1, <2>2
<1>2. ASSUME \/ CountDequeued(p) \/ UnlockServerQueue(p) \/ Account(p) \/ CheckIdle(p)
             \/ SetReady(p) \/ RetryGroup(p) \/ RetryAccount(p) \/ NextGroup(p)
      PROVE  SlotsAccounted'
  <2>1. UNCHANGED <<served, strm>>
    BY Zenon, <1>2 DEF CountDequeued, UnlockServerQueue, Account, CheckIdle, SetReady, RetryGroup,
                RetryAccount, NextGroup, slots, strms
  <2>2. th[p].ret \notin Transit
    BY Zenon, <1>a DEF ControlOK, Transit
  <2>3. OthersWait(p) /\ pc[p] \notin Transit /\ pc'[p] \notin Transit
    BY Zenon, <1>2, <1>a, <2>2 DEF CountDequeued, UnlockServerQueue, Account, CheckIdle, SetReady,
         RetryGroup, RetryAccount, NextGroup, Return, Goto, OthersWait, ProcTypes, Transit
  <2> QED BY Zenon, <1>q, <2>1, <2>3
<1>3. ASSUME ReserveSlot(p) PROVE SlotsAccounted'
  <2>1. pc[p] = "reserve" /\ th[p].srv \in Servers /\ SlotInTransit(p) = NULL
    BY ZenonT(30), <1>3, <1>a DEF ReserveSlot, ControlOK, Dequeuing, Locked, SlotInTransit
  <2>2. CASE served[th[p].srv] < MaxConn[th[p].srv]
    <3>1. /\ served' = Add(served, th[p].srv, 1) /\ UNCHANGED <<strm, th>> /\ pc'[p] = "pick"
          /\ OthersWait(p)
      BY ZenonT(30), <1>3, <1>a, <2>2 DEF ReserveSlot, Goto, OthersWait, ProcTypes, strms
    <3>2. SlotInTransit(p)' = th[p].srv
      BY Zenon, <3>1 DEF SlotInTransit
    <3> QED BY SMTT(30), <1>a, <2>1, <3>1, <3>2, TakeOrGive
  <2>3. CASE ~(served[th[p].srv] < MaxConn[th[p].srv])
    <3>1. UNCHANGED <<served, strm>> /\ NothingDone(p)
      BY Zenon, <1>3, <2>3 DEF ReserveSlot, strms
    <3>2. OthersWait(p) /\ pc[p] \notin Transit /\ pc'[p] \notin Transit
      BY Zenon, <1>a, <2>1, <3>1 DEF NothingDone, Goto, OthersWait, ProcTypes, Transit
    <3> QED BY ZenonT(30), <1>q, <3>1, <3>2
  <2> QED BY Zenon, <2>2, <2>3
<1>4. ASSUME NEW e \in Streams, strm[e].srv_conn = NULL, UNCHANGED served, OthersWait(p),
             strm' = [strm EXCEPT ![e].srv_conn = th[p].srv],
             pc[p] \in {"pick", "tell"}, pc'[p] \in {"count_srv", "count_px"}
      PROVE  SlotsAccounted'
  <2>1. /\ \A x \in Streams : strm'[x].target = strm[x].target
        /\ \A x \in Streams \ {e} : strm'[x].srv_conn = strm[x].srv_conn
        /\ strm'[e].srv_conn = th[p].srv
    BY Zenon, <1>a, <1>4 DEF StrmTypes, Stream
  <2>2. SlotInTransit(p) = th[p].srv /\ SlotInTransit(p)' = NULL
    BY Zenon, <1>4 DEF SlotInTransit
  <2> QED BY ZenonT(30), <1>a, <1>4, <2>1, <2>2, AttachOrDetach
<1>5. ASSUME UseServerEntry(p) PROVE SlotsAccounted'
  <2>1. /\ pc[p] = "pick" /\ th[p].p \in Streams /\ th[p].p # NULL
    BY Zenon, <1>5, <1>a DEF UseServerEntry, ControlOK, UsePp, Locals
  <2>2. /\ UNCHANGED served /\ OthersWait(p) /\ pc'[p] = "count_srv"
        /\ strm' = [strm EXCEPT ![th[p].p].srv_conn = th[p].srv]
    BY Zenon, <1>5, <1>a DEF UseServerEntry, Goto, OthersWait, ProcTypes, slots
  <2>3. Linked(th[p].p)
    BY Zenon, <1>a, <2>1 DEF EntryOK, Linked, Dequeuing, Locked
  <2>4. strm[th[p].p].srv_conn = NULL
    BY ZenonT(30), <1>a, <2>1, <2>3 DEF StreamsOK, LinkOK, Waits
  <2> QED BY ZenonT(30), <1>4, <2>1, <2>2, <2>4
<1>6. ASSUME TellProxyEntry(p) PROVE SlotsAccounted'
  <2>1. /\ pc[p] = "tell" /\ th[p].pp \in Streams /\ del_lock[th[p].pp] = p /\ p # NULL
    BY ZenonT(30), <1>6, <1>a, QueueAssumption DEF TellProxyEntry, ControlOK, LockOK, Locals, Procs
  <2>2. /\ UNCHANGED served /\ OthersWait(p) /\ pc'[p] = "count_px"
        /\ strm' = [strm EXCEPT ![th[p].pp].srv_conn = th[p].srv]
    BY Zenon, <1>6, <1>a DEF TellProxyEntry, Goto, OthersWait, ProcTypes, slots
  <2>3. strm[th[p].pp].srv_conn = NULL
    BY Zenon, <1>a, <2>1 DEF StreamsOK, LinkOK, Waits
  <2> QED BY Zenon, <1>4, <2>1, <2>2, <2>3
<1>7. ASSUME UseProxyEntry(p) PROVE SlotsAccounted'
  <2>1. UNCHANGED <<served, strm, th>> /\ OthersWait(p) /\ pc[p] = "pick" /\ pc'[p] = "tell"
    BY Zenon, <1>7, <1>a DEF UseProxyEntry, Goto, OthersWait, ProcTypes, slots, strms
  <2>2. SlotInTransit(p)' = SlotInTransit(p)
    BY Zenon, <2>1 DEF SlotInTransit
  <2> QED BY Zenon, <1>a, <2>1, <2>2, SlotsKept
<1> QED BY ZenonT(30), <1>1, <1>2, <1>3, <1>5, <1>6, <1>7 DEF process_srv_queue

(* A change of a server's state moves no slot. *)
LEMMA AdminSlots ==
  ASSUME TypeOK, Control, SlotsAccounted
  PROVE  /\ \/ RedistributeGroup \/ RedistributeLength \/ CountRedistributed
            \/ RedistributeProxy \/ ClearReady
            => SlotsAccounted'
         /\ \A v \in Servers : ServerDown(v) \/ ServerUp(v) => SlotsAccounted'
<1>a. ProcTypes /\ ProcsOK /\ Admin \in Procs /\ Admin \notin Streams
  BY Zenon, QueueAssumption DEF TypeOK, Control, Procs
<1>q. ASSUME UNCHANGED <<served, strm>>, OthersWait(Admin),
             pc[Admin] \notin Transit, pc'[Admin] \notin Transit
      PROVE  SlotsAccounted'
  BY Zenon, <1>a, <1>q, OffTransit
<1>1. ASSUME \/ RedistributeGroup \/ RedistributeLength \/ CountRedistributed
             \/ RedistributeProxy \/ ClearReady
      PROVE  SlotsAccounted'
  <2>1. UNCHANGED <<served, strm>>
    BY Zenon, <1>1 DEF RedistributeGroup, RedistributeLength, CountRedistributed, RedistributeProxy,
                 ClearReady, slots, strms
  <2>2. OthersWait(Admin) /\ pc[Admin] \notin Transit /\ pc'[Admin] \notin Transit
    BY Zenon, <1>1, <1>a DEF RedistributeGroup, RedistributeLength, CountRedistributed,
                      RedistributeProxy, ClearReady, Goto, OthersWait, ProcTypes, Transit
  <2> QED BY Zenon, <1>q, <2>1, <2>2
<1>2. ASSUME NEW v \in Servers, ServerDown(v) \/ ServerUp(v) PROVE SlotsAccounted'
  <2>1. UNCHANGED <<served, strm>>
    BY Zenon, <1>2 DEF ServerDown, ServerUp, slots, strms
  <2>2. OthersWait(Admin) /\ pc[Admin] \notin Transit /\ pc'[Admin] \notin Transit
    BY Zenon, <1>2, <1>a DEF ServerDown, ServerUp, Goto, OthersWait, ProcTypes, Transit
  <2> QED BY ZenonT(30), <1>q, <2>1, <2>2
<1> QED BY Zenon, <1>1, <1>2

-----------------------------------------------------------------------------
(* IInv holds initially ... *)
LEMMA InitInv == Init => IInv
<1> SUFFICES ASSUME Init PROVE IInv
  BY Zenon
<1>1. TypeOK /\ Control
  BY Zenon, InitTypes, InitControl
<1>2. ASSUME NEW v \in Servers
      PROVE  served[v] = Cardinality({s \in Streams : strm[s].srv_conn = v})
                       + Cardinality({p \in Procs : SlotInTransit(p) = v})
  <2>1. v # NULL
    BY Zenon, QueueAssumption
  <2>2. {s \in Streams : strm[s].srv_conn = v} = {}
    BY Zenon, <2>1 DEF Init, NewStream
  <2>3. {p \in Procs : SlotInTransit(p) = v} = {}
    BY Zenon, <2>1 DEF Init, SlotInTransit
  <2>4. served[v] = 0
    BY Zenon DEF Init
  <2>5. Cardinality({}) = 0
    BY Zenon, FS_EmptySet
  <2>6. Cardinality({s \in Streams : strm[s].srv_conn = v}) = 0
    BY Zenon, <2>2, <2>5, Zenon
  <2>7. Cardinality({p \in Procs : SlotInTransit(p) = v}) = 0
    BY Zenon, <2>3, <2>5, Zenon
  <2> QED BY <2>4, <2>6, <2>7
<1> QED BY Zenon, <1>1, <1>2 DEF IInv, Control, SlotsAccounted

(* ... and is kept by every step. *)
LEMMA NextInv ==
  ASSUME IInv, [Next]_vars
  PROVE  IInv'
<1>1. TypeOK /\ Control /\ SlotsAccounted /\ ProcsOK /\ StreamsOK /\ QueuesOK
  BY Zenon DEF IInv, Control
<1>2. TypeOK'
  BY Zenon, <1>1, NextTypes
<1>3. Control'
  BY Zenon, <1>1, NextControl
<1>4. SlotsAccounted'
  <2>1. CASE UNCHANGED vars
    <3>1. UNCHANGED <<served, strm, pc, th>>
      BY Zenon, <2>1 DEF vars, slots, strms
    <3>2. \A p \in Procs : SlotInTransit(p)' = SlotInTransit(p)
      BY Zenon, <3>1 DEF SlotInTransit
    <3>3. ASSUME NEW v \in Servers
          PROVE  /\ {p \in Procs : SlotInTransit(p)' = v} = {p \in Procs : SlotInTransit(p) = v}
                 /\ {s \in Streams : strm'[s].srv_conn = v} = {s \in Streams : strm[s].srv_conn = v}
      BY Zenon, <3>1, <3>2
    <3> QED BY ZenonT(30), <1>1, <3>1, <3>3 DEF SlotsAccounted
  <2>2. ASSUME NEW s \in Streams, Arrive(s) \/ StreamStep(s) PROVE SlotsAccounted'
    <3>1. s \in Procs
      BY Zenon DEF Procs
    <3> QED BY ZenonT(30), <1>1, <2>2, <3>1, StreamSlots, OwnSlots, DequeueSlots
          DEF StreamStep, assign_server_and_queue, LeaveQueue, Serve, stream_free
  <2>3. CASE AdminStep
    BY Zenon, <1>1, <2>3, AdminSlots, DequeueSlots DEF AdminStep, Procs
  <2>4. CASE \E v \in Servers : ServerDown(v) \/ ServerUp(v)
    BY Zenon, <1>1, <2>4, AdminSlots
  <2>5. CASE Over
    BY Zenon, <2>1, <2>5 DEF Over
  <2> QED BY ZenonT(30), <2>1, <2>2, <2>3, <2>4, <2>5 DEF Next
<1> QED BY Zenon, <1>2, <1>3, <1>4 DEF IInv, Control

(* The inductive invariant: in every reachable state each process holds    *)
(* the locks of the section of queue.c it is in, each stream owns what its *)
(* stage in backend.c says, and the slots are accounted for.               *)
THEOREM Invariant == Spec => []IInv
<1>1. Init => IInv
  BY Zenon, InitInv
<1>2. IInv /\ [Next]_vars => IInv'
  BY Zenon, NextInv
<1> QED BY <1>1, <1>2, PTL DEF Spec

(* Every variable of the queueing code keeps its type, for any number of   *)
(* streams, servers and thread groups.                                     *)
THEOREM TypeCorrect == Spec => []TypeOK
<1>1. IInv => TypeOK
  BY Zenon DEF IInv
<1> QED BY <1>1, Invariant, PTL

(* server->served always equals the number of slots attached to a stream   *)
(* or on their way to or from one: whatever the races between              *)
(* assign_server_and_queue(), process_srv_queue(), timeouts, redispatches  *)
(* and server state changes, no slot is lost or given back twice.          *)
THEOREM SlotsAlwaysAccounted == Spec => []SlotsAccounted
<1>1. IInv => SlotsAccounted
  BY Zenon DEF IInv
<1> QED BY <1>1, Invariant, PTL

(* pendconn_process_next_strm() never works on an entry whose stream freed *)
(* it: the queue locks and del_lock protect it until it is told.           *)
THEOREM EntryAlwaysAlive == Spec => []EntryAlive
<1>1. ASSUME IInv PROVE EntryAlive
  <2> SUFFICES ASSUME NEW p \in Procs, NEW s \in {th[p].p, th[p].pp} \ {NULL}
               PROVE  pend[s] # NULL /\ strm[s].st \in {"REQ", "QUE", "CLO"}
    BY Zenon DEF EntryAlive
  <2>1. /\ ControlOK(p) /\ LockOK(p) /\ EntryOK(p) /\ th[p] \in Locals /\ p # NULL
        /\ PxQueue(p) \in Queues /\ (pc[p] \in Dequeuing => SrvQueue(p) \in Queues)
    BY Zenon, <1>1, OwnQueues, QueueAssumption DEF IInv, ProcsOK, TypeOK, ProcTypes, Procs
  <2>2. s \in Streams /\ pc[p] \in {"reserve", "pick", "tell"}
    BY Zenon, <2>1 DEF Locals, ControlOK
  <2>3. LinkOK(s) /\ StreamOK(s)
    BY Zenon, <1>1, <2>2 DEF IInv, StreamsOK
  <2>4. Linked(s) \/ del_lock[s] # NULL
    BY Zenon, <2>1, <2>2 DEF EntryOK, LockOK, Linked, Dequeuing, Locked
  <2>5. Waits(s, InQueue) \/ Waits(s, InQueue \cup {"rdy_undo", "out"})
    BY Zenon, <2>3, <2>4 DEF LinkOK
  <2> QED BY Zenon, <2>3, <2>5 DEF Waits, StreamOK
<1> QED BY <1>1, Invariant, PTL

(* An entry found in a queue's tree is that of a waiting stream, in its    *)
(* own queue and only there, without a slot and without a target.          *)
THEOREM LinkedAlwaysWaiting == Spec => []LinkedIsWaiting
<1>1. ASSUME IInv PROVE LinkedIsWaiting
  <2> SUFFICES ASSUME NEW q \in Queues, NEW i \in DOMAIN tree[q]
               PROVE  /\ pend[tree[q][i]] # NULL /\ QueueOf(tree[q][i]) = q
                      /\ strm[tree[q][i]].srv_conn = NULL /\ pend[tree[q][i]].target = NULL
                      /\ \A j \in DOMAIN tree[q] : tree[q][j] = tree[q][i] => i = j
    BY Zenon DEF LinkedIsWaiting
  <2>1. tree[q] \in Seq(Streams) /\ Distinct(tree[q])
    BY Zenon, <1>1 DEF IInv, TypeOK, LinkTypes, QueuesOK
  <2>2. DOMAIN tree[q] = 1 .. Len(tree[q]) /\ tree[q][i] \in Streams
    BY <2>1
  <2>3. InSeq(tree[q][i], tree[q])
    BY Zenon, <2>2 DEF InSeq
  <2>4. LinkOK(tree[q][i]) /\ Linked(tree[q][i])
    BY Zenon, <1>1, <2>2, <2>3 DEF IInv, StreamsOK, Linked
  <2>5. Waits(tree[q][i], InQueue) /\ QueueOf(tree[q][i]) = q
    BY Zenon, <2>3, <2>4 DEF LinkOK
  <2> QED BY Zenon, <2>1, <2>2, <2>5 DEF Waits, Distinct
<1> QED BY <1>1, Invariant, PTL

(* stream_free() leaves nothing behind: no slot, no queue entry and nobody *)
(* about to write to the stream.                                           *)
THEOREM NothingEverLeaked == Spec => []NothingLeaked
<1>1. ASSUME IInv PROVE NothingLeaked
  <2> SUFFICES ASSUME NEW s \in Streams, strm[s].st = "GONE"
               PROVE  strm[s].srv_conn = NULL /\ pend[s] = NULL /\ del_lock[s] = NULL
    BY Zenon DEF NothingLeaked
  <2>1. FreeOK(s) /\ LinkOK(s)
    BY Zenon, <1>1 DEF IInv, StreamsOK
  <2> QED BY Zenon, <2>1 DEF FreeOK, LinkOK, Waits
<1> QED BY <1>1, Invariant, PTL
=============================================================================
