---------------------------- MODULE QueueMaxconn ----------------------------
(***************************************************************************)
(* A server's maxconn is respected: by served, the slots that are taken,   *)
(* and by the streams that connect to the server.  The second needs        *)
(* MaxconnInv, which says that a stream that connects owns a slot of its   *)
(* server, and what an entry in a queue promises about that.               *)
(***************************************************************************)
EXTENDS QueueProofs

-----------------------------------------------------------------------------
(* A step that changes no stream and no tree, of a process in the middle   *)
(* of an operation or of a stream that waits. *)
LEMMA ConnectKept ==
  ASSUME NEW p \in Procs, OthersWait(p), UNCHANGED <<strm, pend, tree>>,
         \A s \in Streams : ConnectOK(s),
         p \in Streams => /\ strm[p].st \notin {"ASS", "CON"} \/ pc'[p] = pc[p]
                          /\ pc[p] # "insert" /\ (pc'[p] = "detach" => strm[p].st # "QUE")
                          /\ pc'[p] \in ReadyLabels \cup {"ready"} => pc[p] \in ReadyLabels \cup {"ready"}
  PROVE  \A s \in Streams : ConnectOK(s)'
<1> SUFFICES ASSUME NEW s \in Streams PROVE ConnectOK(s)'
  BY Zenon
<1>1. ConnectOK(s) /\ (Linked(s)' <=> Linked(s))
  BY Zenon DEF Linked
<1>2. CASE s # p
  BY Zenon, <1>1, <1>2 DEF ConnectOK, OthersWait, Procs
<1>3. CASE s = p
  BY Zenon, <1>1, <1>3 DEF ConnectOK
<1> QED BY Zenon, <1>2, <1>3

(* A step of stream s that changes no other stream and unlinks no other. *)
Mine(s) ==
  /\ OthersWait(s) /\ \A x \in Streams \ {s} : strm'[x] = strm[x] /\ pend'[x] = pend[x]
  /\ \A x \in Streams \ {s} : Linked(x) => Linked(x)'

(* A step of a stream, or on its entry, that keeps the entries of the      *)
(* others in their queues leaves their next decisions alone.               *)
LEMMA ConnectMine ==
  ASSUME NEW s \in Streams, Mine(s), \A x \in Streams : ConnectOK(x), ConnectOK(s)'
  PROVE  \A x \in Streams : ConnectOK(x)'
<1> SUFFICES ASSUME NEW x \in Streams \ {s} PROVE ConnectOK(x)'
  BY Zenon
<1>1. ConnectOK(x) /\ (Linked(x) => Linked(x)')
  BY Zenon DEF Mine
<1>2. strm'[x] = strm[x] /\ pend'[x] = pend[x] /\ pc'[x] = pc[x]
  BY Zenon DEF Mine, OthersWait, Procs
<1> QED BY Zenon, <1>1, <1>2 DEF ConnectOK

(* What a stream that has no entry, or that is done, may change. *)
LEMMA ConnectFree ==
  ASSUME NEW s \in Streams, ~strm'[s].curr,
         \/ strm'[s].st \in {"INI", "CLO", "GONE"}
         \/ strm'[s].st = "REQ" /\ pend'[s] = NULL
         \/ /\ strm'[s].st = "ASS" /\ pend'[s] = NULL /\ pc'[s] = "idle"
            /\ strm'[s].target # NULL /\ strm'[s].srv_conn = strm'[s].target,
         pc'[s] \notin ReadyLabels \cup {"ready"}
  PROVE  ConnectOK(s)'
BY Zenon DEF ConnectOK

(* Steps of a stream that leave it without an entry, or closed. *)
LEMMA FreeConnect ==
  ASSUME TypeOK, Control, NEW s \in Streams, \A x \in Streams : ConnectOK(x)
  PROVE  (\/ Arrive(s) \/ assign_server(s) \/ CheckRoom(s) \/ TakeSlot(s) \/ AttachSlot(s)
          \/ NoEntry(s) \/ RunOnReady(s) \/ TakeResult(s) \/ AbortConnection(s)
          \/ EndOfStream(s) \/ RetrySameServer(s) \/ Redispatch(s) \/ DetachSlot(s)
          \/ StreamFree(s) \/ FreeUnlinked(s) \/ Gone(s))
         => \A x \in Streams : ConnectOK(x)'
<1> USE DEF TypeOK, Control
<1>a. /\ s \in Procs /\ ControlOK(s) /\ StreamOK(s) /\ FreeOK(s) /\ LinkOK(s) /\ ConnectOK(s) /\ ProcTypes
      /\ th[s] \in Locals /\ strm[s] \in Stream /\ strm[s].target \in NServer
      /\ strm[s].srv_conn \in NServer /\ th[s].srv \in NServer
      /\ "idle" \in {"idle", "free_slot", "gone"} /\ "free_slot" \in {"idle", "free_slot", "gone"}
  BY Zenon DEF ProcsOK, StreamsOK, Procs, ProcTypes, StrmTypes, Stream, Locals
<1>b. ASSUME UNCHANGED tree, OthersWait(s), \A x \in Streams \ {s} : strm'[x] = strm[x],
             \A x \in Streams \ {s} : pend'[x] = pend[x]
      PROVE  Mine(s)
  BY Zenon, <1>b DEF Mine, Linked
<1>c. NULL \notin Servers
  BY Zenon, QueueAssumption
<1>1. ASSUME Arrive(s) PROVE Mine(s) /\ ConnectOK(s)'
  <2>1. /\ UNCHANGED <<tree, pend, pc>> /\ OthersWait(s) /\ strm[s].st = "INI" /\ pc[s] = "idle"
    BY Zenon, <1>1 DEF Arrive, OthersWait, links
  <2>2. \A x \in Streams \ {s} : strm'[x] = strm[x]
    BY Zenon, <1>1, <1>a DEF Arrive, StrmTypes
  <2>3. strm'[s].st = "REQ" /\ strm'[s].curr = strm[s].curr
    BY <1>1, <1>a DEF Arrive, StrmTypes, Stream
  <2>4. pend[s] = NULL /\ ~strm[s].curr
    BY Zenon, <1>a, <2>1 DEF StreamOK, ConnectOK
  <2> QED BY Zenon, <1>b, <2>1, <2>2, <2>3, <2>4, ConnectFree DEF ReadyLabels
<1>2. ASSUME assign_server(s) PROVE Mine(s) /\ ConnectOK(s)'
  <2>1. /\ UNCHANGED <<tree, pend>> /\ OthersWait(s) /\ strm[s].st = "REQ" /\ pc[s] = "idle"
        /\ pc'[s] \in {"idle", "enqueue"}
    BY Zenon, <1>2, <1>a DEF assign_server, Goto, OthersWait, ProcTypes, links
  <2>2. \/ strm' = [strm EXCEPT ![s].st = "CLO", ![s].target = NULL]
        \/ strm' = [strm EXCEPT ![s].target = NULL]
        \/ \E v \in Servers : strm' = [strm EXCEPT ![s].target = v, ![s].assigned = TRUE]
    BY Zenon, <1>2 DEF assign_server
  <2>3. /\ \A x \in Streams \ {s} : strm'[x] = strm[x]
        /\ strm'[s].st \in {"CLO", "REQ"} /\ strm'[s].curr = strm[s].curr
    BY <1>a, <2>1, <2>2 DEF StrmTypes, Stream
  <2>4. pend[s] = NULL /\ ~strm[s].curr
    BY Zenon, <1>a, <2>1 DEF StreamOK, ConnectOK
  <2> QED BY Zenon, <1>b, <2>1, <2>3, <2>4, ConnectFree DEF ReadyLabels
<1>3. ASSUME CheckRoom(s) \/ TakeSlot(s) PROVE Mine(s) /\ ConnectOK(s)'
  <2>1. /\ UNCHANGED <<tree, pend>> /\ OthersWait(s) /\ strm[s].st = "REQ" /\ pc[s] \in {"idle", "cas"}
        /\ pc'[s] \in {"idle", "enqueue", "cas", "got"}
    BY Zenon, <1>3, <1>a DEF CheckRoom, TakeSlot, QueueOnServer, Goto, OthersWait, ProcTypes, links, StreamOK
  <2>2. \/ UNCHANGED strm
        \/ strm' = [strm EXCEPT ![s].assigned = FALSE, ![s].direct = FALSE]
        \/ strm' = [strm EXCEPT ![s].st = "CLO"]
    BY Zenon, <1>3 DEF CheckRoom, TakeSlot, QueueOnServer
  <2>3. /\ \A x \in Streams \ {s} : strm'[x] = strm[x]
        /\ strm'[s].st \in {"CLO", "REQ"} /\ strm'[s].curr = strm[s].curr
    BY <1>a, <2>1, <2>2 DEF StrmTypes, Stream
  <2>4. pend[s] = NULL /\ ~strm[s].curr
    BY Zenon, <1>a, <2>1 DEF StreamOK, ConnectOK
  <2> QED BY Zenon, <1>b, <2>1, <2>3, <2>4, ConnectFree DEF ReadyLabels
<1>4. ASSUME AttachSlot(s) PROVE Mine(s) /\ ConnectOK(s)'
  <2>1. /\ UNCHANGED <<tree, pend>> /\ OthersWait(s) /\ pc[s] = "got" /\ pc'[s] = "idle"
        /\ strm' = [strm EXCEPT ![s].srv_conn = strm[s].target, ![s].st = "ASS"]
    BY Zenon, <1>4, <1>a DEF AttachSlot, Goto, OthersWait, ProcTypes, links
  <2>2. /\ \A x \in Streams \ {s} : strm'[x] = strm[x]
        /\ strm'[s].st = "ASS" /\ strm'[s].curr = strm[s].curr
        /\ strm'[s].target = strm[s].target /\ strm'[s].srv_conn = strm[s].target
    BY <1>a, <2>1 DEF StrmTypes, Stream
  <2>3. pend[s] = NULL /\ ~strm[s].curr /\ strm[s].target # NULL
    BY Zenon, <1>a, <1>c, <2>1 DEF StreamOK, ConnectOK
  <2> QED BY Zenon, <1>b, <2>1, <2>2, <2>3, ConnectFree DEF ReadyLabels
<1>5. ASSUME NoEntry(s) PROVE Mine(s) /\ ConnectOK(s)'
  <2>1. /\ UNCHANGED <<tree, pend>> /\ pc[s] = "enqueue" /\ strm' = [strm EXCEPT ![s].st = "CLO"]
    BY Zenon, <1>5 DEF NoEntry, links
  <2>2. OthersWait(s) /\ pc'[s] \in {"loop", "idle"}
    BY Zenon, <1>5, <1>a, CallControl DEF NoEntry
  <2>3. /\ \A x \in Streams \ {s} : strm'[x] = strm[x]
        /\ strm'[s].st = "CLO" /\ strm'[s].curr = strm[s].curr
    BY <1>a, <2>1 DEF StrmTypes, Stream
  <2>4. ~strm[s].curr
    BY Zenon, <1>a, <2>1 DEF StreamOK, ConnectOK
  <2> QED BY Zenon, <1>b, <2>1, <2>2, <2>3, <2>4, ConnectFree DEF ReadyLabels
<1>6. ASSUME RunOnReady(s) PROVE Mine(s) /\ ConnectOK(s)'
  <2>1. /\ UNCHANGED tree /\ OthersWait(s) /\ pc[s] = "rdy_take" /\ pc'[s] = "idle"
        /\ pend' = [pend EXCEPT ![s] = NULL]
        /\ strm' = [strm EXCEPT ![s] = [@ EXCEPT !.st = "ASS", !.assigned = TRUE,
                                          !.target = th[s].srv, !.srv_conn = th[s].srv]]
    BY Zenon, <1>6, <1>a DEF RunOnReady, Goto, OthersWait, ProcTypes, links
  <2>2. /\ \A x \in Streams \ {s} : strm'[x] = strm[x]
        /\ strm'[s].st = "ASS" /\ strm'[s].curr = strm[s].curr
        /\ strm'[s].target = th[s].srv /\ strm'[s].srv_conn = th[s].srv
    BY <1>a, <2>1 DEF StrmTypes, Stream
  <2>3. pend'[s] = NULL /\ \A x \in Streams \ {s} : pend'[x] = pend[x]
    BY Zenon, <1>a, <2>1 DEF StrmTypes
  <2>4. ~strm[s].curr /\ th[s].srv # NULL
    BY Zenon, <1>a, <1>c, <2>1 DEF StreamOK, ConnectOK, ControlOK, ReadyLabels
  <2> QED BY Zenon, <1>b, <2>1, <2>2, <2>3, <2>4, ConnectFree DEF ReadyLabels
<1>7. ASSUME TakeResult(s) PROVE Mine(s) /\ ConnectOK(s)'
  <2>1. /\ UNCHANGED tree /\ OthersWait(s) /\ pc[s] = "out" /\ pc'[s] = "idle"
        /\ pend' = [pend EXCEPT ![s] = NULL]
        /\ strm' = [strm EXCEPT ![s] =
             [@ EXCEPT !.st = IF pend[s].assigned THEN "ASS" ELSE "REQ",
                       !.assigned = pend[s].assigned, !.direct = pend[s].direct,
                       !.target = IF pend[s].target = NULL THEN strm[s].target ELSE pend[s].target]]
    BY Zenon, <1>7, <1>a DEF TakeResult, Goto, OthersWait, ProcTypes, links
  <2>2. strm[s].st = "QUE" /\ pend[s] # NULL /\ ~Linked(s) /\ ~strm[s].curr
    BY Zenon, <1>a, <2>1 DEF StreamOK, LinkOK, Waits, InQueue, Dequeuing, Locked, ConnectOK
  <2>3. pend[s].assigned => pend[s].target # NULL /\ strm[s].srv_conn = pend[s].target
    BY Zenon, <1>a, <2>1, <2>2 DEF ConnectOK
  <2>4. /\ \A x \in Streams \ {s} : strm'[x] = strm[x]
        /\ strm'[s].st = (IF pend[s].assigned THEN "ASS" ELSE "REQ")
        /\ strm'[s].curr = strm[s].curr /\ strm'[s].srv_conn = strm[s].srv_conn
        /\ strm'[s].target = IF pend[s].target = NULL THEN strm[s].target ELSE pend[s].target
    BY <1>a, <2>1 DEF StrmTypes, Stream
  <2>5. pend'[s] = NULL /\ \A x \in Streams \ {s} : pend'[x] = pend[x]
    BY Zenon, <1>a, <2>1 DEF StrmTypes
  <2>6. CASE pend[s].assigned
    <3>1. strm'[s].st = "ASS" /\ strm'[s].target # NULL /\ strm'[s].srv_conn = strm'[s].target
      BY <2>3, <2>4, <2>6
    <3> QED BY Zenon, <1>b, <2>1, <2>2, <2>4, <2>5, <3>1, ConnectFree DEF ReadyLabels
  <2>7. CASE ~pend[s].assigned
    BY Zenon, <1>b, <2>1, <2>2, <2>4, <2>5, <2>7, ConnectFree DEF ReadyLabels
  <2> QED BY Zenon, <2>6, <2>7
<1>8. ASSUME AbortConnection(s) PROVE Mine(s) /\ ConnectOK(s)'
  <2>1. /\ UNCHANGED <<tree, pend, pc>> /\ OthersWait(s) /\ strm[s].st = "ASS" /\ pc[s] = "idle"
        /\ strm' = [strm EXCEPT ![s].st = "CLO"]
    BY Zenon, <1>8 DEF AbortConnection, OthersWait, links
  <2>2. /\ \A x \in Streams \ {s} : strm'[x] = strm[x]
        /\ strm'[s].st = "CLO" /\ strm'[s].curr = strm[s].curr
    BY <1>a, <2>1 DEF StrmTypes, Stream
  <2>3. ~strm[s].curr
    BY Zenon, <1>a, <2>1 DEF ConnectOK
  <2> QED BY Zenon, <1>b, <2>1, <2>2, <2>3, ConnectFree DEF ReadyLabels
<1>9. ASSUME EndOfStream(s) \/ RetrySameServer(s) \/ Redispatch(s) PROVE Mine(s) /\ ConnectOK(s)'
  <2>1. UNCHANGED <<tree, pend>> /\ strm[s].st \in {"ASS", "CON"} /\ pc[s] = "idle"
    BY Zenon, <1>9 DEF EndOfStream, RetrySameServer, Redispatch, LeaveServer, links
  <2>2. OthersWait(s) /\ pc'[s] \in {"idle", "loop", "detach"} /\ (RetrySameServer(s) => pc'[s] = "idle")
    <3>1. CASE RetrySameServer(s)
      BY Zenon, <2>1, <3>1 DEF RetrySameServer, OthersWait
    <3>2. CASE Release(s, strm[s].target, "idle") /\ ~RetrySameServer(s)
      BY Zenon, <1>a, <3>2, ReleaseControl
    <3> QED BY Zenon, <1>9, <3>1, <3>2 DEF EndOfStream, Redispatch
  <2>4. /\ \A x \in Streams \ {s} : strm'[x] = strm[x]
        /\ strm'[s].st \in {"CLO", "ASS", "REQ"} /\ ~strm'[s].curr
        /\ strm'[s].st = "ASS" => RetrySameServer(s)
        /\ strm'[s].target = strm[s].target /\ strm'[s].srv_conn = strm[s].srv_conn
    <3>1. CASE EndOfStream(s)
      BY <1>a, <3>1 DEF EndOfStream, LeaveServer, StrmTypes, Stream
    <3>2. CASE RetrySameServer(s)
      <4>1. /\ strm[s].retries \in Nat
            /\ strm' = [strm EXCEPT ![s] = [strm[s] EXCEPT !.st = "ASS", !.curr = FALSE,
                                                       !.retries = strm[s].retries + 1]]
        BY <1>a, <3>2 DEF RetrySameServer, LeaveServer, StrmTypes, Stream
      <4> QED BY <1>a, <3>2, <4>1 DEF StrmTypes, Stream
    <3>3. CASE Redispatch(s)
      <4>1. /\ strm[s].retries \in Nat
            /\ strm' = [strm EXCEPT ![s] = [strm[s] EXCEPT !.st = "REQ", !.curr = FALSE,
                 !.retries = strm[s].retries + 1, !.assigned = FALSE, !.direct = FALSE]]
        BY <1>a, <3>3 DEF Redispatch, LeaveServer, StrmTypes, Stream
      <4> QED BY <1>a, <4>1 DEF StrmTypes, Stream
    <3> QED BY Zenon, <1>9, <3>1, <3>2, <3>3
  <2>5. pend[s] = NULL /\ strm[s].target # NULL /\ strm[s].srv_conn = strm[s].target
    BY Zenon, <1>a, <2>1 DEF ConnectOK, StreamOK
  <2> QED BY Zenon, <1>b, <2>1, <2>2, <2>4, <2>5, ConnectFree DEF ReadyLabels
<1>10. ASSUME DetachSlot(s) PROVE Mine(s) /\ ConnectOK(s)'
  <2>1. /\ UNCHANGED <<tree, pend>> /\ OthersWait(s) /\ pc[s] = "detach" /\ pc'[s] = "drop"
        /\ strm' = [strm EXCEPT ![s].srv_conn = NULL]
    BY Zenon, <1>10, <1>a DEF DetachSlot, Goto, OthersWait, ProcTypes, links
  <2>2. /\ \A x \in Streams \ {s} : strm'[x] = strm[x]
        /\ strm'[s].st = strm[s].st /\ strm'[s].curr = strm[s].curr
        /\ strm'[s].target = strm[s].target
    BY <1>a, <2>1 DEF StrmTypes, Stream
  <2>3. strm[s].st \notin {"ASS", "CON"} /\ ~strm[s].curr
    BY Zenon, <1>a, <2>1 DEF ConnectOK
  <2>4. ~(pend[s] # NULL /\ strm[s].st \in {"REQ", "QUE"})
    BY Zenon, <1>a, <2>1 DEF StreamOK, ConnectOK
  <2>5. ConnectOK(s)'
    BY Zenon, <2>1, <2>2, <2>3, <2>4 DEF ConnectOK, ReadyLabels
  <2> QED BY Zenon, <1>b, <2>1, <2>2, <2>5
<1>11. ASSUME StreamFree(s) \/ FreeUnlinked(s) PROVE Mine(s) /\ ConnectOK(s)'
  <2>1. UNCHANGED <<tree, strm>> /\ strm[s].st = "CLO" /\ pc[s] \in {"idle", "freed"}
    BY Zenon, <1>11, <1>a DEF StreamFree, FreeUnlinked, StreamOK, links
  <2>2. /\ OthersWait(s) /\ pc'[s] \in {"unlink", "loop", "free_slot"}
        /\ \A x \in Streams \ {s} : pend'[x] = pend[x]
    <3>1. CASE FreeEntry(s)
      BY Zenon, <1>a, <3>1, CallControl DEF FreeEntry, StrmTypes
    <3>2. CASE Goto(s, "unlink") /\ th' = [th EXCEPT ![s].ret = "freed"] /\ UNCHANGED pend
      BY Zenon, <1>a, <3>2 DEF Goto, OthersWait, ProcTypes
    <3> QED BY Zenon, <1>11, <3>1, <3>2 DEF StreamFree, FreeUnlinked
  <2>3. ~strm[s].curr
    BY Zenon, <1>a, <2>1 DEF ConnectOK
  <2> QED BY Zenon, <1>b, <2>1, <2>2, <2>3, ConnectFree DEF ReadyLabels
<1>12. ASSUME Gone(s) PROVE Mine(s) /\ ConnectOK(s)'
  <2>1. /\ UNCHANGED <<tree, pend>> /\ OthersWait(s) /\ pc'[s] = "idle"
        /\ strm' = [strm EXCEPT ![s] = [NewStream EXCEPT !.st = "GONE", !.srv_conn = strm[s].srv_conn]]
    BY Zenon, <1>12, <1>a DEF Gone, Goto, OthersWait, ProcTypes, links
  <2>2. /\ \A x \in Streams \ {s} : strm'[x] = strm[x]
        /\ strm'[s].st = "GONE" /\ ~strm'[s].curr
    BY <1>a, <2>1 DEF StrmTypes, NewStream
  <2> QED BY Zenon, <1>b, <2>1, <2>2, ConnectFree DEF ReadyLabels
<1> QED BY ZenonT(30), <1>1, <1>2, <1>3, <1>4, <1>5, <1>6, <1>7, <1>8, <1>9, <1>10, <1>11, <1>12, ConnectMine

(* A pending stream knows its queue, and taking one entry out of a queue   *)
(* leaves the others linked.                                               *)
LEMMA OwnQueue ==
  ASSUME TypeOK, NEW s \in Streams, pend[s] # NULL
  PROVE  QueueOf(s) \in Queues /\ tree[QueueOf(s)] \in Seq(Streams)
<1>1. pend[s] \in Entry /\ Group[s] \in Groups
  BY Zenon, QueueAssumption DEF TypeOK, StrmTypes, Procs
<1>2. pend[s].owner \in Owners
  BY <1>1 DEF Entry
<1> QED BY Zenon, <1>1, <1>2 DEF QueueOf, Queues, TypeOK, LinkTypes

(* To unlink one entry, as pendconn_unlink() does, leaves the others in    *)
(* their queues.                                                           *)
LEMMA OthersLinked ==
  ASSUME TypeOK, Control, NEW q \in Queues, NEW s \in Streams,
         tree' = [tree EXCEPT ![q] = Without(@, s)]
  PROVE  \A x \in Streams \ {s} : Linked(x) => Linked(x)'
<1>1. tree[q] \in Seq(Streams) /\ Distinct(tree[q])
  BY Zenon DEF TypeOK, LinkTypes, Control, QueuesOK
<1>2. tree'[q] = Without(tree[q], s) /\ \A r \in Queues \ {q} : tree'[r] = tree[r]
  BY Zenon DEF TypeOK, LinkTypes
<1>3. \A x : InSeq(x, Without(tree[q], s)) <=> InSeq(x, tree[q]) /\ x # s
  BY Zenon, <1>1, WithoutSeq
<1> QED BY Zenon, <1>2, <1>3 DEF Linked

(* Steps of a stream that gets, keeps or loses its queue entry. *)
LEMMA QueueConnect ==
  ASSUME TypeOK, Control, NEW s \in Streams, \A x \in Streams : ConnectOK(x)
  PROVE  (\/ pendconn_add(s) \/ InsertEntry(s) \/ CountPending(s) \/ UnqueueSelf(s)
          \/ StillQueued(s) \/ pendconn_unlink(s) \/ connect_server(s))
         => \A x \in Streams : ConnectOK(x)'
<1> USE DEF TypeOK, Control
<1>a. /\ s \in Procs /\ ControlOK(s) /\ StreamOK(s) /\ FreeOK(s) /\ LinkOK(s) /\ ConnectOK(s) /\ ProcTypes
      /\ th[s] \in Locals /\ strm[s] \in Stream /\ strm[s].target \in NServer
      /\ strm[s].srv_conn \in NServer /\ strm[s].assigned \in BOOLEAN
  BY Zenon DEF ProcsOK, StreamsOK, Procs, ProcTypes, StrmTypes, Stream, Locals
<1>b. ASSUME UNCHANGED tree, OthersWait(s), \A x \in Streams \ {s} : strm'[x] = strm[x],
             \A x \in Streams \ {s} : pend'[x] = pend[x]
      PROVE  Mine(s)
  BY Zenon, <1>b DEF Mine, Linked
<1>c. NULL \notin Servers \cup {Px} \cup Entry /\ Px \notin Servers
  BY Zenon, QueueAssumption
<1>1. ASSUME pendconn_add(s) PROVE Mine(s) /\ ConnectOK(s)'
  <2> DEFINE o == IF strm[s].assigned THEN strm[s].target ELSE Px
  <2> DEFINE e == [owner |-> o, assigned |-> strm[s].assigned, direct |-> strm[s].direct, target |-> NULL]
  <2>1. /\ UNCHANGED <<tree, strm>> /\ OthersWait(s) /\ pc[s] = "enqueue" /\ pc'[s] = "insert"
        /\ pend' = [pend EXCEPT ![s] = e]
    BY Zenon, <1>1, <1>a DEF pendconn_add, Goto, OthersWait, ProcTypes, links
  <2>2. pend'[s] = e /\ \A x \in Streams \ {s} : pend'[x] = pend[x]
    BY Zenon, <1>a, <2>1 DEF StrmTypes
  <2>3. e.target = NULL /\ e.assigned = strm[s].assigned /\ e.owner = o
    OBVIOUS
  <2>4. strm[s].assigned => o # Px
    BY Zenon, <1>a, <1>c DEF StreamOK
  <2>5. strm[s].st = "REQ" /\ ~strm[s].curr
    BY Zenon, <1>a, <2>1 DEF StreamOK, ConnectOK
  <2> HIDE DEF e, o
  <2>6. ConnectOK(s)'
    BY Zenon, <2>1, <2>2, <2>3, <2>4, <2>5 DEF ConnectOK, ReadyLabels
  <2> QED BY Zenon, <1>b, <2>1, <2>2, <2>6
<1>2. ASSUME InsertEntry(s) PROVE Mine(s) /\ ConnectOK(s)'
  <2> DEFINE q == QueueOf(s)
  <2>1. /\ UNCHANGED <<strm, pend>> /\ OthersWait(s) /\ pc[s] = "insert" /\ pc'[s] = "added"
        /\ tree' = [tree EXCEPT ![q] = Insert(tree[q], s)]
    BY Zenon, <1>2, <1>a DEF InsertEntry, Goto, OthersWait, ProcTypes, strms
  <2>2. q \in Queues /\ tree[q] \in Seq(Streams)
    <3>1. pend[s] # NULL
      BY Zenon, <1>a, <2>1 DEF StreamOK
    <3> QED BY Zenon, <3>1, OwnQueue
  <2>3. \A x : InSeq(x, Insert(tree[q], s)) <=> x = s \/ InSeq(x, tree[q])
    BY Zenon, <2>2, InsertSeq
  <2> HIDE DEF q
  <2>4. tree'[q] = Insert(tree[q], s) /\ \A r \in Queues \ {q} : tree'[r] = tree[r]
    BY Zenon, <2>1, <2>2 DEF LinkTypes
  <2>5. \A x \in Streams : Linked(x) => Linked(x)'
    BY Zenon, <2>3, <2>4 DEF Linked
  <2>6. Linked(s)'
    BY Zenon, <2>2, <2>3, <2>4 DEF Linked
  <2>7. strm[s].st = "REQ"
    BY Zenon, <1>a, <2>1 DEF StreamOK
  <2>8. ConnectOK(s)'
    BY Zenon, <1>a, <2>1, <2>6, <2>7 DEF ConnectOK, ReadyLabels
  <2> QED BY Zenon, <2>1, <2>5, <2>8 DEF Mine
<1>3. ASSUME CountPending(s) PROVE Mine(s) /\ ConnectOK(s)'
  <2>1. /\ UNCHANGED <<tree, pend>> /\ pc[s] = "added" /\ strm' = [strm EXCEPT ![s].st = "QUE"]
    BY Zenon, <1>3 DEF CountPending, links
  <2>2. OthersWait(s) /\ pc'[s] \in {"ready", "loop", "idle"} /\ (pc'[s] = "ready" => pend[s].owner = Px)
    <3>1. CASE pend[s].owner = Px
      BY Zenon, <1>3, <1>a, <3>1 DEF CountPending, Goto, OthersWait, ProcTypes
    <3>2. CASE pend[s].owner # Px
      <4>1. pend[s] \in Entry
        BY Zenon, <1>a, <2>1 DEF StreamOK, StrmTypes
      <4>2. pend[s].owner \in NServer
        BY <3>2, <4>1 DEF Entry, Owners, NServer
      <4> QED BY Zenon, <1>3, <1>a, <3>2, <4>2, CallControl DEF CountPending
    <3> QED BY Zenon, <3>1, <3>2
  <2>3. /\ \A x \in Streams \ {s} : strm'[x] = strm[x]
        /\ strm'[s].st = "QUE" /\ strm'[s].curr = strm[s].curr /\ strm'[s].srv_conn = strm[s].srv_conn
        /\ strm'[s].target = strm[s].target
    BY <1>a, <2>1 DEF StrmTypes, Stream
  <2>4. ~strm[s].curr /\ strm[s].st = "REQ" /\ pend[s] # NULL
    BY Zenon, <1>a, <2>1 DEF StreamOK, ConnectOK
  <2>5. Linked(s)' <=> Linked(s)
    BY Zenon, <2>1 DEF Linked
  <2>6. ConnectOK(s)'
    BY Zenon, <1>a, <2>1, <2>2, <2>3, <2>4, <2>5 DEF ConnectOK, ReadyLabels
  <2> QED BY Zenon, <1>b, <2>1, <2>2, <2>3, <2>6
<1>4. ASSUME UnqueueSelf(s) PROVE Mine(s) /\ ConnectOK(s)'
  <2>1. /\ UNCHANGED <<strm, pend>> /\ OthersWait(s) /\ pc[s] = "rdy_lock" /\ pc'[s] \in ReadyLabels
        /\ tree' = [tree EXCEPT ![QueueOf(s)] = Without(@, s)]
    BY Zenon, <1>4, <1>a DEF UnqueueSelf, Goto, OthersWait, ProcTypes, strms, ReadyLabels
  <2>2. pend[s] # NULL /\ strm[s].st = "QUE"
    BY Zenon, <1>a, <2>1 DEF StreamOK, ReadyLabels
  <2>3. \A x \in Streams \ {s} : Linked(x) => Linked(x)'
    BY Zenon, <2>1, <2>2, OwnQueue, OthersLinked
  <2>4. pend[s].owner = Px /\ ~strm[s].curr
    BY Zenon, <1>a, <2>1, <2>2 DEF ConnectOK, ReadyLabels
  <2>5. pc'[s] # "detach" /\ pc'[s] # "insert"
    BY Zenon, <2>1 DEF ReadyLabels
  <2>6. ConnectOK(s)'
    BY Zenon, <1>a, <2>1, <2>2, <2>4, <2>5 DEF ConnectOK
  <2> QED BY Zenon, <2>1, <2>3, <2>6 DEF Mine
<1>5. ASSUME StillQueued(s) PROVE Mine(s) /\ ConnectOK(s)'
  <2>1. /\ UNCHANGED <<tree, pend>> /\ OthersWait(s) /\ pc[s] = "still" /\ pc'[s] \in {"unlink", "idle"}
        /\ \/ UNCHANGED strm
           \/ strm' = [strm EXCEPT ![s].st = "CLO"]
    BY Zenon, <1>5, <1>a DEF StillQueued, Goto, OthersWait, ProcTypes, links
  <2>2. /\ \A x \in Streams \ {s} : strm'[x] = strm[x]
        /\ strm'[s].st \in {strm[s].st, "CLO"} /\ strm'[s].curr = strm[s].curr
        /\ strm'[s].srv_conn = strm[s].srv_conn
    BY <1>a, <2>1 DEF StrmTypes, Stream
  <2>3. strm[s].st = "QUE" /\ ~strm[s].curr
    BY Zenon, <1>a, <2>1 DEF StreamOK, ConnectOK
  <2>4. Linked(s)' <=> Linked(s)
    BY Zenon, <2>1 DEF Linked
  <2>5. ConnectOK(s)'
    BY Zenon, <1>a, <2>1, <2>2, <2>3, <2>4 DEF ConnectOK, ReadyLabels
  <2> QED BY Zenon, <1>b, <2>1, <2>2, <2>5
<1>6. ASSUME pendconn_unlink(s) PROVE Mine(s) /\ ConnectOK(s)'
  <2>1. /\ UNCHANGED <<strm, pend>> /\ OthersWait(s) /\ pc[s] = "unlink" /\ pc'[s] = "unlinked"
        /\ tree' = [tree EXCEPT ![QueueOf(s)] = Without(@, s)]
    BY Zenon, <1>6, <1>a DEF pendconn_unlink, Goto, OthersWait, ProcTypes, strms
  <2>2. pend[s] # NULL /\ strm[s].st = "CLO"
    BY Zenon, <1>a, <2>1 DEF StreamOK
  <2>3. \A x \in Streams \ {s} : Linked(x) => Linked(x)'
    BY Zenon, <2>1, <2>2, OwnQueue, OthersLinked
  <2>4. ~strm[s].curr
    BY Zenon, <1>a, <2>2 DEF ConnectOK
  <2> QED BY Zenon, <2>1, <2>2, <2>3, <2>4, ConnectFree DEF Mine, ReadyLabels
<1>7. ASSUME connect_server(s) PROVE Mine(s) /\ ConnectOK(s)'
  <2>1. /\ UNCHANGED <<tree, pend, pc>> /\ OthersWait(s) /\ strm[s].st = "ASS" /\ pc[s] = "idle"
        /\ strm' = [strm EXCEPT ![s].st = "CON", ![s].curr = TRUE]
    BY Zenon, <1>7 DEF connect_server, OthersWait, links
  <2>2. /\ \A x \in Streams \ {s} : strm'[x] = strm[x]
        /\ strm'[s].st = "CON" /\ strm'[s].target = strm[s].target
        /\ strm'[s].srv_conn = strm[s].srv_conn
    BY <1>a, <2>1 DEF StrmTypes, Stream
  <2>3. strm[s].target # NULL /\ strm[s].srv_conn = strm[s].target
    BY Zenon, <1>a, <2>1 DEF ConnectOK
  <2>4. ConnectOK(s)'
    BY Zenon, <2>1, <2>2, <2>3 DEF ConnectOK, ReadyLabels
  <2> QED BY Zenon, <1>b, <2>1, <2>2, <2>4
<1> QED BY ZenonT(30), <1>1, <1>2, <1>3, <1>4, <1>5, <1>6, <1>7, ConnectMine

(* The steps that touch no stream, entry or tree. *)
LEMMA QuietConnect ==
  ASSUME TypeOK, Control, \A x \in Streams : ConnectOK(x)
  PROVE  /\ \A s \in Streams :
              \/ GrabReady(s) \/ TakeReadySlot(s) \/ GiveReadyBack(s) \/ pendconn_dequeue(s)
              \/ CountUnlinked(s) \/ DropSlot(s) \/ MayDequeue(s) \/ FreeSlot(s)
              => \A x \in Streams : ConnectOK(x)'
         /\ \A p \in Procs :
              \/ LoopHead(p) \/ TakeTurn(p) \/ LockServerQueue(p) \/ InnerLoop(p) \/ PeekQueues(p)
              \/ ReserveSlot(p) \/ CountDequeued(p) \/ UnlockServerQueue(p) \/ Account(p)
              \/ CheckIdle(p) \/ SetReady(p) \/ RetryGroup(p) \/ RetryAccount(p) \/ NextGroup(p)
              => \A x \in Streams : ConnectOK(x)'
<1> USE DEF TypeOK, Control
<1>1. ASSUME NEW s \in Streams,
             \/ GrabReady(s) \/ TakeReadySlot(s) \/ GiveReadyBack(s) \/ pendconn_dequeue(s)
             \/ CountUnlinked(s) \/ DropSlot(s) \/ MayDequeue(s) \/ FreeSlot(s)
      PROVE  \A x \in Streams : ConnectOK(x)'
  <2>a. /\ s \in Procs /\ ControlOK(s) /\ StreamOK(s) /\ FreeOK(s) /\ ConnectOK(s) /\ ProcTypes
        /\ th[s] \in Locals /\ th[s].srv \in NServer /\ strm[s].srv_conn \in NServer
    BY Zenon DEF ProcsOK, StreamsOK, Procs, ProcTypes, Locals, StrmTypes, Stream
  <2>1. UNCHANGED <<strm, pend, tree>>
    BY Zenon, <1>1 DEF GrabReady, TakeReadySlot, GiveReadyBack, pendconn_dequeue, CountUnlinked,
                 DropSlot, MayDequeue, FreeSlot, strms, links
  <2>2. CASE GrabReady(s) \/ TakeReadySlot(s) \/ GiveReadyBack(s)
    <3>1. /\ OthersWait(s) /\ pc[s] \in ReadyLabels \cup {"ready"}
          /\ pc'[s] \in {"idle", "rdy_cas", "rdy_lock"}
      BY Zenon, <2>2, <2>a DEF GrabReady, TakeReadySlot, GiveReadyBack, Goto, OthersWait, ProcTypes, ReadyLabels
    <3>2. strm[s].st = "QUE"
      BY Zenon, <2>a, <3>1 DEF StreamOK
    <3> QED BY Zenon, <2>a, <2>1, <3>1, <3>2, ConnectKept DEF ReadyLabels
  <2>3. CASE pendconn_dequeue(s)
    <3>1. /\ OthersWait(s) /\ pc[s] = "idle" /\ pc'[s] \in {"still", "out"} /\ strm[s].st = "QUE"
      BY Zenon, <2>3, <2>a DEF pendconn_dequeue, Goto, OthersWait, ProcTypes
    <3> QED BY Zenon, <2>a, <2>1, <3>1, ConnectKept DEF ReadyLabels
  <2>4. CASE CountUnlinked(s) \/ DropSlot(s)
    <3>1. OthersWait(s) /\ pc[s] \in {"unlinked", "drop"} /\ pc'[s] \in {th[s].ret, "dequeue"}
      BY Zenon, <2>4, <2>a DEF CountUnlinked, DropSlot, Goto, OthersWait, ProcTypes
    <3>2. strm[s].st \notin {"ASS", "CON"} /\ pc'[s] \in {"idle", "free_slot", "gone", "freed", "dequeue"}
      BY Zenon, <2>a, <3>1 DEF ConnectOK, ControlOK
    <3> QED BY Zenon, <2>a, <2>1, <3>1, <3>2, ConnectKept DEF ReadyLabels
  <2>5. CASE MayDequeue(s)
    <3>1. pc[s] = "dequeue" /\ th[s].ret \in {"idle", "free_slot", "gone"}
      BY Zenon, <2>5, <2>a DEF MayDequeue, ControlOK
    <3>2. OthersWait(s) /\ pc'[s] \in {"loop", th[s].ret}
      BY Zenon, <2>5, <2>a, <3>1, CallControl DEF MayDequeue
    <3>3. strm[s].st \notin {"ASS", "CON"} /\ pc'[s] \in {"idle", "free_slot", "gone", "loop"}
      BY Zenon, <2>a, <3>1, <3>2 DEF ConnectOK
    <3> QED BY Zenon, <2>a, <2>1, <3>1, <3>2, <3>3, ConnectKept DEF ReadyLabels
  <2>6. CASE FreeSlot(s)
    <3>1. pc[s] = "free_slot" /\ Release(s, strm[s].srv_conn, "gone")
      BY Zenon, <2>6 DEF FreeSlot
    <3>2. "gone" \in {"idle", "free_slot", "gone"}
      BY Zenon
    <3>3. OthersWait(s) /\ pc'[s] \in {"detach", "loop", "gone"}
      BY Zenon, <2>a, <3>1, <3>2, ReleaseControl
    <3>4. strm[s].st = "CLO"
      BY Zenon, <2>a, <3>1 DEF FreeOK, Freeing
    <3> QED BY Zenon, <2>a, <2>1, <3>1, <3>3, <3>4, ConnectKept DEF ReadyLabels
  <2> QED BY Zenon, <1>1, <2>2, <2>3, <2>4, <2>5, <2>6
<1>2. ASSUME NEW p \in Procs,
             \/ LoopHead(p) \/ TakeTurn(p) \/ LockServerQueue(p) \/ InnerLoop(p) \/ PeekQueues(p)
             \/ ReserveSlot(p) \/ CountDequeued(p) \/ UnlockServerQueue(p) \/ Account(p)
             \/ CheckIdle(p) \/ SetReady(p) \/ RetryGroup(p) \/ RetryAccount(p) \/ NextGroup(p)
      PROVE  \A x \in Streams : ConnectOK(x)'
  <2>a. ProcTypes /\ ControlOK(p)
    BY Zenon DEF ProcsOK
  <2>1. UNCHANGED <<strm, pend, tree>>
    BY Zenon, <1>2 DEF LoopHead, TakeTurn, LockServerQueue, InnerLoop, PeekQueues, ReserveSlot,
                 CountDequeued, UnlockServerQueue, Account, CheckIdle, SetReady, RetryGroup,
                 RetryAccount, NextGroup, strms, links
  <2>2. OthersWait(p) /\ pc[p] \in Dequeuing /\ pc'[p] \in Dequeuing \cup {th[p].ret}
    <3>1. CASE LoopHead(p) \/ TakeTurn(p) \/ LockServerQueue(p) \/ InnerLoop(p)
      BY Zenon, <2>a, <3>1 DEF LoopHead, TakeTurn, LockServerQueue, InnerLoop, Goto, OthersWait,
                         ProcTypes, Dequeuing, Locked
    <3>2. CASE PeekQueues(p) \/ ReserveSlot(p)
      BY Zenon, <2>a, <3>2 DEF PeekQueues, ReserveSlot, NothingDone, Goto, OthersWait,
                         ProcTypes, Dequeuing, Locked
    <3>3. CASE CountDequeued(p) \/ UnlockServerQueue(p) \/ Account(p)
      BY Zenon, <2>a, <3>3 DEF CountDequeued, UnlockServerQueue, Account, Goto, OthersWait,
                         ProcTypes, Dequeuing, Locked
    <3>4. CASE CheckIdle(p) \/ SetReady(p) \/ RetryGroup(p) \/ RetryAccount(p) \/ NextGroup(p)
      BY Zenon, <2>a, <3>4 DEF CheckIdle, SetReady, RetryGroup, RetryAccount, NextGroup, Return,
                         Goto, OthersWait, ProcTypes, Dequeuing, Locked
    <3> QED BY Zenon, <1>2, <3>1, <3>2, <3>3, <3>4
  <2>3. /\ pc[p] \notin {"idle", "insert"}
        /\ pc'[p] \notin ReadyLabels \cup {"ready", "detach"}
    BY Zenon, <2>a, <2>2 DEF ControlOK, Dequeuing, Locked, ReadyLabels
  <2>4. p \in Streams => strm[p].st \notin {"ASS", "CON"}
    BY Zenon, <2>3 DEF ConnectOK
  <2> QED BY Zenon, <2>1, <2>2, <2>3, <2>4, ConnectKept
<1> QED BY Zenon, <1>1, <1>2

(* The dequeuer p unlinks entry e or tells its stream. *)
LEMMA ConnectEntry ==
  ASSUME NEW p \in Procs, NEW e \in Streams, OthersWait(p), pc[p] \in {"pick", "tell"},
         pc'[p] \in {"count_px", "count_srv", "tell"}, \A x \in Streams : ConnectOK(x),
         \A x \in Streams \ {e} : strm'[x] = strm[x] /\ pend'[x] = pend[x],
         \A x \in Streams \ {e} : Linked(x) => Linked(x)',
         ConnectOK(e)'
  PROVE  \A x \in Streams : ConnectOK(x)'
<1> SUFFICES ASSUME NEW x \in Streams \ {e} PROVE ConnectOK(x)'
  BY Zenon
<1>1. /\ ConnectOK(x) /\ (Linked(x) => Linked(x)')
      /\ strm'[x] = strm[x] /\ pend'[x] = pend[x]
  BY Zenon
<1>2. CASE x = p
  BY Zenon, <1>1, <1>2 DEF ConnectOK, ReadyLabels
<1>3. CASE x # p
  BY Zenon, <1>1, <1>3 DEF ConnectOK, OthersWait, Procs
<1> QED BY Zenon, <1>2, <1>3

(* A dequeued entry names the server whose slot its stream owns, and an    *)
(* entry of the backend's queue is not assigned before it is told.         *)
LEMMA DequeueConnect ==
  ASSUME TypeOK, Control, NEW p \in Procs, \A x \in Streams : ConnectOK(x)
  PROVE  UseServerEntry(p) \/ UseProxyEntry(p) \/ TellProxyEntry(p)
         => \A x \in Streams : ConnectOK(x)'
<1> USE DEF TypeOK, Control
<1>a. /\ ControlOK(p) /\ LockOK(p) /\ EntryOK(p) /\ th[p] \in Locals /\ ProcTypes /\ p # NULL
      /\ PxQueue(p) \in Queues /\ (pc[p] \in Dequeuing => SrvQueue(p) \in Queues)
  BY Zenon, OwnQueues, QueueAssumption DEF ProcsOK, ProcTypes, Procs
<1>b. NULL \notin Servers \cup Streams \cup {Px} \cup Entry
  BY Zenon, QueueAssumption
<1>1. ASSUME NEW e \in Streams, th[p].srv \in Servers, OthersWait(p), pc[p] \in {"pick", "tell"},
             pc'[p] \in {"count_px", "count_srv"},
             pend' = Assign(e, th[p].srv), strm' = [strm EXCEPT ![e].srv_conn = th[p].srv],
             \A x \in Streams \ {e} : Linked(x) => Linked(x)',
             Waits(e, InQueue \cup {"rdy_undo", "out"})
      PROVE  \A x \in Streams : ConnectOK(x)'
  <2>1. /\ strm[e] \in Stream /\ pend[e] \in Entry /\ pend[e] # NULL /\ ConnectOK(e) /\ StreamOK(e)
    BY Zenon, <1>1 DEF StrmTypes, Waits, StreamsOK
  <2>2. /\ \A x \in Streams \ {e} : strm'[x] = strm[x] /\ pend'[x] = pend[x]
        /\ strm'[e].srv_conn = th[p].srv /\ strm'[e].st = strm[e].st /\ strm'[e].curr = strm[e].curr
        /\ pend'[e].target = th[p].srv /\ pend'[e].owner = pend[e].owner
    BY <1>1, <2>1 DEF StrmTypes, Stream, Entry, Assign
  <2>3. strm[e].st \notin {"ASS", "CON"} /\ ~strm[e].curr
    BY Zenon, <1>1, <2>1 DEF Waits, StreamOK, ConnectOK
  <2>4. e = p \/ pc'[e] = pc[e]
    BY Zenon, <1>1 DEF OthersWait, Procs
  <2>5. ConnectOK(e)'
    BY Zenon, <1>1, <1>b, <2>1, <2>2, <2>3, <2>4 DEF ConnectOK, ReadyLabels
  <2> QED BY Zenon, <1>1, <2>2, <2>5, ConnectEntry
<1>2. ASSUME UseServerEntry(p) PROVE \A x \in Streams : ConnectOK(x)'
  <2> DEFINE e == th[p].p
  <2>1. /\ pc[p] = "pick" /\ pc'[p] = "count_srv" /\ OthersWait(p)
        /\ pend' = Assign(e, th[p].srv) /\ strm' = [strm EXCEPT ![e].srv_conn = th[p].srv]
        /\ tree' = [tree EXCEPT ![SrvQueue(p)] = Without(@, e)]
    BY Zenon, <1>2, <1>a DEF UseServerEntry, Goto, OthersWait, ProcTypes
  <2>2. e # NULL
    BY Zenon, <1>2, <1>a DEF UseServerEntry, UsePp, ControlOK
  <2>3. e \in Streams /\ th[p].srv \in Servers /\ SrvQueue(p) \in Queues
    BY Zenon, <1>a, <2>1, <2>2 DEF Locals, ControlOK, Dequeuing, Locked
  <2>4. InSeq(e, tree[SrvQueue(p)])
    BY Zenon, <1>a, <2>2 DEF EntryOK
  <2>5. Waits(e, InQueue)
    BY Zenon, <2>3, <2>4 DEF StreamsOK, LinkOK, Linked
  <2>6. Waits(e, InQueue \cup {"rdy_undo", "out"})
    BY Zenon, <2>5 DEF Waits
  <2> HIDE DEF e
  <2>7. \A x \in Streams \ {e} : Linked(x) => Linked(x)'
    BY Zenon, <2>1, <2>3, OthersLinked
  <2> QED BY Zenon, <1>1, <2>1, <2>3, <2>6, <2>7
<1>3. ASSUME TellProxyEntry(p) PROVE \A x \in Streams : ConnectOK(x)'
  <2> DEFINE e == th[p].pp
  <2>1. /\ pc[p] = "tell" /\ pc'[p] = "count_px" /\ OthersWait(p) /\ UNCHANGED tree
        /\ pend' = Assign(e, th[p].srv) /\ strm' = [strm EXCEPT ![e].srv_conn = th[p].srv]
    BY Zenon, <1>3, <1>a DEF TellProxyEntry, Goto, OthersWait, ProcTypes
  <2>2. e \in Streams /\ th[p].srv \in Servers /\ del_lock[e] = p
    BY Zenon, <1>a, <2>1 DEF Locals, ControlOK, LockOK, Dequeuing, Locked
  <2>3. Waits(e, InQueue \cup {"rdy_undo", "out"})
    BY Zenon, <1>a, <2>2 DEF StreamsOK, LinkOK
  <2> HIDE DEF e
  <2>4. \A x \in Streams \ {e} : Linked(x) => Linked(x)'
    BY Zenon, <2>1 DEF Linked
  <2> QED BY Zenon, <1>1, <2>1, <2>2, <2>3, <2>4
<1>4. ASSUME UseProxyEntry(p) PROVE \A x \in Streams : ConnectOK(x)'
  <2>0. th[p].pp \in Streams
    BY Zenon, <1>4, <1>a DEF UseProxyEntry, UsePp, Locals
  <2> SUFFICES ASSUME NEW e \in Streams, e = th[p].pp PROVE \A x \in Streams : ConnectOK(x)'
    BY Zenon, <2>0
  <2>1. /\ pc[p] = "pick" /\ pc'[p] = "tell" /\ OthersWait(p) /\ UNCHANGED <<strm, pend>>
        /\ e # NULL /\ tree' = [tree EXCEPT ![PxQueue(p)] = Without(@, e)]
    BY Zenon, <1>4, <1>a DEF UseProxyEntry, UsePp, Goto, OthersWait, ProcTypes, strms
  <2>2. InSeq(e, tree[PxQueue(p)])
    BY Zenon, <1>a, <2>1 DEF Locals, EntryOK
  <2>3. /\ Waits(e, InQueue) /\ QueueOf(e) = PxQueue(p)
    BY Zenon, <1>a, <2>2 DEF StreamsOK, LinkOK, Linked
  <2>4. pend[e].owner = Px /\ pend[e] # NULL /\ pend[e].target = NULL /\ ConnectOK(e) /\ StreamOK(e)
    BY Zenon, <2>2, <2>3 DEF QueueOf, PxQueue, Waits, StreamsOK
  <2>5. strm[e].st \notin {"ASS", "CON"}
    BY Zenon, <2>3, <2>4 DEF Waits, StreamOK
  <2>6. e = p \/ pc'[e] = pc[e]
    BY Zenon, <2>1, <2>2 DEF OthersWait, Procs
  <2>7. \A x \in Streams \ {e} : Linked(x) => Linked(x)'
    BY Zenon, <1>a, <2>1, <2>2, OthersLinked
  <2>8. strm[e].st \in {"REQ", "QUE"} => ~pend[e].assigned
    BY Zenon, <2>4 DEF ConnectOK
  <2>9. pc'[e] \notin {"detach"} \cup ReadyLabels \cup {"ready"} \/ pc'[e] = pc[e]
    BY Zenon, <2>1, <2>6 DEF ReadyLabels
  <2>10. ConnectOK(e)'
    BY ZenonT(30), <2>1, <2>4, <2>5, <2>8, <2>9 DEF ConnectOK
  <2>11. \A x \in Streams \ {e} : strm'[x] = strm[x] /\ pend'[x] = pend[x]
    BY Zenon, <2>1
  <2>12. pc[p] \in {"pick", "tell"} /\ pc'[p] \in {"count_px", "count_srv", "tell"} /\ OthersWait(p)
    BY Zenon, <2>1
  <2> QED BY Zenon, <2>2, <2>7, <2>10, <2>11, <2>12, ConnectEntry
<1> QED BY Zenon, <1>2, <1>3, <1>4

(* pendconn_redistribute() takes SF_ASSIGNED back from what it unlinks,    *)
(* unless option redispatch is set.                                        *)
LEMMA AdminConnect ==
  ASSUME TypeOK, Control, Undisturbed, \A x \in Streams : ConnectOK(x)
  PROVE  /\ \/ RedistributeGroup \/ RedistributeLength \/ CountRedistributed
            \/ RedistributeProxy \/ ClearReady
            => \A x \in Streams : ConnectOK(x)'
         /\ \A v \in Servers : ServerDown(v) \/ ServerUp(v) => \A x \in Streams : ConnectOK(x)'
<1> USE DEF TypeOK, Control
<1>a. ProcTypes /\ Admin \in Procs /\ Admin \notin Streams /\ ControlOK(Admin) /\ th[Admin] \in Locals
  BY Zenon, QueueAssumption DEF Procs, ProcsOK, ProcTypes
<1>1. ASSUME RedistributeLength \/ CountRedistributed \/ RedistributeProxy \/ ClearReady
      PROVE  \A x \in Streams : ConnectOK(x)'
  <2>1. UNCHANGED <<strm, pend, tree>> /\ OthersWait(Admin)
    BY Zenon, <1>1, <1>a DEF RedistributeLength, CountRedistributed, RedistributeProxy, ClearReady,
                       Goto, OthersWait, ProcTypes, strms, links
  <2> QED BY Zenon, <1>a, <2>1, ConnectKept
<1>2. ASSUME NEW v \in Servers, ServerDown(v) \/ ServerUp(v) PROVE \A x \in Streams : ConnectOK(x)'
  <2>1. UNCHANGED <<strm, pend, tree>> /\ OthersWait(Admin)
    BY Zenon, <1>2, <1>a DEF ServerDown, ServerUp, Goto, OthersWait, ProcTypes, strms, links
  <2> QED BY Zenon, <1>a, <2>1, ConnectKept
<1>3. ASSUME RedistributeGroup PROVE \A x \in Streams : ConnectOK(x)'
  <2> SUFFICES ASSUME NEW s \in Streams PROVE ConnectOK(s)'
    BY Zenon
  <2> DEFINE o == th[Admin].owner
             q == <<o, th[Admin].cur>>
  <2>1. /\ UNCHANGED strm /\ OthersWait(Admin) /\ tree' = [tree EXCEPT ![q] = <<>>]
        /\ pc[Admin] = "redist"
    BY Zenon, <1>3, <1>a DEF RedistributeGroup, OthersWait, Goto, ProcTypes
  <2>2. Redisp => o = Px
    BY Zenon, <2>1 DEF Undisturbed
  <2>3. q \in Queues /\ tree[q] \in Seq(Streams)
    BY Zenon, <1>a, <2>1 DEF ControlOK, Locals, Queues, LinkTypes
  <2>4. (s \in {tree[q][i] : i \in DOMAIN tree[q]}) <=> InSeq(s, tree[q])
    BY <2>3 DEF InSeq
  <2>5. pend'[s] = IF InSeq(s, tree[q]) /\ o # Px
                     THEN [pend[s] EXCEPT !.assigned = FALSE, !.direct = FALSE] ELSE pend[s]
    BY Zenon, <1>3, <2>2, <2>4 DEF RedistributeGroup
  <2>6. ConnectOK(s) /\ LinkOK(s) /\ StreamOK(s) /\ pc'[s] = pc[s]
    BY Zenon, <1>a, <2>1 DEF StreamsOK, OthersWait, Procs
  <2>7. CASE ~InSeq(s, tree[q])
    <3>1. pend'[s] = pend[s]
      BY Zenon, <2>5, <2>7
    <3>2. Linked(s) => Linked(s)'
      <4>1. \A r \in Queues \ {q} : tree'[r] = tree[r]
        BY Zenon, <2>1, <2>3 DEF LinkTypes
      <4> QED BY Zenon, <2>7, <4>1 DEF Linked
    <3> QED BY Zenon, <2>1, <2>6, <3>1, <3>2 DEF ConnectOK
  <2>8. CASE InSeq(s, tree[q])
    <3>1. Waits(s, InQueue) /\ QueueOf(s) = q
      BY Zenon, <2>3, <2>6, <2>8 DEF LinkOK, Linked
    <3>2. pend[s] \in Entry /\ pend[s] # NULL /\ pend[s].owner = o /\ pend[s].target = NULL
      BY Zenon, <3>1 DEF Waits, StrmTypes, QueueOf
    <3>3. strm[s].st \notin {"ASS", "CON"}
      BY Zenon, <2>6, <3>1 DEF Waits, StreamOK
    <3>4. pend'[s].owner = o /\ pend'[s].target = NULL
      BY <2>5, <3>2 DEF Entry
    <3>5. strm[s].st \in {"REQ", "QUE"} => ~pend'[s].assigned
      <4>1. CASE o = Px
        BY Zenon, <2>5, <2>6, <3>2, <4>1 DEF ConnectOK
      <4>2. CASE o # Px
        BY <2>5, <2>8, <3>2, <4>2 DEF Entry
      <4> QED BY Zenon, <4>1, <4>2
    <3> HIDE DEF o, q
    <3>6. pc[s] \in ReadyLabels \cup {"ready"} => o = Px
      BY Zenon, <2>6, <3>2 DEF ConnectOK
    <3> QED BY Zenon, <2>1, <2>6, <3>3, <3>4, <3>5, <3>6 DEF ConnectOK
  <2> QED BY Zenon, <2>7, <2>8
<1> QED BY Zenon, <1>1, <1>2, <1>3

-----------------------------------------------------------------------------
(* Slots are only taken below maxconn. *)
LEMMA BoundedKept ==
  ASSUME IInv, Bounded, [Next]_vars
  PROVE  Bounded'
<1>a. /\ TypeOK /\ ProcsOK /\ StreamsOK /\ \A v \in Servers : served[v] \in Int
      /\ \A v \in Servers : MaxConn[v] \in Nat \ {0}
  BY Zenon, QueueAssumption DEF IInv, TypeOK, SlotTypes
<1>b. ASSUME NEW v \in Servers, NEW n \in {1, -1}, served' = Add(served, v, n),
             n = 1 => served[v] < MaxConn[v]
      PROVE  Bounded'
  <2>1. n \in Int
    BY <1>b
  <2>2. /\ served'[v] = served[v] + n /\ \A x \in Servers \ {v} : served'[x] = served[x]
    BY Zenon, <1>a, <1>b, <2>1, AddServed
  <2>3. served[v] <= MaxConn[v] /\ served[v] \in Int /\ MaxConn[v] \in Nat
    BY Zenon, <1>a DEF Bounded
  <2>4. served'[v] <= MaxConn[v]
    BY <1>b, <2>2, <2>3
  <2> QED BY Zenon, <2>2, <2>4 DEF Bounded
<1>c. 1 \in {1, -1} /\ -1 \in {1, -1} /\ 1 # -1
  BY SMT
<1>d. ASSUME UNCHANGED served PROVE Bounded'
  BY Zenon, <1>d DEF Bounded
<1>1. ASSUME NEW s \in Streams, StreamStep(s), ~process_srv_queue(s) PROVE Bounded'
  <2>a. s \in Procs /\ ControlOK(s) /\ StreamOK(s) /\ th[s] \in Locals
    BY Zenon, <1>a DEF ProcsOK, StreamsOK, Procs, TypeOK, ProcTypes
  <2>1. CASE TakeSlot(s)
    <3>1. strm[s].target \in Servers
      BY Zenon, <2>1, <2>a DEF TakeSlot, StreamOK
    <3> QED BY Zenon, <1>b, <1>c, <1>d, <2>1, <3>1 DEF TakeSlot
  <2>2. CASE TakeReadySlot(s)
    <3>1. th[s].srv \in Servers
      BY Zenon, <2>2, <2>a DEF TakeReadySlot, ControlOK, ReadyLabels
    <3>2. served[th[s].srv] = 0 => served[th[s].srv] < MaxConn[th[s].srv]
      BY <1>a, <3>1
    <3> QED BY Zenon, <1>b, <1>c, <1>d, <2>2, <3>1, <3>2 DEF TakeReadySlot
  <2>3. CASE GiveReadyBack(s)
    <3>1. th[s].srv \in Servers
      BY Zenon, <2>3, <2>a DEF GiveReadyBack, ControlOK, ReadyLabels
    <3> QED BY Zenon, <1>b, <1>c, <2>3, <3>1 DEF GiveReadyBack
  <2>4. CASE DropSlot(s)
    <3>1. \A v \in Servers : served'[v] = IF v = th[s].owner THEN served[v] - 1 ELSE served[v]
      BY <1>a, <2>4 DEF DropSlot, Add, TypeOK, SlotTypes
    <3> QED BY <1>a, <3>1 DEF Bounded
  <2>5. CASE ~(TakeSlot(s) \/ TakeReadySlot(s) \/ GiveReadyBack(s) \/ DropSlot(s))
    <3>1. UNCHANGED served
      BY ZenonT(60), <1>1, <2>5 DEF StreamStep, assign_server_and_queue, LeaveQueue, Serve, stream_free,
         assign_server, CheckRoom, AttachSlot, pendconn_add, NoEntry, InsertEntry, CountPending, GrabReady,
         UnqueueSelf, RunOnReady, pendconn_dequeue, StillQueued, TakeResult, pendconn_unlink, CountUnlinked,
         connect_server, AbortConnection, EndOfStream, RetrySameServer, Redispatch, LeaveServer, DetachSlot,
         MayDequeue, StreamFree, FreeUnlinked, FreeSlot, Gone, slots
    <3> QED BY Zenon, <1>d, <3>1
  <2> QED BY Zenon, <2>1, <2>2, <2>3, <2>4, <2>5
<1>2. ASSUME NEW p \in Procs, process_srv_queue(p) PROVE Bounded'
  <2>1. CASE ReserveSlot(p)
    <3>1. th[p].srv \in Servers
      BY Zenon, <1>a, <2>1 DEF ReserveSlot, ProcsOK, ControlOK, Dequeuing, Locked
    <3> QED BY Zenon, <1>b, <1>c, <1>d, <2>1, <3>1 DEF ReserveSlot
  <2>2. CASE ~ReserveSlot(p)
    <3>1. UNCHANGED served
      BY Zenon, <1>2, <2>2 DEF process_srv_queue, LoopHead, TakeTurn, LockServerQueue, InnerLoop, PeekQueues,
         UseServerEntry, UseProxyEntry, TellProxyEntry, CountDequeued, UnlockServerQueue, Account,
         CheckIdle, SetReady, RetryGroup, RetryAccount, NextGroup, slots
    <3> QED BY Zenon, <1>d, <3>1
  <2> QED BY Zenon, <2>1, <2>2
<1>3. ASSUME \/ RedistributeGroup \/ RedistributeLength \/ CountRedistributed
             \/ RedistributeProxy \/ ClearReady \/ Over \/ UNCHANGED vars
             \/ (\E s \in Streams : Arrive(s))
             \/ (\E v \in Servers : ServerDown(v) \/ ServerUp(v))
      PROVE  Bounded'
  <2>1. UNCHANGED served
    BY Zenon, <1>3 DEF RedistributeGroup, RedistributeLength, CountRedistributed, RedistributeProxy,
                 ClearReady, Over, Arrive, ServerDown, ServerUp, vars, slots
  <2> QED BY Zenon, <1>d, <2>1
<1> QED BY ZenonT(30), <1>1, <1>2, <1>3 DEF Next, AdminStep, Procs

(* A step of a process moves no other one. *)
LEMMA DequeueAlone ==
  ASSUME ProcTypes, NEW p \in Procs, process_srv_queue(p)
  PROVE  OthersWait(p) /\ pc[p] \in Dequeuing /\ pc'[p] \in Dequeuing \cup {th[p].ret}
<1>1. CASE LoopHead(p) \/ TakeTurn(p) \/ LockServerQueue(p) \/ InnerLoop(p)
  BY Zenon, <1>1 DEF LoopHead, TakeTurn, LockServerQueue, InnerLoop, Goto, OthersWait,
                     ProcTypes, Dequeuing, Locked
<1>2. CASE PeekQueues(p) \/ ReserveSlot(p) \/ UseServerEntry(p) \/ UseProxyEntry(p) \/ TellProxyEntry(p)
  BY Zenon, <1>2 DEF PeekQueues, ReserveSlot, UseServerEntry, UseProxyEntry, TellProxyEntry,
                     NothingDone, Goto, OthersWait, ProcTypes, Dequeuing, Locked
<1>3. CASE CountDequeued(p) \/ UnlockServerQueue(p) \/ Account(p)
  BY Zenon, <1>3 DEF CountDequeued, UnlockServerQueue, Account, Goto, OthersWait,
                     ProcTypes, Dequeuing, Locked
<1>4. CASE CheckIdle(p) \/ SetReady(p) \/ RetryGroup(p) \/ RetryAccount(p) \/ NextGroup(p)
  BY Zenon, <1>4 DEF CheckIdle, SetReady, RetryGroup, RetryAccount, NextGroup, Return,
                     Goto, OthersWait, ProcTypes, Dequeuing, Locked
<1> QED BY Zenon, <1>1, <1>2, <1>3, <1>4 DEF process_srv_queue

(* A step of a stream leaves the dequeuing calls of the other processes    *)
(* where they are.                                                         *)
LEMMA StreamAlone ==
  ASSUME ProcTypes, NEW s \in Streams, Arrive(s) \/ StreamStep(s)
  PROVE  OthersWait(s)
<1>a. s \in Procs
  BY Zenon DEF Procs
<1>b. ASSUME NEW v, NEW ret, CallProcessQueue(s, v, ret) \/ Release(s, v, ret) PROVE OthersWait(s)
  BY Zenon, <1>a, <1>b DEF CallProcessQueue, Release, Goto, OthersWait, ProcTypes
<1>1. CASE Arrive(s) \/ assign_server(s) \/ CheckRoom(s) \/ TakeSlot(s) \/ AttachSlot(s) \/ pendconn_add(s)
  BY Zenon, <1>1, <1>a DEF Arrive, assign_server, CheckRoom, TakeSlot, AttachSlot, pendconn_add,
                     QueueOnServer, Goto, OthersWait, ProcTypes
<1>2. CASE NoEntry(s) \/ EndOfStream(s) \/ Redispatch(s) \/ MayDequeue(s) \/ FreeUnlinked(s) \/ FreeSlot(s)
  BY Zenon, <1>2, <1>b DEF NoEntry, EndOfStream, Redispatch, MayDequeue, FreeUnlinked, FreeEntry, FreeSlot
<1>3. CASE CountPending(s) \/ StreamFree(s)
  <2>1. \/ \E l : Goto(s, l) /\ UNCHANGED th
        \/ \E v, ret : CallProcessQueue(s, v, ret)
        \/ Goto(s, "unlink") /\ th' = [th EXCEPT ![s].ret = "freed"]
    BY Zenon, <1>3 DEF CountPending, StreamFree, FreeEntry
  <2> QED BY Zenon, <1>a, <1>b, <2>1 DEF Goto, OthersWait, ProcTypes
<1>4. CASE InsertEntry(s) \/ GrabReady(s) \/ TakeReadySlot(s) \/ UnqueueSelf(s) \/ GiveReadyBack(s) \/ RunOnReady(s)
  BY Zenon, <1>4, <1>a DEF InsertEntry, GrabReady, TakeReadySlot, UnqueueSelf, GiveReadyBack,
                     RunOnReady, Goto, OthersWait, ProcTypes
<1>5. CASE LeaveQueue(s)
  BY Zenon, <1>5, <1>a DEF LeaveQueue, pendconn_dequeue, StillQueued, TakeResult, pendconn_unlink,
                     CountUnlinked, Goto, OthersWait, ProcTypes
<1>6. CASE connect_server(s) \/ AbortConnection(s) \/ RetrySameServer(s) \/ DetachSlot(s) \/ DropSlot(s) \/ Gone(s)
  BY Zenon, <1>6, <1>a DEF connect_server, AbortConnection, RetrySameServer, DetachSlot, DropSlot, Gone,
                     Goto, OthersWait, ProcTypes
<1>7. CASE process_srv_queue(s)
  BY Zenon, <1>7, <1>a, DequeueAlone
<1> QED BY ZenonT(30), <1>1, <1>2, <1>3, <1>4, <1>5, <1>6, <1>7
        DEF StreamStep, assign_server_and_queue, Serve, stream_free

(* Only Admin redistributes, and it starts in ServerDown(). *)
LEMMA UndisturbedKept ==
  ASSUME IInv, OwnQueueStays, Undisturbed, [Next]_vars
  PROVE  Undisturbed'
<1> USE DEF IInv, TypeOK
<1>a. /\ ProcTypes /\ Admin \in Procs /\ Admin \notin Streams /\ th[Admin] \in Locals
      /\ ControlOK(Admin)
  BY Zenon, QueueAssumption DEF Procs, ProcTypes, ProcsOK
<1>b. ASSUME pc'[Admin] = pc[Admin], th'[Admin] = th[Admin] PROVE Undisturbed'
  BY Zenon, <1>b DEF Undisturbed
<1>c. ASSUME pc'[Admin] \notin {"redist", "redist_len"} PROVE Undisturbed'
  BY Zenon, <1>c DEF Undisturbed
<1>1. ASSUME NEW s \in Streams, Arrive(s) \/ StreamStep(s) PROVE Undisturbed'
  <2>1. OthersWait(s)
    BY Zenon, <1>a, <1>1, StreamAlone
  <2> QED BY Zenon, <1>a, <1>b, <2>1 DEF OthersWait
<1>2. ASSUME process_srv_queue(Admin) PROVE Undisturbed'
  <2>1. pc'[Admin] \in Dequeuing \cup {"idle"}
    BY Zenon, <1>a, <1>2, DequeueAlone DEF ControlOK
  <2> QED BY Zenon, <1>c, <2>1 DEF Dequeuing, Locked
<1>3. ASSUME RedistributeGroup \/ RedistributeLength PROVE Undisturbed'
  <2>1. th'[Admin].owner = th[Admin].owner /\ pc[Admin] \in {"redist", "redist_len"}
    BY <1>3, <1>a DEF RedistributeGroup, RedistributeLength, ProcTypes, Locals
  <2> QED BY Zenon, <2>1 DEF Undisturbed
<1>4. ASSUME CountRedistributed \/ ClearReady PROVE Undisturbed'
  BY Zenon, <1>4, <1>a, <1>c DEF CountRedistributed, ClearReady, Goto, ProcTypes
<1>5. ASSUME RedistributeProxy PROVE Undisturbed'
  <2>1. th'[Admin].owner = Px
    BY <1>5, <1>a DEF RedistributeProxy, ProcTypes, Locals
  <2> QED BY Zenon, <2>1 DEF Undisturbed
<1>6. ASSUME NEW v \in Servers, ServerDown(v) PROVE Undisturbed'
  <2>1. flaps \in 0 .. MaxFlaps /\ flaps < MaxFlaps
    BY Zenon, <1>6 DEF ServerDown, SrvTypes
  <2>2. MaxFlaps # 0
    BY <2>1
  <2>3. Redisp => Persist /\ "maint" \notin Downs
    BY Zenon, <2>2 DEF OwnQueueStays
  <2>4. Redisp => pc'[Admin] = "redist_px"
    BY Zenon, <1>6, <1>a, <2>3 DEF ServerDown, Goto, ProcTypes
  <2> QED BY Zenon, <2>4 DEF Undisturbed
<1>7. ASSUME NEW v \in Servers, ServerUp(v) PROVE Undisturbed'
  <2>1. pc'[Admin] \in {"idle", "loop"}
    BY Zenon, <1>7, <1>a DEF ServerUp, Goto, ProcTypes
  <2> QED BY Zenon, <1>c, <2>1
<1>8. ASSUME UNCHANGED vars PROVE Undisturbed'
  BY Zenon, <1>8, <1>b DEF vars
<1> QED BY ZenonT(30), <1>1, <1>2, <1>3, <1>4, <1>5, <1>6, <1>7, <1>8 DEF Next, AdminStep, Over

(* Every step keeps the entries that a dequeuing thread is about to        *)
(* connect within the limit, when a queue of a server stays its own.       *)
LEMMA MaxconnKept ==
  ASSUME IInv, OwnQueueStays, MaxconnInv, [Next]_vars
  PROVE  MaxconnInv'
<1>1. /\ TypeOK /\ Control /\ Undisturbed /\ \A x \in Streams : ConnectOK(x)
  BY Zenon DEF IInv, Control, MaxconnInv
<1>2. Undisturbed'
  BY Zenon, <1>1, UndisturbedKept
<1>3. \A x \in Streams : ConnectOK(x)'
  <2>1. CASE UNCHANGED vars
    <3>1. UNCHANGED <<strm, pend, tree, pc>>
      BY Zenon, <2>1 DEF vars, strms, links
    <3>2. \A x \in Streams : Linked(x)' <=> Linked(x)
      BY Zenon, <3>1 DEF Linked
    <3> QED BY Zenon, <1>1, <3>1, <3>2 DEF ConnectOK
  <2>2. ASSUME NEW s \in Streams, Arrive(s) \/ StreamStep(s) PROVE \A x \in Streams : ConnectOK(x)'
    <3>1. s \in Procs
      BY Zenon DEF Procs
    <3> QED BY ZenonT(30), <1>1, <2>2, <3>1, FreeConnect, QueueConnect, QuietConnect, DequeueConnect
          DEF StreamStep, assign_server_and_queue, LeaveQueue, Serve, stream_free, process_srv_queue
  <2>3. CASE AdminStep
    BY ZenonT(30), <1>1, <2>3, AdminConnect, QuietConnect, DequeueConnect DEF AdminStep, Procs, process_srv_queue
  <2>4. CASE \E v \in Servers : ServerDown(v) \/ ServerUp(v)
    BY Zenon, <1>1, <2>4, AdminConnect
  <2>5. CASE Over
    BY Zenon, <2>1, <2>5 DEF Over
  <2> QED BY ZenonT(30), <2>1, <2>2, <2>3, <2>4, <2>5 DEF Next
<1> QED BY Zenon, <1>2, <1>3 DEF MaxconnInv

(* Nobody is served and nobody waits at first. *)
LEMMA InitMaxconn == Init => Bounded /\ MaxconnInv
<1> SUFFICES ASSUME Init PROVE Bounded /\ MaxconnInv
  BY Zenon
<1>1. Bounded
  <2>1. ASSUME NEW v \in Servers PROVE served[v] <= MaxConn[v]
    <3>1. served[v] = 0 /\ MaxConn[v] \in Nat
      BY Zenon, QueueAssumption DEF Init
    <3> QED BY <3>1
  <2> QED BY Zenon, <2>1 DEF Bounded
<1>2. Undisturbed
  BY Zenon DEF Init, Undisturbed, Procs
<1>3. ASSUME NEW s \in Streams PROVE ConnectOK(s)
  <2>1. /\ ~strm[s].curr /\ strm[s].st = "INI" /\ pend[s] = NULL /\ pc[s] = "idle"
    BY Zenon DEF Init, NewStream, Procs
  <2> QED BY Zenon, <2>1 DEF ConnectOK, ReadyLabels
<1> QED BY Zenon, <1>1, <1>2, <1>3 DEF MaxconnInv

(* server->served never exceeds the server's maxconn, whoever reserves the *)
(* slot: the CAS loops of assign_server_and_queue() and                    *)
(* pendconn_process_next_strm() and the 0 -> 1 CAS on ready_srv's.         *)
THEOREM ServedStaysBounded == Spec => []Bounded
<1>1. Init => Bounded
  BY Zenon, InitMaxconn
<1>2. IInv /\ Bounded /\ [Next]_vars => Bounded'
  BY Zenon, BoundedKept
<1> QED BY <1>1, <1>2, Invariant, PTL DEF Spec

(* No more than maxconn streams are connecting or connected to a server,   *)
(* because each of them owns one of the slots that served counts.  It      *)
(* holds unless pendconn_redistribute() empties a server's own queue with  *)
(* option redispatch set, which leaves its entries SF_ASSIGNED to the      *)
(* server without a slot.                                                  *)
THEOREM MaxconnAlwaysRespected == OwnQueueStays /\ Spec => []MaxconnRespected
<1>1. Init => MaxconnInv
  BY Zenon, InitMaxconn
<1>2. IInv /\ OwnQueueStays /\ MaxconnInv /\ [Next]_vars => OwnQueueStays' /\ MaxconnInv'
  BY Zenon, MaxconnKept DEF OwnQueueStays
<1>3. ASSUME IInv, Bounded, MaxconnInv PROVE MaxconnRespected
  <2> SUFFICES ASSUME NEW v \in Servers
               PROVE  Cardinality({s \in Streams : strm[s].curr /\ strm[s].target = v}) <= MaxConn[v]
    BY Zenon, <1>3 DEF MaxconnRespected, Bounded
  <2> DEFINE A == {s \in Streams : strm[s].curr /\ strm[s].target = v}
             B == {s \in Streams : strm[s].srv_conn = v}
             C == {p \in Procs : SlotInTransit(p) = v}
  <2>1. A \subseteq B
    BY Zenon, <1>3 DEF MaxconnInv, ConnectOK
  <2>2. IsFiniteSet(B) /\ IsFiniteSet(C)
    <3>1. IsFiniteSet(Streams)
      BY Zenon, QueueAssumption
    <3>2. IsFiniteSet(Procs)
      BY Zenon, <3>1, FS_AddElement DEF Procs
    <3>3. B \subseteq Streams /\ C \subseteq Procs
      BY Zenon
    <3> HIDE DEF B, C
    <3> QED BY Zenon, <3>1, <3>2, <3>3, FS_Subset
  <2>3. served[v] = Cardinality(B) + Cardinality(C) /\ served[v] <= MaxConn[v] /\ MaxConn[v] \in Nat
    BY Zenon, <1>3, QueueAssumption DEF IInv, SlotsAccounted, Bounded
  <2> HIDE DEF A, B, C
  <2>4. Cardinality(A) <= Cardinality(B) /\ IsFiniteSet(A)
    BY Zenon, <2>1, <2>2, FS_Subset
  <2>5. Cardinality(A) \in Nat /\ Cardinality(B) \in Nat /\ Cardinality(C) \in Nat
    BY Zenon, <2>2, <2>4, FS_CardinalityType
  <2>6. Cardinality(A) <= MaxConn[v]
    BY <2>3, <2>4, <2>5
  <2> QED BY Zenon, <2>6 DEF A
<1> QED BY <1>1, <1>2, <1>3, Invariant, ServedStaysBounded, PTL DEF Spec
=============================================================================
