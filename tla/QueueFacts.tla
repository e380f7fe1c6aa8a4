----------------------------- MODULE QueueFacts -----------------------------
(***************************************************************************)
(* Every step of Queue keeps the types, with facts about insertion in a    *)
(* tree, removal from it, the choice of a thread group and counting that   *)
(* this and the other proofs about Queue rest on.                          *)
(***************************************************************************)
EXTENDS QueueInv, TLAPS, FiniteSetTheorems

(* Without() takes its entry out and nothing else. *)
LEMMA WithoutSeq ==
  ASSUME NEW seq \in Seq(Streams), NEW s \in Streams, Distinct(seq)
  PROVE  /\ Without(seq, s) \in Seq(Streams)
         /\ \A x : InSeq(x, Without(seq, s)) <=> InSeq(x, seq) /\ x # s
         /\ Distinct(Without(seq, s))
<1>1. CASE ~InSeq(s, seq)
  BY <1>1 DEF Without, InSeq
<1>2. CASE InSeq(s, seq)
  <2> DEFINE k == CHOOSE i \in 1 .. Len(seq) : seq[i] = s
             n == Len(seq)
             out == Without(seq, s)
  <2>1. k \in 1 .. n /\ seq[k] = s
    BY <1>2 DEF InSeq
  <2>2. out = [j \in 1 .. n - 1 |-> IF j < k THEN seq[j] ELSE seq[j + 1]]
    BY <1>2 DEF Without
  <2> HIDE DEF k, out
  <2>3. n \in Nat \ {0}
    BY <2>1
  <2>4. out \in Seq(Streams) /\ Len(out) = n - 1
    BY <2>1, <2>2, <2>3
  <2>5. Distinct(out)
    BY <2>1, <2>2, <2>3, <2>4 DEF Distinct
  <2>6. ASSUME NEW x, InSeq(x, out) PROVE InSeq(x, seq) /\ x # s
    <3>1. PICK j \in 1 .. n - 1 : out[j] = x
      BY <2>4, <2>6 DEF InSeq
    <3>2. CASE j < k
      <4>1. j \in 1 .. n /\ seq[j] = x /\ j # k
        BY <2>1, <2>2, <2>3, <3>1, <3>2
      <4> QED BY <2>1, <4>1 DEF InSeq, Distinct
    <3>3. CASE j >= k
      <4>1. j + 1 \in 1 .. n /\ seq[j + 1] = x /\ j + 1 # k
        BY <2>1, <2>2, <2>3, <3>1, <3>3
      <4> QED BY <2>1, <4>1 DEF InSeq, Distinct
    <3> QED BY <2>1, <2>3, <3>2, <3>3
  <2>7. ASSUME NEW x, x # s, NEW i \in 1 .. n, seq[i] = x PROVE InSeq(x, out)
    <3>1. CASE i < k
      <4>1. i \in 1 .. n - 1 /\ out[i] = x
        BY <2>1, <2>2, <2>3, <2>7, <3>1
      <4> QED BY <2>4, <4>1 DEF InSeq
    <3>2. CASE i > k
      <4>1. i - 1 \in 1 .. n - 1 /\ out[i - 1] = x
        BY <2>1, <2>2, <2>3, <2>7, <3>2
      <4> QED BY <2>4, <4>1 DEF InSeq
    <3> QED BY <2>1, <2>7, <3>1, <3>2
  <2> QED BY <2>4, <2>5, <2>6, <2>7 DEF InSeq, out
<1> QED BY <1>1, <1>2

(* The first entry of a tree is in it. *)
LEMMA FirstSeq ==
  ASSUME NEW seq \in Seq(Streams)
  PROVE  /\ First(seq) \in Streams \cup {NULL}
         /\ First(seq) # NULL => InSeq(First(seq), seq)
BY DEF First, InSeq

-----------------------------------------------------------------------------
(* Insert() adds its entry to the tree and nothing else. *)
LEMMA InsertSeq ==
  ASSUME NEW seq \in Seq(Streams), NEW s \in Streams
  PROVE  /\ Insert(seq, s) \in Seq(Streams)
         /\ \A x : InSeq(x, Insert(seq, s)) <=> x = s \/ InSeq(x, seq)
         /\ Distinct(seq) /\ ~InSeq(s, seq) => Distinct(Insert(seq, s))
<1> DEFINE B == {i \in 1 .. Len(seq) : Key[seq[i]] <= Key[s]}
           k == Cardinality(B)
           n == Len(seq)
           ins == Insert(seq, s)
<1>1. k \in 0 .. n
  <2>0. n \in Nat
    OBVIOUS
  <2> HIDE DEF n
  <2>1. IsFiniteSet(1 .. n) /\ Cardinality(1 .. n) = n
    BY <2>0, FS_Interval
  <2>2. B \in SUBSET (1 .. n)
    BY Zenon DEF n
  <2> QED BY <2>0, <2>1, <2>2, FS_Subset, FS_CardinalityType
<1>2. ins = [j \in 1 .. n + 1 |->
               IF j <= k THEN seq[j] ELSE IF j = k + 1 THEN s ELSE seq[j - 1]]
  BY Zenon DEF Insert
<1> HIDE DEF B, k, ins
<1>3. ins \in Seq(Streams) /\ Len(ins) = n + 1
  BY <1>1, <1>2
<1>4. \A x : InSeq(x, ins) <=> x = s \/ InSeq(x, seq)
  <2> SUFFICES ASSUME NEW x PROVE InSeq(x, ins) <=> x = s \/ InSeq(x, seq)
    BY Zenon
  <2>1. ASSUME InSeq(x, ins) PROVE x = s \/ InSeq(x, seq)
    BY <1>1, <1>2, <1>3, <2>1 DEF InSeq
  <2>2. ASSUME x = s PROVE InSeq(x, ins)
    <3>1. k + 1 \in 1 .. n + 1 /\ ins[k + 1] = s
      BY <1>1, <1>2
    <3> QED BY Zenon, <1>3, <2>2, <3>1 DEF InSeq
  <2>3. ASSUME NEW i \in 1 .. n, seq[i] = x PROVE InSeq(x, ins)
    <3>1. CASE i <= k
      <4>1. i \in 1 .. n + 1 /\ ins[i] = x
        BY <1>1, <1>2, <2>3, <3>1
      <4> QED BY Zenon, <1>3, <4>1 DEF InSeq
    <3>2. CASE i > k
      <4>1. i + 1 \in 1 .. n + 1 /\ ins[i + 1] = x
        BY <1>1, <1>2, <2>3, <3>2
      <4> QED BY Zenon, <1>3, <4>1 DEF InSeq
    <3> QED BY <1>1, <3>1, <3>2
  <2> QED BY Zenon, <2>1, <2>2, <2>3 DEF InSeq
<1>5. ASSUME Distinct(seq), ~InSeq(s, seq) PROVE Distinct(ins)
  BY SMTT(30), <1>1, <1>2, <1>3, <1>5 DEF Distinct, InSeq
<1> QED BY Zenon, <1>3, <1>4, <1>5 DEF ins

-----------------------------------------------------------------------------
(* A non-empty set of natural numbers has a least element. *)
LEMMA LeastNat ==
  ASSUME NEW T \in SUBSET Nat, T # {}
  PROVE  \E x \in T : \A y \in T : x <= y
<1> DEFINE R == OpToRel(<, Nat)
<1>1. IsWellFoundedOn(R, Nat)
  BY Zenon, NatLessThanWellFounded
<1>2. \A x, y \in Nat : <<x, y>> \in R <=> x < y
  BY Zenon DEF OpToRel
<1> HIDE DEF R
<1>3. PICK x \in T : \A y \in T : ~ (<<y, x>> \in R)
  BY Zenon, <1>1, WFMin
<1>4. ASSUME NEW y \in T PROVE x <= y
  <2>1. x \in Nat /\ y \in Nat /\ ~(y < x)
    BY Zenon, <1>2, <1>3
  <2> QED BY <2>1
<1> QED BY Zenon, <1>4

(* What a counter modulo n may be. *)
LEMMA ModRange ==
  ASSUME NEW i \in Int, NEW n \in Nat \ {0}
  PROVE  i % n \in 0 .. n - 1
OBVIOUS

-----------------------------------------------------------------------------
(* how many elements of S the function f maps to v *)
Count(S, f, v) == Cardinality({y \in S : f[y] = v})
(* f and g are the same on S but at x *)
SameBut(S, f, g, x) == \A y \in S \ {x} : g[y] = f[y]

(* Changing one value of a function moves one element between the sets of  *)
(* those that have a given value.                                          *)
LEMMA CountUpdate ==
  ASSUME NEW S, IsFiniteSet(S), NEW f, NEW g, NEW x \in S, NEW v,
         SameBut(S, f, g, x)
  PROVE  /\ Count(S, f, v) \in Nat /\ Count(S, g, v) \in Nat
         /\ Count(S, g, v) =
              Count(S, f, v) + (IF g[x] = v THEN 1 ELSE 0) - (IF f[x] = v THEN 1 ELSE 0)
<1> DEFINE F == {y \in S : f[y] = v}
           G == {y \in S : g[y] = v}
           R == {y \in S \ {x} : f[y] = v}
<1>1. IsFiniteSet(R) /\ x \notin R
  BY Zenon, FS_Subset
<1>2. F = (IF f[x] = v THEN R \cup {x} ELSE R)
  BY Zenon
<1>3. G = (IF g[x] = v THEN R \cup {x} ELSE R)
  BY Zenon DEF SameBut
<1> HIDE DEF F, G, R
<1>4. Cardinality(R \cup {x}) = Cardinality(R) + 1 /\ Cardinality(R) \in Nat
  BY Zenon, <1>1, FS_AddElement, FS_CardinalityType
<1>5. Cardinality(F) = Cardinality(R) + (IF f[x] = v THEN 1 ELSE 0)
  BY <1>2, <1>4
<1>6. Cardinality(G) = Cardinality(R) + (IF g[x] = v THEN 1 ELSE 0)
  BY <1>3, <1>4
<1>7. Count(S, f, v) = Cardinality(F) /\ Count(S, g, v) = Cardinality(G)
  BY Zenon DEF Count, F, G
<1> QED BY <1>4, <1>5, <1>6, <1>7
-----------------------------------------------------------------------------
(* The locals a process has outside process_srv_queue(), and at its start. *)
LEMMA LocalsTypes ==
  /\ NoLocals \in Locals
  /\ \A v \in NServer, ret \in Labels : ProcessQueue(v, ret) \in Locals
<1>1. 1 \in Groups
  BY QueueAssumption, FS_CardinalityType DEF Procs
<1>2. NoLocals \in Locals
  BY <1>1 DEF NoLocals, Locals, Labels, NServer
<1>3. ASSUME NEW v \in NServer, NEW ret \in Labels
      PROVE  ProcessQueue(v, ret) \in Locals
  <2>1. srv_currently_usable(v) \in BOOLEAN
    BY Zenon DEF srv_currently_usable
  <2>2. [NoLocals EXCEPT !.srv = v, !.ret = ret] \in Locals
    BY Zenon, <1>2 DEF Locals
  <2>3. ProcessQueue(v, ret) = [[NoLocals EXCEPT !.srv = v, !.ret = ret]
                                  EXCEPT !.px_ok = srv_currently_usable(v), !.grps = Groups]
    BY Zenon DEF ProcessQueue
  <2> QED BY Zenon, <2>1, <2>2, <2>3 DEF Locals
<1> QED BY Zenon, <1>2, <1>3

(* A process that jumps, with locals of its own. *)
LEMMA GotoTypes ==
  ASSUME ProcTypes, NEW p \in Procs, NEW l \in Labels, Goto(p, l),
         NEW t \in Locals, th' = [th EXCEPT ![p] = t] \/ UNCHANGED th
  PROVE  ProcTypes'
BY Zenon DEF ProcTypes, Goto

(* if (may_dequeue_tasks(v)) process_srv_queue(v); then ret *)
LEMMA CallTypes ==
  ASSUME ProcTypes, NEW p \in Procs, NEW v \in NServer, NEW ret \in Labels,
         CallProcessQueue(p, v, ret)
  PROVE  ProcTypes'
<1>1. "loop" \in Labels
  BY Zenon DEF Labels
<1>2. CASE v # NULL /\ may_dequeue_tasks(v)
  <2>1. Goto(p, "loop") /\ th' = [th EXCEPT ![p] = ProcessQueue(v, ret)]
    BY Zenon, <1>2 DEF CallProcessQueue
  <2> QED BY Zenon, <1>1, <2>1, LocalsTypes, GotoTypes
<1>3. CASE ~(v # NULL /\ may_dequeue_tasks(v))
  <2>1. Goto(p, ret) /\ th' = [th EXCEPT ![p] = NoLocals]
    BY Zenon, <1>3 DEF CallProcessQueue
  <2> QED BY Zenon, <2>1, LocalsTypes, GotoTypes
<1> QED BY Zenon, <1>2, <1>3

(* An addition to one counter of several. *)
LEMMA AddTypes ==
  ASSUME NEW S, NEW f \in [S -> Int], NEW x, NEW n \in Int
  PROVE  Add(f, x, n) \in [S -> Int]
<1>1. Add(f, x, n) = [y \in S |-> IF y = x THEN f[x] + n ELSE f[y]]
  BY Zenon DEF Add
<1>2. \A y \in S : f[y] + n \in Int
  OBVIOUS
<1> QED BY Zenon, <1>1, <1>2

(* What a step leaves alone keeps its type. *)
LEMMA TypeFrame ==
  /\ SlotTypes /\ UNCHANGED slots => SlotTypes'
  /\ CountTypes /\ UNCHANGED counts => CountTypes'
  /\ LinkTypes /\ UNCHANGED links => LinkTypes'
  /\ TurnTypes /\ UNCHANGED turns => TurnTypes'
  /\ SrvTypes /\ UNCHANGED srvs => SrvTypes'
  /\ StrmTypes /\ UNCHANGED strms => StrmTypes'
  /\ ProcTypes /\ UNCHANGED <<pc, th>> => ProcTypes'
<1>1. SlotTypes /\ UNCHANGED slots => SlotTypes'
  BY Zenon DEF SlotTypes, slots
<1>2. CountTypes /\ UNCHANGED counts => CountTypes'
  BY Zenon DEF CountTypes, counts
<1>3. LinkTypes /\ UNCHANGED links => LinkTypes'
  BY Zenon DEF LinkTypes, links
<1>4. TurnTypes /\ UNCHANGED turns => TurnTypes'
  BY Zenon DEF TurnTypes, turns
<1>5. SrvTypes /\ UNCHANGED srvs => SrvTypes'
  BY Zenon DEF SrvTypes, srvs
<1>6. StrmTypes /\ UNCHANGED strms => StrmTypes'
  BY Zenon DEF StrmTypes, strms
<1>7. ProcTypes /\ UNCHANGED <<pc, th>> => ProcTypes'
  BY Zenon DEF ProcTypes
<1> QED BY Zenon, <1>1, <1>2, <1>3, <1>4, <1>5, <1>6, <1>7

(* The types after a stream's own steps. *)
LEMMA StreamTypes ==
  ASSUME TypeOK, ProcsOK, StreamsOK, QueuesOK, NEW s \in Streams
  PROVE  /\ Arrive(s) => TypeOK'
         /\ assign_server_and_queue(s) => TypeOK'
         /\ LeaveQueue(s) => TypeOK'
         /\ Serve(s) => TypeOK'
         /\ stream_free(s) => TypeOK'
<1> USE DEF TypeOK
<1>a. s \in Procs /\ StreamOK(s) /\ ControlOK(s)
  BY Zenon DEF ProcsOK, StreamsOK, Procs
<1>b. /\ Group[s] \in Groups
      /\ pend[s] # NULL => pend[s] \in Entry /\ QueueOf(s) \in Queues
  BY Zenon, QueueAssumption DEF StrmTypes, QueueOf, Queues, Entry, Procs
<1>c. \A v \in NServer, ret \in Labels : CallProcessQueue(s, v, ret) => ProcTypes'
  BY Zenon, <1>a, CallTypes
<1>l. {"idle", "loop", "enqueue", "detach", "unlink", "free_slot", "gone", "still"} \subseteq Labels
  BY Zenon DEF Labels
<1>t. /\ strm[s] \in Stream /\ strm[s].target \in NServer /\ strm[s].srv_conn \in NServer
      /\ th[s] \in Locals /\ th[s].srv \in NServer /\ th[s].ret \in Labels
  BY Zenon, <1>a DEF StrmTypes, ProcTypes, Stream, Locals
<1>w. ASSUME NEW q
      PROVE  /\ [tree EXCEPT ![q] = Without(@, s)] \in [Queues -> Seq(Streams)]
             /\ [tree EXCEPT ![q] = Insert(@, s)] \in [Queues -> Seq(Streams)]
  <2>1. \A x \in Queues : Without(tree[x], s) \in Seq(Streams) /\ Insert(tree[x], s) \in Seq(Streams)
    BY Zenon, WithoutSeq, InsertSeq DEF QueuesOK, LinkTypes
  <2> QED BY Zenon, <2>1 DEF LinkTypes
<1>r. ASSUME NEW v \in NServer, NEW ret \in Labels, Release(s, v, ret) PROVE ProcTypes'
  <2>1. CASE strm[s].srv_conn # NULL
    BY Zenon, <1>r, <1>a, <1>l, <2>1, LocalsTypes, GotoTypes DEF Release
  <2>2. CASE strm[s].srv_conn = NULL
    BY Zenon, <1>r, <1>c, <2>2 DEF Release
  <2> QED BY Zenon, <2>1, <2>2
<1>v. ASSUME NEW next, LeaveServer(s, next) PROVE SlotTypes'
  <2>1. CASE strm[s].curr
    BY <1>v, <2>1, AddTypes DEF LeaveServer, SlotTypes
  <2>2. CASE ~strm[s].curr
    BY Zenon, <1>v, <2>2 DEF LeaveServer, SlotTypes
  <2> QED BY Zenon, <2>1, <2>2
<1>1. ASSUME Arrive(s) PROVE TypeOK'
  <2>1. StrmTypes'
    <3>1. PICK v \in Wants[s] : strm' = [strm EXCEPT ![s] = [@ EXCEPT !.st = "REQ", !.target = v,
                                                      !.assigned = v # NULL, !.direct = v # NULL]]
      BY Zenon, <1>1 DEF Arrive
    <3>2. v \in NServer /\ (v # NULL) \in BOOLEAN
      BY Zenon, QueueAssumption DEF NServer
    <3>3. strm'[s] \in Stream
      BY Zenon, <1>t, <3>1, <3>2 DEF StrmTypes, Stream, States
    <3> QED BY Zenon, <1>1, <3>1, <3>3 DEF Arrive, StrmTypes
  <2> QED BY Zenon, <1>1, <2>1, TypeFrame DEF Arrive, TypeOK
<1>2. ASSUME assign_server(s) PROVE TypeOK'
  <2>1. StrmTypes'
    <3>1. \E v \in NServer : \/ strm' = [strm EXCEPT ![s].st = "CLO", ![s].target = v]
                             \/ strm' = [strm EXCEPT ![s].target = v]
                             \/ strm' = [strm EXCEPT ![s].target = v, ![s].assigned = TRUE]
      BY Zenon, <1>2 DEF assign_server, NServer
    <3> QED BY <1>2, <3>1 DEF assign_server, StrmTypes, Stream, States
  <2>2. ProcTypes'
    BY <1>2 DEF assign_server, ProcTypes, Labels, Locals, Procs, Goto
  <2> QED BY Zenon, <1>2, <2>1, <2>2, TypeFrame DEF assign_server, TypeOK
<1>3. ASSUME CheckRoom(s) PROVE TypeOK'
  <2>1. StrmTypes'
    BY SMTT(30), <1>3 DEF CheckRoom, StrmTypes, Stream, States, NServer, QueueOnServer
  <2>2. ProcTypes'
    BY <1>3 DEF CheckRoom, ProcTypes, Labels, Locals, Procs, Goto, QueueOnServer
  <2> QED BY Zenon, <1>3, <2>1, <2>2, TypeFrame DEF CheckRoom, TypeOK
<1>4. ASSUME TakeSlot(s) PROVE TypeOK'
  <2>1. SlotTypes'
    BY <1>4, AddTypes DEF TakeSlot, SlotTypes
  <2>2. StrmTypes'
    <3>1. \/ UNCHANGED strm
          \/ strm' = [strm EXCEPT ![s].assigned = FALSE, ![s].direct = FALSE]
          \/ strm' = [strm EXCEPT ![s].st = "CLO"]
      BY Zenon, <1>4 DEF TakeSlot, QueueOnServer
    <3>2. UNCHANGED <<pend, woken>>
      BY Zenon, <1>4 DEF TakeSlot
    <3>3. [strm[s] EXCEPT !.assigned = FALSE, !.direct = FALSE] \in Stream
      BY Zenon, <1>t DEF Stream
    <3>4. [strm[s] EXCEPT !.st = "CLO"] \in Stream
      BY Zenon, <1>t DEF Stream, States
    <3> QED BY Zenon, <3>1, <3>2, <3>3, <3>4 DEF StrmTypes
  <2>3. ProcTypes'
    BY <1>4 DEF TakeSlot, ProcTypes, Labels, Locals, Procs, Goto, QueueOnServer
  <2> QED BY Zenon, <1>4, <2>1, <2>2, <2>3, TypeFrame DEF TakeSlot, TypeOK
<1>5. ASSUME AttachSlot(s) PROVE TypeOK'
  <2>1. SlotTypes'
    BY <1>5 DEF AttachSlot, SlotTypes
  <2>2. StrmTypes'
    <3>1. /\ strm' = [strm EXCEPT ![s].srv_conn = strm[s].target, ![s].st = "ASS"]
          /\ UNCHANGED <<pend, woken>>
      BY Zenon, <1>5 DEF AttachSlot
    <3>2. [strm[s] EXCEPT !.srv_conn = strm[s].target, !.st = "ASS"] \in Stream
      BY Zenon, <1>t DEF Stream, States
    <3> QED BY Zenon, <3>1, <3>2 DEF StrmTypes
  <2>3. ProcTypes'
    BY Zenon, <1>5 DEF AttachSlot, ProcTypes, Labels, Locals, Procs, Goto
  <2> QED BY Zenon, <1>5, <2>1, <2>2, <2>3, TypeFrame DEF AttachSlot, TypeOK
<1>6. ASSUME pendconn_add(s) PROVE TypeOK'
  <2>1. CountTypes'
    BY <1>6, AddTypes DEF pendconn_add, CountTypes
  <2>2. StrmTypes'
    <3> DEFINE o == IF strm[s].assigned THEN strm[s].target ELSE Px
    <3>1. o \in Owners /\ strm[s].assigned \in BOOLEAN /\ strm[s].direct \in BOOLEAN
      BY Zenon, <1>a, <1>t DEF StreamOK, Owners, Stream
    <3>2. [owner |-> o, assigned |-> strm[s].assigned, direct |-> strm[s].direct, target |-> NULL] \in Entry
      BY Zenon, <3>1 DEF Entry, NServer
    <3> QED BY Zenon, <1>6, <3>2 DEF pendconn_add, StrmTypes
  <2>3. ProcTypes'
    BY Zenon, <1>6 DEF pendconn_add, ProcTypes, Labels, Locals, Procs, Goto
  <2> QED BY ZenonT(30), <1>6, <2>1, <2>2, <2>3, TypeFrame DEF pendconn_add, TypeOK
<1>7. ASSUME NoEntry(s) PROVE TypeOK'
  <2>1. StrmTypes'
    BY SMTT(30), <1>7 DEF NoEntry, StrmTypes, Stream, States, NServer
  <2>2. ProcTypes'
    BY Zenon, <1>7, <1>c, <1>t, <1>l DEF NoEntry
  <2> QED BY Zenon, <1>7, <2>1, <2>2, TypeFrame DEF NoEntry, TypeOK
<1>8. ASSUME InsertEntry(s) PROVE TypeOK'
  <2>1. LinkTypes'
    BY Zenon, <1>8, <1>a, <1>b, <1>w DEF InsertEntry, LinkTypes
  <2>2. ProcTypes'
    BY Zenon, <1>8 DEF InsertEntry, ProcTypes, Labels, Locals, Procs, Goto
  <2> QED BY Zenon, <1>8, <2>1, <2>2, TypeFrame DEF InsertEntry, TypeOK
<1>9. ASSUME CountPending(s) PROVE TypeOK'
  <2>1. CountTypes'
    BY <1>9 DEF CountPending, CountTypes
  <2>2. StrmTypes'
    BY ZenonT(30), <1>9 DEF CountPending, StrmTypes, Stream, States, NServer
  <2>3. ProcTypes'
    <3>1. CASE pend[s].owner = Px
      BY ZenonT(30), <1>9, <3>1 DEF CountPending, ProcTypes, Labels, Procs, Goto
    <3>2. CASE pend[s].owner # Px
      <4>1. pend[s].owner \in NServer
        BY Zenon, <1>9, <1>a, <1>b, <3>2 DEF CountPending, StreamOK, Entry, Owners, NServer
      <4> QED BY Zenon, <1>9, <1>c, <1>l, <3>2, <4>1 DEF CountPending
    <3> QED BY Zenon, <3>1, <3>2
  <2> QED BY Zenon, <1>9, <2>1, <2>2, <2>3, TypeFrame DEF CountPending, TypeOK
<1>10. ASSUME GrabReady(s) PROVE TypeOK'
  <2>1. SrvTypes'
    BY Zenon, <1>10 DEF GrabReady, SrvTypes, NServer
  <2>2. ProcTypes'
    BY <1>10 DEF GrabReady, ProcTypes, Labels, Locals, Procs, Goto, SrvTypes, NServer
  <2> QED BY Zenon, <1>10, <2>1, <2>2, TypeFrame DEF GrabReady, TypeOK
<1>11. ASSUME TakeReadySlot(s) PROVE TypeOK'
  <2>1. SlotTypes'
    BY <1>11, AddTypes DEF TakeReadySlot, SlotTypes
  <2>2. ProcTypes'
    BY <1>11 DEF TakeReadySlot, ProcTypes, Labels, Locals, Procs, Goto
  <2> QED BY Zenon, <1>11, <2>1, <2>2, TypeFrame DEF TakeReadySlot, TypeOK
<1>12. ASSUME UnqueueSelf(s) PROVE TypeOK'
  <2>1. LinkTypes'
    BY Zenon, <1>12, <1>w DEF UnqueueSelf, LinkTypes
  <2>2. ProcTypes'
    BY Zenon, <1>12 DEF UnqueueSelf, ProcTypes, Labels, Locals, Procs, Goto
  <2> QED BY Zenon, <1>12, <2>1, <2>2, TypeFrame DEF UnqueueSelf, TypeOK
<1>13. ASSUME GiveReadyBack(s) PROVE TypeOK'
  <2>1. SlotTypes'
    BY <1>13, AddTypes DEF GiveReadyBack, SlotTypes
  <2>2. ProcTypes'
    BY Zenon, <1>13 DEF GiveReadyBack, ProcTypes, Labels, Locals, Procs, Goto
  <2> QED BY Zenon, <1>13, <2>1, <2>2, TypeFrame DEF GiveReadyBack, TypeOK
<1>14. ASSUME RunOnReady(s) PROVE TypeOK'
  <2>1. SlotTypes'
    BY <1>14 DEF RunOnReady, SlotTypes
  <2>2. CountTypes'
    BY <1>14, AddTypes DEF RunOnReady, CountTypes
  <2>3. StrmTypes'
    BY Zenon, <1>14, <1>t DEF RunOnReady, StrmTypes, Stream, States, NServer
  <2>4. ProcTypes'
    BY Zenon, <1>14 DEF RunOnReady, ProcTypes, Labels, Locals, Procs, Goto
  <2> QED BY Zenon, <1>14, <2>1, <2>2, <2>3, <2>4, TypeFrame DEF RunOnReady, TypeOK
<1>15. ASSUME pendconn_dequeue(s) PROVE TypeOK'
  <2>1. StrmTypes'
    BY Zenon, <1>15 DEF pendconn_dequeue, StrmTypes, Stream, States, NServer
  <2>2. ProcTypes'
    <3>1. PICK expired \in BOOLEAN : th' = [th EXCEPT ![s].expired = expired]
      BY Zenon, <1>15, QueueAssumption DEF pendconn_dequeue
    <3>2. [th[s] EXCEPT !.expired = expired] \in Locals
      BY Zenon, <1>t DEF Locals
    <3>3. th' \in [Procs -> Locals]
      BY Zenon, <1>a, <3>1, <3>2 DEF ProcTypes
    <3>4. pc' \in [Procs -> Labels]
      BY Zenon, <1>15, <1>a DEF pendconn_dequeue, ProcTypes, Labels, Goto
    <3> QED BY Zenon, <3>3, <3>4 DEF ProcTypes
  <2> QED BY Zenon, <1>15, <2>1, <2>2, TypeFrame DEF pendconn_dequeue, TypeOK
<1>16. ASSUME StillQueued(s) PROVE TypeOK'
  <2>1. StrmTypes'
    BY SMTT(30), <1>16 DEF StillQueued, StrmTypes, Stream, States, NServer
  <2>2. ProcTypes'
    BY Zenon, <1>16, <1>a, <1>l, LocalsTypes, GotoTypes DEF StillQueued
  <2> QED BY Zenon, <1>16, <2>1, <2>2, TypeFrame DEF StillQueued, TypeOK
<1>17. ASSUME TakeResult(s) PROVE TypeOK'
  <2>1. StrmTypes'
    <3>1. pend[s] # NULL => pend[s].assigned \in BOOLEAN /\ pend[s].direct \in BOOLEAN /\ pend[s].target \in NServer
      BY Zenon, <1>b DEF Entry
    <3>2. pend[s] # NULL
      BY Zenon, <1>17, <1>a DEF TakeResult, StreamOK
    <3> DEFINE x == IF pend[s].assigned THEN "ASS" ELSE "REQ"
               v == IF pend[s].target = NULL THEN strm[s].target ELSE pend[s].target
               r == [strm[s] EXCEPT !.st = x, !.assigned = pend[s].assigned,
                                    !.direct = pend[s].direct, !.target = v]
    <3>3. x \in States /\ v \in NServer
      BY Zenon, <1>t, <3>1, <3>2 DEF States
    <3>4. strm' = [strm EXCEPT ![s] = r] /\ pend' = [pend EXCEPT ![s] = NULL] /\ UNCHANGED woken
      BY Zenon, <1>17 DEF TakeResult
    <3> HIDE DEF x, v
    <3>5. r \in Stream
      BY Zenon, <1>t, <3>1, <3>2, <3>3 DEF Stream
    <3> QED BY Zenon, <3>4, <3>5 DEF StrmTypes
  <2>2. ProcTypes'
    BY Zenon, <1>17, <1>a, <1>l, LocalsTypes, GotoTypes DEF TakeResult
  <2> QED BY Zenon, <1>17, <2>1, <2>2, TypeFrame DEF TakeResult, TypeOK
<1>18. ASSUME pendconn_unlink(s) PROVE TypeOK'
  <2>1. LinkTypes'
    BY Zenon, <1>18, <1>w DEF pendconn_unlink, LinkTypes
  <2>2. ProcTypes'
    BY <1>18 DEF pendconn_unlink, ProcTypes, Labels, Locals, Procs, Goto
  <2> QED BY Zenon, <1>18, <2>1, <2>2, TypeFrame DEF pendconn_unlink, TypeOK
<1>19. ASSUME CountUnlinked(s) PROVE TypeOK'
  <2>1. CountTypes'
    <3>1. th[s].xfer \in Int /\ - th[s].xfer \in Int
      BY <1>t DEF Locals
    <3> QED BY <1>19, <3>1, AddTypes DEF CountUnlinked, CountTypes
  <2>2. ProcTypes'
    <3>1. [NoLocals EXCEPT !.ret = th[s].ret] \in Locals /\ th[s].ret \in Labels
      BY Zenon, <1>t, LocalsTypes DEF Locals
    <3> QED BY Zenon, <1>19, <1>a, <3>1, GotoTypes DEF CountUnlinked
  <2> QED BY Zenon, <1>19, <2>1, <2>2, TypeFrame DEF CountUnlinked, TypeOK
<1>20. ASSUME connect_server(s) PROVE TypeOK'
  <2>1. SlotTypes'
    BY <1>20, AddTypes DEF connect_server, SlotTypes
  <2>2. StrmTypes'
    <3>1. /\ strm' = [strm EXCEPT ![s].st = "CON", ![s].curr = TRUE]
          /\ UNCHANGED <<pend, woken>>
      BY Zenon, <1>20 DEF connect_server
    <3>2. [strm[s] EXCEPT !.st = "CON", !.curr = TRUE] \in Stream
      BY Zenon, <1>t DEF Stream, States
    <3> QED BY Zenon, <3>1, <3>2 DEF StrmTypes
  <2> QED BY Zenon, <1>20, <2>1, <2>2, TypeFrame DEF connect_server, TypeOK
<1>21. ASSUME EndOfStream(s) PROVE TypeOK'
  <2>1. SlotTypes'
    BY Zenon, <1>21, <1>v DEF EndOfStream
  <2>2. StrmTypes'
    BY ZenonT(30), <1>21 DEF EndOfStream, StrmTypes, Stream, States, NServer, LeaveServer
  <2>3. ProcTypes'
    BY Zenon, <1>21, <1>r, <1>t, <1>l DEF EndOfStream
  <2> QED BY Zenon, <1>21, <2>1, <2>2, <2>3, TypeFrame DEF EndOfStream, LeaveServer, TypeOK
<1>22. ASSUME RetrySameServer(s) PROVE TypeOK'
  <2>1. SlotTypes'
    BY Zenon, <1>22, <1>v DEF RetrySameServer
  <2>2. StrmTypes'
    <3>1. strm[s].retries + 1 \in 0 .. MaxRetries
      BY <1>22, <1>t, QueueAssumption DEF RetrySameServer, Stream
    <3> QED BY ZenonT(30), <1>22, <3>1 DEF RetrySameServer, LeaveServer, StrmTypes, Stream, States
  <2> QED BY Zenon, <1>22, <2>1, <2>2, TypeFrame DEF RetrySameServer, LeaveServer, TypeOK
<1>23. ASSUME Redispatch(s) PROVE TypeOK'
  <2>1. SlotTypes'
    BY Zenon, <1>23, <1>v DEF Redispatch
  <2>2. StrmTypes'
    <3>1. strm[s].retries + 1 \in 0 .. MaxRetries
      BY <1>23, <1>t, QueueAssumption DEF Redispatch, Stream
    <3> QED BY ZenonT(30), <1>23, <3>1 DEF Redispatch, LeaveServer, StrmTypes, Stream, States
  <2>3. ProcTypes'
    BY Zenon, <1>23, <1>r, <1>t, <1>l DEF Redispatch
  <2> QED BY Zenon, <1>23, <2>1, <2>2, <2>3, TypeFrame DEF Redispatch, LeaveServer, TypeOK
<1>24. ASSUME DetachSlot(s) PROVE TypeOK'
  <2>1. SlotTypes'
    BY <1>24 DEF DetachSlot, SlotTypes
  <2>2. StrmTypes'
    BY SMTT(30), <1>24 DEF DetachSlot, StrmTypes, Stream, States, NServer
  <2>3. ProcTypes'
    <3>1. strm[s].srv_conn \in Owners \cup {NULL}
      BY Zenon, <1>t DEF NServer, Owners
    <3>2. th[s] \in Locals
      BY Zenon, <1>a DEF ProcTypes
    <3>3. [th[s] EXCEPT !.owner = strm[s].srv_conn] \in Locals
      BY <3>1, <3>2 DEF Locals
    <3>4. "drop" \in Labels
      BY Zenon DEF Labels
    <3> QED BY Zenon, <1>24, <1>a, <3>3, <3>4 DEF DetachSlot, ProcTypes, Goto
  <2> QED BY Zenon, <1>24, <2>1, <2>2, <2>3, TypeFrame DEF DetachSlot, TypeOK
<1>25. ASSUME DropSlot(s) PROVE TypeOK'
  <2>1. SlotTypes'
    BY <1>25, AddTypes DEF DropSlot, SlotTypes
  <2>2. ProcTypes'
    BY Zenon, <1>25 DEF DropSlot, ProcTypes, Labels, Locals, Procs, Goto
  <2> QED BY Zenon, <1>25, <2>1, <2>2, TypeFrame DEF DropSlot, TypeOK
<1>26. ASSUME MayDequeue(s) PROVE TypeOK'
  <2>1. ProcTypes'
    BY Zenon, <1>26, <1>c, <1>t, <1>l DEF MayDequeue
  <2> QED BY Zenon, <1>26, <2>1, TypeFrame DEF MayDequeue, TypeOK
<1>27. ASSUME StreamFree(s) PROVE TypeOK'
  <2>1. StrmTypes'
    BY Zenon, <1>27 DEF StreamFree, StrmTypes, Stream, States, NServer, FreeEntry
  <2>2. ProcTypes'
    <3>1. CASE pend[s] # NULL
      BY SMTT(30), <1>27, <1>a, <3>1 DEF StreamFree, ProcTypes, Labels, Locals, Goto
    <3>2. CASE pend[s] = NULL
      BY Zenon, <1>27, <1>c, <1>t, <1>l, <3>2 DEF StreamFree, FreeEntry
    <3> QED BY Zenon, <3>1, <3>2
  <2> QED BY Zenon, <1>27, <2>1, <2>2, TypeFrame DEF StreamFree, TypeOK
<1>28. ASSUME FreeUnlinked(s) PROVE TypeOK'
  <2>1. StrmTypes'
    BY Zenon, <1>28 DEF FreeUnlinked, StrmTypes, Stream, States, NServer, FreeEntry
  <2>2. ProcTypes'
    BY Zenon, <1>28, <1>c, <1>t, <1>l DEF FreeUnlinked, FreeEntry
  <2> QED BY Zenon, <1>28, <2>1, <2>2, TypeFrame DEF FreeUnlinked, TypeOK
<1>29. ASSUME FreeSlot(s) PROVE TypeOK'
  <2>1. ProcTypes'
    BY Zenon, <1>29, <1>r, <1>t, <1>l DEF FreeSlot
  <2> QED BY Zenon, <1>29, <2>1, TypeFrame DEF FreeSlot, TypeOK
<1>30. ASSUME Gone(s) PROVE TypeOK'
  <2>1. StrmTypes'
    <3>1. [NewStream EXCEPT !.st = "GONE", !.srv_conn = strm[s].srv_conn] \in Stream
      <4>1. 0 \in 0 .. MaxRetries
        BY QueueAssumption
      <4> QED BY Zenon, <1>t, <4>1 DEF NewStream, Stream, States, NServer
    <3> QED BY Zenon, <1>30, <3>1 DEF Gone, StrmTypes
  <2>2. ProcTypes'
    BY Zenon, <1>30 DEF Gone, ProcTypes, Labels, Locals, Procs, Goto
  <2> QED BY Zenon, <1>30, <2>1, <2>2, TypeFrame DEF Gone, TypeOK
<1>31. ASSUME AbortConnection(s) PROVE TypeOK'
  <2>1. StrmTypes'
    <3>1. strm' = [strm EXCEPT ![s].st = "CLO"] /\ UNCHANGED <<pend, woken>>
      BY Zenon, <1>31 DEF AbortConnection
    <3>2. [strm[s] EXCEPT !.st = "CLO"] \in Stream
      BY Zenon, <1>t DEF Stream, States
    <3> QED BY Zenon, <3>1, <3>2 DEF StrmTypes
  <2> QED BY Zenon, <1>31, <2>1, TypeFrame DEF AbortConnection, TypeOK
<1> QED
  <2>1. assign_server_and_queue(s) => TypeOK'
    BY ZenonT(30), <1>2, <1>3, <1>4, <1>5, <1>6, <1>7, <1>8, <1>9, <1>10, <1>11, <1>12, <1>13, <1>14
       DEF assign_server_and_queue
  <2>2. LeaveQueue(s) => TypeOK'
    BY Zenon, <1>15, <1>16, <1>17, <1>18, <1>19 DEF LeaveQueue
  <2>3. Serve(s) => TypeOK'
    BY ZenonT(30), <1>20, <1>21, <1>22, <1>23, <1>24, <1>25, <1>26, <1>31 DEF Serve
  <2>4. stream_free(s) => TypeOK'
    BY Zenon, <1>27, <1>28, <1>29, <1>30 DEF stream_free
  <2> QED BY Zenon, <1>1, <2>1, <2>2, <2>3, <2>4
-----------------------------------------------------------------------------
(* The next group of the round, when there is another one. *)
LEMMA NextOtherType ==
  ASSUME TurnTypes, NEW p \in Procs, th[p].srv \in Servers, th[p].grps \in SUBSET Groups,
         th[p].grps \ {Group[p]} # {}
  PROVE  NextOther(p) \in th[p].grps
<1> DEFINE last == last_other[OwnTurn(p)]
           n == Cardinality(Groups)
           Rank(g) == (g - last - 1) % n
           others == th[p].grps \ {Group[p]}
<1>1. n \in Nat \ {0} /\ Groups \subseteq Int
  BY QueueAssumption, FS_CardinalityType DEF Procs
<1>2. last \in Int
  BY <1>1, QueueAssumption DEF TurnTypes, OwnTurn
<1> HIDE DEF last, n
<1>3. \A g \in others : Rank(g) \in Nat
  <2> SUFFICES ASSUME NEW g \in others PROVE Rank(g) \in Nat
    BY Zenon
  <2>0. g \in Int
    BY Zenon, <1>1
  <2>1. g - last - 1 \in Int
    BY <1>2, <2>0
  <2>2. (g - last - 1) % n \in 0 .. n - 1
    BY Zenon, <1>1, <2>1, ModRange
  <2> QED BY <1>1, <2>2
<1> HIDE DEF Rank
<1> DEFINE R == {Rank(g) : g \in others}
<1>4. R \in SUBSET Nat /\ R # {}
  BY Zenon, <1>3
<1>5. PICK r \in R : \A y \in R : r <= y
  BY Zenon, <1>4, LeastNat
<1>6. \E g \in others : \A h \in others : Rank(g) <= Rank(h)
  BY Zenon, <1>5
<1>7. NextOther(p) = CHOOSE g \in others : \A h \in others : Rank(g) <= Rank(h)
  BY Zenon DEF NextOther, Rank, last, n
<1> QED BY Zenon, <1>6, <1>7

(* PickGroup() names a group that is left to visit. *)
LEMMA PickGroupType ==
  ASSUME TurnTypes, NEW p \in Procs, th[p].srv \in Servers, th[p].grps \in SUBSET Groups,
         th[p].grps # {}
  PROVE  PickGroup(p).cur \in th[p].grps /\ PickGroup(p).todo \in Int
<1>0. IsFiniteSet(th[p].grps) /\ Group[p] \in Groups
  BY Zenon, QueueAssumption, FS_Subset
<1>1. CASE Group[p] \notin th[p].grps \/ TurnIsOver(p)
  <2>1. th[p].grps \ {Group[p]} # {}
    <3>1. CASE Group[p] \notin th[p].grps
      BY Zenon, <3>1
    <3>2. CASE th[p].grps = {Group[p]}
      <4>1. Cardinality(th[p].grps) = 1
        BY Zenon, <3>2, FS_Singleton
      <4> QED BY <1>1, <3>2, <4>1 DEF TurnIsOver
    <3> QED BY Zenon, <3>1, <3>2
  <2> QED BY <1>1, <2>1, NextOtherType DEF PickGroup
<1>2. CASE ~(Group[p] \notin th[p].grps \/ TurnIsOver(p))
  <2>1. self_served[OwnTurn(p)] \in Int
    BY <1>0, QueueAssumption DEF TurnTypes, OwnTurn
  <2>2. MaxSelfUse \in Nat \ {0}
    BY Zenon, QueueAssumption
  <2>3. self_served[OwnTurn(p)] % MaxSelfUse \in 0 .. MaxSelfUse - 1
    BY Zenon, <2>1, <2>2, ModRange
  <2> QED BY <1>2, <2>2, <2>3 DEF PickGroup
<1> QED BY Zenon, <1>1, <1>2

(* The types after a step of process_srv_queue(). *)
LEMMA DequeueTypes ==
  ASSUME TypeOK, ProcsOK, StreamsOK, QueuesOK, NEW p \in Procs, process_srv_queue(p)
  PROVE  TypeOK'
<1> USE DEF TypeOK
<1>a. ControlOK(p) /\ EntryOK(p)
  BY Zenon DEF ProcsOK
<1>l. Dequeuing \subseteq Labels
  BY Zenon DEF Dequeuing, Locked, Labels
<1>t. /\ th[p] \in Locals /\ th[p].srv \in NServer /\ th[p].ret \in Labels
      /\ th[p].grps \in SUBSET Groups /\ th[p].cur \in Groups /\ th[p].done \in Nat
      /\ th[p].p \in Streams \cup {NULL} /\ th[p].pp \in Streams \cup {NULL}
      /\ PxQueue(p) \in Queues
  BY Zenon DEF ProcTypes, Locals, PxQueue, Queues, Owners
<1>n. NothingDone(p) => ProcTypes'
  BY DEF NothingDone, ProcTypes, Labels, Locals, Goto
<1>r. Return(p) => ProcTypes'
  BY Zenon, <1>t, LocalsTypes, GotoTypes DEF Return
<1>u. UnlockPx(p) \in [Queues -> Procs \cup {NULL}]
  BY Zenon DEF UnlockPx, LinkTypes
<1>w. ASSUME NEW q, NEW s \in Streams
      PROVE  [tree EXCEPT ![q] = Without(@, s)] \in [Queues -> Seq(Streams)]
  <2>1. \A x \in Queues : Without(tree[x], s) \in Seq(Streams)
    BY Zenon, WithoutSeq DEF QueuesOK, LinkTypes
  <2> QED BY Zenon, <2>1 DEF LinkTypes
<1>g. ASSUME NEW s \in Streams, pend[s] # NULL, th[p].srv \in Servers,
             pend' = Assign(s, th[p].srv), strm' = [strm EXCEPT ![s].srv_conn = th[p].srv],
             woken' = [woken EXCEPT ![s] = TRUE]
      PROVE  StrmTypes'
  <2>1. pend[s] \in Entry /\ strm[s] \in Stream
    BY Zenon, <1>g DEF StrmTypes
  <2>2. [pend[s] EXCEPT !.assigned = TRUE, !.target = th[p].srv] \in Entry
    BY Zenon, <1>t, <2>1 DEF Entry
  <2>3. [strm[s] EXCEPT !.srv_conn = th[p].srv] \in Stream
    BY Zenon, <1>t, <2>1 DEF Stream
  <2> QED BY Zenon, <1>g, <2>2, <2>3 DEF StrmTypes, Assign
<1>1. ASSUME LoopHead(p) PROVE TypeOK'
  <2>0. th[p].srv \in Servers
    BY Zenon, <1>1, <1>a DEF LoopHead, ControlOK, Dequeuing
  <2>1. th[p].grps # {} => PickGroup(p).cur \in Groups /\ PickGroup(p).todo \in Int
    BY Zenon, <1>t, <2>0, PickGroupType
  <2>2. TurnTypes'
    BY Zenon, <1>1, <2>1 DEF LoopHead, TurnTypes
  <2>3. ProcTypes'
    BY SMTT(30), <1>1, <2>1 DEF LoopHead, ProcTypes, Labels, Locals, Goto
  <2> QED BY Zenon, <1>1, <2>2, <2>3, TypeFrame DEF LoopHead
<1>2. ASSUME TakeTurn(p) PROVE TypeOK'
  <2>1. TurnTypes'
    BY Zenon, <1>2 DEF TakeTurn, TurnTypes
  <2>2. ProcTypes'
    <3>1. [th[p] EXCEPT !.grps = @ \ {th[p].cur}] \in Locals
      BY Zenon, <1>t DEF Locals
    <3>2. pc'[p] \in Labels /\ pc' = [pc EXCEPT ![p] = pc'[p]]
      BY Zenon, <1>2 DEF TakeTurn, ProcTypes, Labels, Goto
    <3>3. th' = th \/ th' = [th EXCEPT ![p] = [th[p] EXCEPT !.grps = @ \ {th[p].cur}]]
      BY Zenon, <1>2 DEF TakeTurn
    <3> QED BY Zenon, <3>1, <3>2, <3>3 DEF ProcTypes
  <2> QED BY Zenon, <1>2, <2>1, <2>2, TypeFrame DEF TakeTurn
<1>3. ASSUME LockServerQueue(p) PROVE TypeOK'
  <2>1. LinkTypes'
    BY Zenon, <1>3 DEF LockServerQueue, LinkTypes
  <2>2. ProcTypes'
    BY Zenon, <1>3 DEF LockServerQueue, ProcTypes, Labels, Goto
  <2> QED BY Zenon, <1>3, <2>1, <2>2, TypeFrame DEF LockServerQueue
<1>4. ASSUME InnerLoop(p) PROVE TypeOK'
  <2>1. ProcTypes'
    BY Zenon, <1>4 DEF InnerLoop, ProcTypes, Labels, Goto
  <2> QED BY Zenon, <1>4, <2>1, TypeFrame DEF InnerLoop
<1>5. ASSUME PeekQueues(p) PROVE TypeOK'
  <2>0. SrvQueue(p) \in Queues
    BY Zenon, <1>5, <1>a, <1>t DEF PeekQueues, ControlOK, Dequeuing, Locked, SrvQueue, Queues, Owners
  <2>1. LinkTypes'
    BY Zenon, <1>5 DEF PeekQueues, LinkTypes
  <2>2. ProcTypes'
    <3> DEFINE e == IF length[SrvQueue(p)] > 0 THEN First(tree[SrvQueue(p)]) ELSE NULL
               ee == IF th[p].px_ok /\ length[PxQueue(p)] > 0 THEN First(tree[PxQueue(p)]) ELSE NULL
    <3>1. e \in Streams \cup {NULL} /\ ee \in Streams \cup {NULL}
      BY Zenon, <1>t, <2>0, FirstSeq DEF LinkTypes
    <3>2. NothingDone(p) \/ (Goto(p, "reserve") /\ th' = [th EXCEPT ![p].p = e, ![p].pp = ee])
      BY Zenon, <1>5 DEF PeekQueues
    <3> HIDE DEF e, ee
    <3>3. [th[p] EXCEPT !.p = e, !.pp = ee] \in Locals
      BY ZenonT(30), <1>t, <3>1 DEF Locals
    <3>4. "reserve" \in Labels
      BY Zenon DEF Labels
    <3>5. ASSUME Goto(p, "reserve"), th' = [th EXCEPT ![p].p = e, ![p].pp = ee]
          PROVE  ProcTypes'
      <4>1. th' = [th EXCEPT ![p] = [th[p] EXCEPT !.p = e, !.pp = ee]]
        BY Zenon, <3>5
      <4> QED BY Zenon, <1>t, <3>3, <3>4, <3>5, <4>1 DEF ProcTypes, Goto
    <3> QED BY Zenon, <1>n, <3>2, <3>5
  <2> QED BY Zenon, <1>5, <2>1, <2>2, TypeFrame DEF PeekQueues
<1>6. ASSUME ReserveSlot(p) PROVE TypeOK'
  <2>1. SlotTypes'
    BY <1>6, AddTypes DEF ReserveSlot, SlotTypes
  <2>2. LinkTypes'
    BY Zenon, <1>6, <1>u DEF ReserveSlot, LinkTypes
  <2>3. ProcTypes'
    BY ZenonT(30), <1>6, <1>n DEF ReserveSlot, ProcTypes, Labels, Goto
  <2> QED BY ZenonT(30), <1>6, <2>1, <2>2, <2>3, TypeFrame DEF ReserveSlot
<1>7. ASSUME UseServerEntry(p) PROVE TypeOK'
  <2>0. th[p].p \in Streams /\ th[p].srv \in Servers /\ pend[th[p].p] # NULL
    <3>1. th[p].p # NULL /\ th[p].srv \in Servers
      BY Zenon, <1>7, <1>a DEF UseServerEntry, ControlOK, Dequeuing, Locked, UsePp
    <3>2. InSeq(th[p].p, tree[SrvQueue(p)]) /\ SrvQueue(p) \in Queues
      BY Zenon, <1>a, <1>t, <3>1 DEF EntryOK, SrvQueue, Queues, Owners
    <3> QED BY Zenon, <1>t, <3>1, <3>2 DEF StreamsOK, LinkOK, Linked, Waits
  <2>1. LinkTypes'
    BY Zenon, <1>7, <1>u, <1>w, <2>0 DEF UseServerEntry, LinkTypes
  <2>2. StrmTypes'
    BY Zenon, <1>7, <1>g, <2>0 DEF UseServerEntry
  <2>3. ProcTypes'
    <3>1. [th[p] EXCEPT !.p = NULL, !.pp = NULL] \in Locals
      BY Zenon, <1>t DEF Locals
    <3> QED BY Zenon, <1>7, <3>1 DEF UseServerEntry, ProcTypes, Labels, Goto
  <2> QED BY Zenon, <1>7, <2>1, <2>2, <2>3, TypeFrame DEF UseServerEntry
<1>8. ASSUME UseProxyEntry(p) PROVE TypeOK'
  <2>0. th[p].pp \in Streams
    BY Zenon, <1>8, <1>t DEF UseProxyEntry, UsePp
  <2>1. LinkTypes'
    BY Zenon, <1>8, <1>u, <1>w, <2>0 DEF UseProxyEntry, LinkTypes
  <2>2. ProcTypes'
    BY Zenon, <1>8 DEF UseProxyEntry, ProcTypes, Labels, Goto
  <2> QED BY Zenon, <1>8, <2>1, <2>2, TypeFrame DEF UseProxyEntry
<1>9. ASSUME TellProxyEntry(p) PROVE TypeOK'
  <2>0. th[p].pp \in Streams /\ th[p].srv \in Servers /\ pend[th[p].pp] # NULL
    <3>1. th[p].pp \in Streams /\ th[p].srv \in Servers
      BY Zenon, <1>9, <1>a, <1>t DEF TellProxyEntry, ControlOK, Dequeuing, Locked
    <3>2. del_lock[th[p].pp] # NULL
      BY Zenon, <1>9, QueueAssumption DEF TellProxyEntry, ProcsOK, LockOK, Procs
    <3> QED BY Zenon, <3>1, <3>2 DEF StreamsOK, LinkOK, Waits
  <2>1. LinkTypes'
    BY Zenon, <1>9 DEF TellProxyEntry, LinkTypes
  <2>2. StrmTypes'
    BY Zenon, <1>9, <1>g, <2>0 DEF TellProxyEntry
  <2>3. ProcTypes'
    <3>1. [th[p] EXCEPT !.p = NULL, !.pp = NULL] \in Locals
      BY Zenon, <1>t DEF Locals
    <3> QED BY Zenon, <1>9, <3>1 DEF TellProxyEntry, ProcTypes, Labels, Goto
  <2> QED BY Zenon, <1>9, <2>1, <2>2, <2>3, TypeFrame DEF TellProxyEntry
<1>10. ASSUME CountDequeued(p) PROVE TypeOK'
  <2>1. CountTypes'
    BY <1>10, AddTypes DEF CountDequeued, CountTypes
  <2>2. LinkTypes'
    BY Zenon, <1>10 DEF CountDequeued, LinkTypes
  <2>3. TurnTypes'
    <3>1. MaxSelfUse + 1 \in Nat \ {0} /\ MaxSelfUse \in Nat
      BY QueueAssumption
    <3>2. \A i \in 0 .. MaxSelfUse : (i + 1) % (MaxSelfUse + 1) \in 0 .. MaxSelfUse
      BY <3>1, ModRange
    <3> QED BY <1>10, <3>2 DEF CountDequeued, TurnTypes
  <2>4. ProcTypes'
    <3>1. th[p].todo - 1 \in Int /\ th[p].done + 1 \in Nat
      BY <1>t DEF Locals
    <3> QED BY <1>10, <3>1 DEF CountDequeued, ProcTypes, Labels, Locals, Goto
  <2> QED BY ZenonT(30), <1>10, <2>1, <2>2, <2>3, <2>4, TypeFrame DEF CountDequeued
<1>11. ASSUME UnlockServerQueue(p) PROVE TypeOK'
  <2>1. LinkTypes' /\ TurnTypes'
    BY Zenon, <1>11 DEF UnlockServerQueue, LinkTypes, TurnTypes
  <2>2. ProcTypes'
    BY Zenon, <1>11 DEF UnlockServerQueue, ProcTypes, Labels, Goto
  <2> QED BY Zenon, <1>11, <2>1, <2>2, TypeFrame DEF UnlockServerQueue
<1>12. ASSUME Account(p) PROVE TypeOK'
  <2>1. SlotTypes' /\ CountTypes'
    BY <1>12, <1>t DEF Account, SlotTypes, CountTypes
  <2>2. ProcTypes'
    BY Zenon, <1>12 DEF Account, ProcTypes, Labels, Goto
  <2> QED BY ZenonT(30), <1>12, <2>1, <2>2, TypeFrame DEF Account
<1>13. ASSUME CheckIdle(p) PROVE TypeOK'
  <2>1. ProcTypes'
    BY ZenonT(30), <1>13, <1>r DEF CheckIdle, ProcTypes, Labels, Goto
  <2> QED BY Zenon, <1>13, <2>1, TypeFrame DEF CheckIdle
<1>14. ASSUME SetReady(p) PROVE TypeOK'
  <2>0. 1 \in Groups
    BY QueueAssumption, FS_CardinalityType
  <2>1. SrvTypes'
    BY Zenon, <1>14, <1>t DEF SetReady, SrvTypes
  <2>2. ProcTypes'
    <3>1. [th[p] EXCEPT !.cur = 1, !.retry = TRUE] \in Locals
      BY Zenon, <1>t, <2>0 DEF Locals
    <3> QED BY Zenon, <1>14, <3>1 DEF SetReady, ProcTypes, Labels, Goto
  <2> QED BY Zenon, <1>14, <2>1, <2>2, TypeFrame DEF SetReady
<1>15. ASSUME RetryGroup(p) PROVE TypeOK'
  <2>1. LinkTypes'
    BY Zenon, <1>15 DEF RetryGroup, LinkTypes
  <2>2. ProcTypes'
    BY Zenon, <1>15 DEF RetryGroup, ProcTypes, Labels, Goto
  <2> QED BY Zenon, <1>15, <2>1, <2>2, TypeFrame DEF RetryGroup
<1>16. ASSUME RetryAccount(p) PROVE TypeOK'
  <2>1. SlotTypes' /\ CountTypes'
    BY <1>16 DEF RetryAccount, SlotTypes, CountTypes
  <2>2. ProcTypes'
    BY Zenon, <1>16, <1>r DEF RetryAccount
  <2> QED BY Zenon, <1>16, <2>1, <2>2, TypeFrame DEF RetryAccount
<1>17. ASSUME NextGroup(p) PROVE TypeOK'
  <2>1. LinkTypes'
    BY Zenon, <1>17 DEF NextGroup, LinkTypes
  <2>2. ProcTypes'
    <3>1. th[p].cur # Cardinality(Groups) => th[p].cur + 1 \in Groups
      BY <1>t, QueueAssumption, FS_CardinalityType
    <3>2. CASE th[p].cur = Cardinality(Groups)
      BY Zenon, <1>17, <1>r, <3>2 DEF NextGroup
    <3>3. CASE th[p].cur # Cardinality(Groups)
      <4>1. [th[p] EXCEPT !.cur = th[p].cur + 1] \in Locals
        BY Zenon, <1>t, <3>1, <3>3 DEF Locals
      <4>2. th' = [th EXCEPT ![p] = [th[p] EXCEPT !.cur = th[p].cur + 1]] /\ Goto(p, "retry")
        BY Zenon, <1>17, <3>3 DEF NextGroup
      <4> QED BY Zenon, <4>1, <4>2 DEF ProcTypes, Labels, Goto
    <3> QED BY Zenon, <3>2, <3>3
  <2> QED BY Zenon, <1>17, <2>1, <2>2, TypeFrame DEF NextGroup
<1> QED BY ZenonT(30), <1>1, <1>2, <1>3, <1>4, <1>5, <1>6, <1>7, <1>8, <1>9, <1>10, <1>11, <1>12, <1>13,
           <1>14, <1>15, <1>16, <1>17 DEF process_srv_queue

(* The types after a server state change. *)
LEMMA AdminTypes ==
  ASSUME TypeOK, ProcsOK, StreamsOK, QueuesOK
  PROVE  /\ AdminStep => TypeOK'
         /\ \A v \in Servers : ServerDown(v) \/ ServerUp(v) => TypeOK'
<1> USE DEF TypeOK
<1>a. Admin \in Procs /\ ControlOK(Admin)
  BY Zenon DEF ProcsOK, Procs
<1>g. 1 \in Groups /\ Cardinality(Groups) \in Nat
  BY QueueAssumption, FS_CardinalityType DEF Procs
<1>t. /\ th[Admin] \in Locals /\ th[Admin].srv \in NServer /\ th[Admin].cur \in Groups
      /\ th[Admin].xfer \in Nat /\ th[Admin].owner \in Owners \cup {NULL}
  BY Zenon, <1>a DEF ProcTypes, Locals
<1>1. ASSUME RedistributeGroup PROVE TypeOK'
  <2> DEFINE q == <<th[Admin].owner, th[Admin].cur>>
  <2>0. q \in Queues /\ tree[q] \in Seq(Streams) /\ Len(tree[q]) \in Nat
    <3>1. th[Admin].owner \in Owners
      BY Zenon, <1>1, <1>a, <1>t DEF RedistributeGroup, ControlOK
    <3>2. q \in Queues
      BY Zenon, <1>t, <3>1 DEF Queues
    <3> QED BY <3>2 DEF LinkTypes
  <2>2. LinkTypes'
    <3>1. tree' = [tree EXCEPT ![q] = <<>>] /\ UNCHANGED <<lock, del_lock>>
      BY Zenon, <1>1 DEF RedistributeGroup
    <3>2. <<>> \in Seq(Streams)
      OBVIOUS
    <3> HIDE DEF q
    <3> QED BY Zenon, <3>1, <3>2 DEF LinkTypes
  <2>3. StrmTypes'
    <3>1. ASSUME NEW s \in Streams, s \in {tree[q][i] : i \in DOMAIN tree[q]}
          PROVE  [pend[s] EXCEPT !.assigned = FALSE, !.direct = FALSE] \in Entry
      <4>1. InSeq(s, tree[q])
        BY <2>0, <3>1 DEF InSeq
      <4>2. pend[s] \in Entry
        BY <2>0, <4>1 DEF StreamsOK, LinkOK, Linked, Waits, StrmTypes
      <4> QED BY Zenon, <4>2 DEF Entry
    <3>2. pend' \in [Streams -> Entry \cup {NULL}]
      BY Zenon, <1>1, <3>1 DEF RedistributeGroup, StrmTypes
    <3>3. woken' \in [Streams -> BOOLEAN] /\ UNCHANGED strm
      BY Zenon, <1>1 DEF RedistributeGroup
    <3> QED BY Zenon, <3>2, <3>3 DEF StrmTypes
  <2>4. ProcTypes'
    <3>1. th[Admin].xfer + Len(tree[q]) \in Nat
      BY <1>t, <2>0
    <3>2. /\ th' = [th EXCEPT ![Admin].xfer = @ + Len(tree[q]), ![Admin].done = Len(tree[q])]
          /\ Goto(Admin, "redist_len")
      BY Zenon, <1>1 DEF RedistributeGroup
    <3> HIDE DEF q
    <3>3. [th[Admin] EXCEPT !.xfer = @ + Len(tree[q]), !.done = Len(tree[q])] \in Locals
      BY Zenon, <1>t, <2>0, <3>1 DEF Locals
    <3>4. th' = [th EXCEPT ![Admin] = th'[Admin]] /\ th'[Admin] \in Locals
      BY Zenon, <1>a, <3>2, <3>3 DEF ProcTypes
    <3> QED BY Zenon, <1>a, <3>2, <3>4 DEF ProcTypes, Labels, Goto
  <2> QED BY Zenon, <1>1, <2>2, <2>3, <2>4, TypeFrame DEF RedistributeGroup
<1>7. ASSUME RedistributeLength PROVE TypeOK'
  <2>1. CountTypes'
    <3>1. - th[Admin].done \in Int
      BY <1>a DEF ProcTypes, Locals
    <3> QED BY Zenon, <1>7, <3>1, AddTypes DEF RedistributeLength, CountTypes
  <2>2. ProcTypes'
    <3>1. th[Admin].cur # Cardinality(Groups) =>
            [th[Admin] EXCEPT !.cur = th[Admin].cur + 1] \in Locals
      <4>1. th[Admin].cur # Cardinality(Groups) => th[Admin].cur + 1 \in Groups
        BY <1>t, <1>g, QueueAssumption
      <4> QED BY Zenon, <1>t, <4>1 DEF Locals
    <3>2. th' \in [Procs -> Locals]
      BY Zenon, <1>7, <1>a, <3>1 DEF RedistributeLength, ProcTypes
    <3> QED BY Zenon, <1>7, <1>a, <3>2 DEF RedistributeLength, ProcTypes, Labels, Goto
  <2> QED BY Zenon, <1>7, <2>1, <2>2, TypeFrame DEF RedistributeLength
<1>2. ASSUME CountRedistributed PROVE TypeOK'
  <2>1. CountTypes'
    <3>1. - th[Admin].xfer \in Int /\ th[Admin].xfer \in Int
      BY <1>t
    <3> QED BY <1>2, <3>1, AddTypes DEF CountRedistributed, CountTypes
  <2>2. ProcTypes'
    <3>1. [NoLocals EXCEPT !.srv = th[Admin].srv] \in Locals
      BY Zenon, <1>t, LocalsTypes DEF Locals
    <3> QED BY Zenon, <1>2, <1>a, <3>1 DEF CountRedistributed, ProcTypes, Labels, Goto
  <2> QED BY Zenon, <1>2, <2>1, <2>2, TypeFrame DEF CountRedistributed
<1>3. ASSUME RedistributeProxy PROVE TypeOK'
  <2>1. [th[Admin] EXCEPT !.owner = Px, !.cur = 1] \in Locals
    BY Zenon, <1>t, <1>g DEF Locals, Owners
  <2>2. ProcTypes'
    BY Zenon, <1>3, <1>a, <2>1 DEF RedistributeProxy, ProcTypes, Labels, Goto
  <2> QED BY Zenon, <1>3, <2>2, TypeFrame DEF RedistributeProxy
<1>4. ASSUME ClearReady PROVE TypeOK'
  <2>1. SrvTypes'
    BY Zenon, <1>4 DEF ClearReady, SrvTypes, NServer
  <2>2. ProcTypes'
    BY Zenon, <1>4, <1>a, LocalsTypes DEF ClearReady, ProcTypes, Labels, Goto
  <2> QED BY Zenon, <1>4, <2>1, <2>2, TypeFrame DEF ClearReady
<1>5. ASSUME NEW v \in Servers, ServerDown(v) PROVE TypeOK'
  <2>1. SrvTypes'
    <3>1. flaps + 1 \in 0 .. MaxFlaps
      BY <1>5, QueueAssumption DEF ServerDown, SrvTypes
    <3>2. state' \in [Servers -> {"up", "stopped", "maint", "drain"}]
      BY Zenon, <1>5, QueueAssumption DEF ServerDown, SrvTypes
    <3> QED BY Zenon, <1>5, <3>1, <3>2 DEF ServerDown, SrvTypes
  <2>2. ProcTypes'
    <3>1. [NoLocals EXCEPT !.srv = v, !.owner = v] \in Locals
      BY Zenon, LocalsTypes DEF Locals, NServer, Owners
    <3> QED BY ZenonT(30), <1>5, <1>a, <3>1 DEF ServerDown, ProcTypes, Labels, Goto
  <2> QED BY Zenon, <1>5, <2>1, <2>2, TypeFrame DEF ServerDown
<1>6. ASSUME NEW v \in Servers, ServerUp(v) PROVE TypeOK'
  <2>1. SrvTypes'
    BY Zenon, <1>6 DEF ServerUp, SrvTypes
  <2>2. ProcTypes'
    <3>1. "idle" \in Labels /\ v \in NServer
      BY Zenon DEF Labels, NServer
    <3>2. [ProcessQueue(v, "idle") EXCEPT !.px_ok = TRUE] \in Locals
      BY Zenon, <3>1, LocalsTypes DEF Locals
    <3> QED BY ZenonT(30), <1>6, <1>a, <3>2 DEF ServerUp, ProcTypes, Labels, Goto
  <2> QED BY Zenon, <1>6, <2>1, <2>2, TypeFrame DEF ServerUp
<1> QED BY Zenon, <1>1, <1>2, <1>3, <1>4, <1>5, <1>6, <1>7, <1>a, DequeueTypes DEF AdminStep

(* The types hold at the start. *)
LEMMA InitTypes == Init => TypeOK
<1> SUFFICES ASSUME Init PROVE TypeOK
  BY Zenon
<1>1. NewStream \in Stream
  BY QueueAssumption DEF NewStream, Stream, States, NServer
<1>2. SlotTypes /\ CountTypes /\ LinkTypes
  BY DEF Init, SlotTypes, CountTypes, LinkTypes
<1>3. TurnTypes /\ SrvTypes
  BY QueueAssumption DEF Init, TurnTypes, SrvTypes, NServer
<1>4. StrmTypes /\ ProcTypes
  BY ZenonT(30), <1>1, LocalsTypes DEF Init, StrmTypes, ProcTypes, Labels
<1> QED BY Zenon, <1>2, <1>3, <1>4 DEF TypeOK

(* Every step keeps the types. *)
LEMMA NextTypes ==
  ASSUME TypeOK, ProcsOK, StreamsOK, QueuesOK, [Next]_vars
  PROVE  TypeOK'
<1>1. CASE UNCHANGED vars
  BY Zenon, <1>1, TypeFrame DEF TypeOK, vars
<1>2. ASSUME NEW s \in Streams, Arrive(s) \/ StreamStep(s) PROVE TypeOK'
  BY Zenon, <1>2, StreamTypes, DequeueTypes DEF StreamStep, Procs
<1>3. CASE AdminStep
  BY Zenon, <1>3, AdminTypes
<1>4. ASSUME NEW v \in Servers, ServerDown(v) \/ ServerUp(v) PROVE TypeOK'
  BY Zenon, <1>4, AdminTypes
<1> QED BY Zenon, <1>1, <1>2, <1>3, <1>4 DEF Next, Over
=============================================================================
