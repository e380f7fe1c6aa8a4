-------------------------------- MODULE Ring --------------------------------
(***************************************************************************)
(* Ring buffers (ring.c): messages of many threads, kept until they are    *)
(* overwritten, and read by applets that follow.                           *)
(*                                                                         *)
(* The storage is modelled byte by byte. It is a series of readers counts, *)
(* each followed by a message: its length, in one byte, and its payload,   *)
(* which repeats the number of the message. Threads that want to write put *)
(* themselves in a queue; the last one leads: it takes the tail, writes    *)
(* the messages of all that queued before it and releases them.            *)
(*                                                                         *)
(* A step is one access to a shared word, or the copy of one message.      *)
(***************************************************************************)
EXTENDS Integers, Sequences, FiniteSets, SequencesExt

CONSTANTS NbWriters,    \* writers are 1 .. NbWriters
          Readers,
          NONE,         \* no cell
          RingQueue,    \* queue of each writer (ti->ring_queue)
          MsgLen,       \* payload length of each message
          MaxMsgs,      \* bound on the messages of a writer
          Size,         \* storage size
          MaxReaders,   \* RING_MAX_READERS
          Seeks         \* whether readers only want new messages

ASSUME RingAssumption ==
  /\ NbWriters \in Nat \ {0} /\ MaxMsgs \in Nat \ {0}
  /\ MsgLen \in [1 .. NbWriters * MaxMsgs -> Nat \ {0}]
  /\ DOMAIN RingQueue = 1 .. NbWriters
  /\ Size \in Nat /\ Size >= 2 /\ MaxReaders \in Nat \ {0}
  /\ Seeks \subseteq BOOLEAN /\ NONE \notin 1 .. NbWriters

Writers == 1 .. NbWriters
Messages == 1 .. NbWriters * MaxMsgs
Queues == {RingQueue[w] : w \in Writers}
WRITING == MaxReaders + 1                               \* RING_WRITING_SIZE

VARIABLES area, head, tail, locked,   \* the storage; the lock bit of the tail
          queue,                      \* last cell of each queue
          cell,                       \* cell of a writer: next, needed_tot, to_send_self
          pc, loc, sent,              \* writers: next step, locals, number of messages
          rpc, rd,                    \* readers: next step, locals and context
          readers_count, waiters, woken,
          pending, waking,
          log, gone, from, got        \* ghosts, see RingLog

storage == <<area, head, tail, locked>>
writers == <<queue, cell, pc, loc, sent>>
readers == <<rpc, rd, readers_count, waiters, woken>>
ghosts  == <<log, gone, from, got>>
vars == <<storage, writers, readers, pending, waking, ghosts>>

Init ==
  /\ area = [o \in 0 .. Size - 1 |-> 0] /\ head = 0 /\ tail = 1 /\ locked = FALSE
  /\ queue = [q \in Queues |-> NONE]
  /\ cell = [w \in Writers |-> [next |-> w, tot |-> 0, send |-> 0]]
  /\ pc = [w \in Writers |-> "done"]
  /\ loc = [w \in Writers |-> [tail |-> 0, head |-> 0, readers |-> 0, cut |-> 0, cur |-> w, pos |-> 0]]
  /\ sent = [w \in Writers |-> 0]
  /\ rpc = [r \in Readers |-> "off"]
  /\ rd = [r \in Readers |-> [ofs |-> -1, head |-> 0, tail |-> 0, ret |-> FALSE]]
  /\ readers_count = 0 /\ waiters = {} /\ woken = {}
  /\ pending = FALSE /\ waking = FALSE
  /\ log = <<>> /\ gone = 0
  /\ from = [r \in Readers |-> -1] /\ got = [r \in Readers |-> <<>>]

Fwd(o, n) == (o + n) % Size
Used(h, t) == (t - h) % Size                            \* vp_size()
CountAt(t) == Fwd(t, Size - 1)                          \* the readers count before a tail
Goto(w, l) == pc' = [pc EXCEPT ![w] = l]
RGoto(r, l) == rpc' = [rpc EXCEPT ![r] = l]

Msg(w) == w + NbWriters * (sent[w] - 1)
Needed(m) == 1 + MsgLen[m] + 1
NewTail(w) == Fwd(loc[w].tail, cell[w].tot)
-----------------------------------------------------------------------------
(* ring_write() *)

(* The length is checked and the cell becomes the last one of its queue. *)
ring_write(w) ==
  /\ pc[w] = "done" /\ sent[w] < MaxMsgs
  /\ sent' = [sent EXCEPT ![w] = @ + 1]
  /\ LET n == Needed(Msg(w)') q == RingQueue[w] IN
     IF n + 1 > Size
     THEN cell' = [cell EXCEPT ![w] = [next |-> w, tot |-> 0, send |-> 0]] /\ UNCHANGED <<queue, pc>>
     ELSE /\ queue' = [queue EXCEPT ![q] = w]
          /\ cell' = [cell EXCEPT ![w] = [next |-> queue[q], tot |-> 0, send |-> n]]
          /\ Goto(w, "sum")
  /\ UNCHANGED <<storage, loc, readers, pending, waking, ghosts>>

(* The size of all messages queued before is added, once it is known. *)
SumNeeded(w) ==
  /\ pc[w] = "sum"
  /\ LET n == cell[w].next IN
     /\ n # NONE => cell[n].tot # 0
     /\ cell' = [cell EXCEPT ![w].tot = @ + Needed(Msg(w)) + IF n = NONE THEN 0 ELSE cell[n].tot]
  /\ Goto(w, "lead")
  /\ UNCHANGED <<storage, queue, loc, sent, readers, pending, waking, ghosts>>

(* Another thread took the lead. *)
LoseLead(w) ==
  /\ pc[w] = "lead" /\ queue[RingQueue[w]] # w
  /\ Goto(w, "flush")
  /\ UNCHANGED <<storage, queue, cell, loc, sent, readers, pending, waking, ghosts>>

TakeTail(w) ==
  /\ pc[w] = "lead" /\ ~locked
  /\ locked' = TRUE
  /\ loc' = [loc EXCEPT ![w].tail = tail]
  /\ Goto(w, "reset")
  /\ UNCHANGED <<area, head, tail, queue, cell, sent, readers, pending, waking, ghosts>>

(* Still the leader: nobody can queue behind this cell any more. Otherwise *)
(* the tail is given back.                                                 *)
ResetQueue(w) ==
  /\ pc[w] = "reset"
  /\ IF queue[RingQueue[w]] = w
     THEN queue' = [queue EXCEPT ![RingQueue[w]] = NONE] /\ Goto(w, "lock") /\ UNCHANGED locked
     ELSE locked' = FALSE /\ Goto(w, "flush") /\ UNCHANGED queue
  /\ UNCHANGED <<area, head, tail, cell, loc, sent, readers, pending, waking, ghosts>>

LockArea(w) ==
  /\ pc[w] = "lock"
  /\ LET c == CountAt(loc[w].tail) IN
     /\ area' = [area EXCEPT ![c] = WRITING]
     /\ loc' = [loc EXCEPT ![w].head = head, ![w].cut = 0, ![w].readers = area[c]]
  /\ Goto(w, "trim")
  /\ UNCHANGED <<head, tail, locked, queue, cell, sent, readers, pending, waking, ghosts>>

Fits(w) == Used(loc[w].head, loc[w].tail) + cell[w].tot + 1 + 1 <= Size

(* The oldest messages make room, up to the first one that is read, or     *)
(* still written.                                                          *)
Trim(w) ==
  /\ pc[w] = "trim"
  /\ IF Fits(w) THEN Goto(w, "head") /\ UNCHANGED loc
     ELSE IF area[loc[w].head] # 0 THEN Goto(w, "full") /\ UNCHANGED loc
     ELSE /\ loc' = [loc EXCEPT ![w].head = Fwd(@, 2 + area[Fwd(@, 1)]), ![w].cut = @ + 1]
          /\ UNCHANGED pc
  /\ UNCHANGED <<storage, queue, cell, sent, readers, pending, waking, ghosts>>

SetHead(w) ==
  /\ pc[w] = "head"
  /\ head' = loc[w].head /\ gone' = gone + loc[w].cut
  /\ Goto(w, "new_count")
  /\ UNCHANGED <<area, tail, locked, queue, cell, loc, sent, readers, pending, waking, log, from, got>>

(* The next readers count is ready before another writer may take it. *)
NewCount(w) ==
  /\ pc[w] = "new_count"
  /\ area' = [area EXCEPT ![CountAt(NewTail(w))] = 0]
  /\ Goto(w, "tail")
  /\ UNCHANGED <<head, tail, locked, queue, cell, loc, sent, readers, pending, waking, ghosts>>

(* The cells of a group, from its leader on. *)
Group(w) ==
  LET G[n \in 0 .. NbWriters] ==
        IF n = 0 THEN <<w>>
        ELSE LET g == G[n - 1] last == g[Len(g)] IN
             IF cell[last].next = NONE THEN g ELSE Append(g, cell[last].next)
  IN  G[NbWriters]

SetTail(w) ==
  /\ pc[w] = "tail"
  /\ tail' = NewTail(w) /\ locked' = FALSE
  /\ loc' = [loc EXCEPT ![w].cur = w, ![w].pos = loc[w].tail]
  /\ log' = log \o [i \in 1 .. Len(Group(w)) |-> Msg(Group(w)[i])]
  /\ Goto(w, "copy")
  /\ UNCHANGED <<area, head, queue, cell, sent, readers, pending, waking, gone, from, got>>

(* One message is copied, and the readers count after it unless it is the  *)
(* last one.                                                               *)
Copy(w) ==
  /\ pc[w] = "copy"
  /\ LET c == loc[w].cur m == Msg(c) n == cell[c].next p == loc[w].pos
         used == (IF n = NONE THEN 0 ELSE 1) + MsgLen[m]
         at(o) == Used(p, o)
     IN  /\ area' = [o \in DOMAIN area |->
                       IF at(o) = 0 THEN MsgLen[m]
                       ELSE IF at(o) <= MsgLen[m] THEN m
                       ELSE IF at(o) = MsgLen[m] + 1 /\ n # NONE THEN 0
                       ELSE area[o]]
         /\ loc' = [loc EXCEPT ![w].cur = IF n = NONE THEN w ELSE n, ![w].pos = Fwd(p, 1 + used)]
         /\ Goto(w, IF n = NONE THEN "release" ELSE "copy")
  /\ UNCHANGED <<head, tail, locked, queue, cell, sent, readers, pending, waking, ghosts>>

(* Only the cell of the leader is released. *)
ReleaseLeader(w) ==
  /\ pc[w] = "release"
  /\ cell' = [cell EXCEPT ![w].next = w]
  /\ Goto(w, "unlock")
  /\ UNCHANGED <<storage, queue, loc, sent, readers, pending, waking, ghosts>>

(* A cell is released by making it point to itself: its thread returns. *)
Release(w) ==
  /\ pc[w] = "release"
  /\ LET c == loc[w].cur n == cell[c].next IN
     /\ cell' = [cell EXCEPT ![c].next = c]
     /\ loc' = [loc EXCEPT ![w].cur = IF n = NONE THEN w ELSE n]
     /\ Goto(w, IF n = NONE THEN "unlock" ELSE "release")
  /\ UNCHANGED <<storage, queue, sent, readers, pending, waking, ghosts>>


Unlock(w) ==
  /\ pc[w] = "unlock"
  /\ area' = [area EXCEPT ![CountAt(loc[w].tail)] = loc[w].readers]
  /\ Goto(w, "notify")
  /\ UNCHANGED <<head, tail, locked, queue, cell, loc, sent, readers, pending, waking, ghosts>>

(* No room: readers first, then the tail, then the cells. *)
UnlockFull(w) ==
  /\ pc[w] = "full"
  /\ area' = [area EXCEPT ![CountAt(loc[w].tail)] = loc[w].readers]
  /\ Goto(w, "full_tail")
  /\ UNCHANGED <<head, tail, locked, queue, cell, loc, sent, readers, pending, waking, ghosts>>

TailFull(w) ==
  /\ pc[w] = "full_tail"
  /\ locked' = FALSE
  /\ loc' = [loc EXCEPT ![w].cur = w]
  /\ Goto(w, "drop")
  /\ UNCHANGED <<area, head, tail, queue, cell, sent, readers, pending, waking, ghosts>>

(* The cells are released as if their messages had been sent. *)
DropSent(w) ==
  /\ pc[w] = "drop"
  /\ LET c == loc[w].cur n == cell[c].next IN
     /\ cell' = [cell EXCEPT ![c].next = c]
     /\ loc' = [loc EXCEPT ![w].cur = IF n = NONE THEN w ELSE n]
     /\ Goto(w, IF n = NONE THEN "done" ELSE "drop")
  /\ UNCHANGED <<storage, queue, sent, readers, pending, waking, ghosts>>

Drop(w) ==
  /\ pc[w] = "drop"
  /\ LET c == loc[w].cur n == cell[c].next IN
     /\ cell' = [cell EXCEPT ![c].next = c, ![c].send = 0]
     /\ loc' = [loc EXCEPT ![w].cur = IF n = NONE THEN w ELSE n]
     /\ Goto(w, IF n = NONE THEN "done" ELSE "drop")
  /\ UNCHANGED <<storage, queue, sent, readers, pending, waking, ghosts>>

WaitForFlush(w) ==
  /\ pc[w] = "flush" /\ cell[w].next = w
  /\ Goto(w, "done")
  /\ UNCHANGED <<storage, queue, cell, loc, sent, readers, pending, waking, ghosts>>

(* Readers are told by the leader, one leader at a time; one that comes    *)
(* meanwhile leaves it to the other.                                       *)
Notify(w) ==
  /\ pc[w] = "notify"
  /\ IF readers_count = 0 THEN Goto(w, "done") /\ UNCHANGED pending
     ELSE Goto(w, "waking") /\ pending' = TRUE
  /\ UNCHANGED <<storage, queue, cell, loc, sent, readers, waking, ghosts>>

StartWaking(w) ==
  /\ pc[w] = "waking"
  /\ IF pending /\ ~waking THEN waking' = TRUE /\ Goto(w, "clear")
     ELSE Goto(w, "done") /\ UNCHANGED waking
  /\ UNCHANGED <<storage, queue, cell, loc, sent, readers, pending, ghosts>>

ClearPending(w) ==
  /\ pc[w] = "clear"
  /\ pending' = FALSE
  /\ Goto(w, "wake")
  /\ UNCHANGED <<storage, queue, cell, loc, sent, readers, waking, ghosts>>

WakeReaders(w) ==
  /\ pc[w] = "wake"
  /\ woken' = woken \cup waiters
  /\ Goto(w, "awake")
  /\ UNCHANGED <<storage, queue, cell, loc, sent, rpc, rd, readers_count, waiters, pending, waking, ghosts>>

StopWaking(w) ==
  /\ pc[w] = "awake"
  /\ waking' = FALSE
  /\ Goto(w, "waking")
  /\ UNCHANGED <<storage, queue, cell, loc, sent, readers, pending, ghosts>>
-----------------------------------------------------------------------------
(* A reader: ring_attach(), ring_dispatch_messages() called by the applet  *)
(* handler cli_io_handler_show_ring() in wait mode, ring_detach_appctx().  *)

Count(o, n) == area[o] <= MaxReaders /\ area' = [area EXCEPT ![o] = @ + n]

ring_attach(r) ==
  /\ rpc[r] = "off" /\ readers_count < MaxReaders
  /\ readers_count' = readers_count + 1
  /\ woken' = woken \cup {r}
  /\ RGoto(r, "idle")
  /\ UNCHANGED <<storage, writers, rd, waiters, pending, waking, ghosts>>

(* The handler runs and leaves the list of waiters. *)
RunHandler(r) ==
  /\ rpc[r] = "idle" /\ r \in woken
  /\ waiters' = waiters \ {r} /\ woken' = woken \ {r}
  /\ RGoto(r, IF rd[r].ofs = -1 THEN "seek" ELSE "load")
  /\ UNCHANGED <<storage, writers, rd, readers_count, pending, waking, ghosts>>

(* The first call takes a reference on the oldest message, or on the end,  *)
(* while the head cannot move. The writer may still copy the message.      *)
Seek(r) ==
  /\ rpc[r] = "seek" /\ ~locked
  /\ locked' = TRUE
  /\ \E new \in Seeks : rd' = [rd EXCEPT ![r].head = IF new THEN CountAt(tail) ELSE head]
  /\ RGoto(r, "ref")
  /\ UNCHANGED <<area, head, tail, writers, readers_count, waiters, woken, pending, waking, ghosts>>

FirstRef(r) ==
  /\ rpc[r] = "ref" /\ Count(rd[r].head, 1)
  /\ RGoto(r, "unlock")
  /\ UNCHANGED <<head, tail, locked, writers, rd, readers_count, waiters, woken, pending, waking, ghosts>>

EndSeek(r) ==
  /\ rpc[r] = "unlock"
  /\ locked' = FALSE
  /\ rd' = [rd EXCEPT ![r].ofs = rd[r].head]
  /\ from' = [from EXCEPT ![r] = IF rd[r].head = CountAt(tail) THEN Len(log) ELSE gone]
  /\ RGoto(r, "load")
  /\ UNCHANGED <<area, head, tail, writers, readers_count, waiters, woken, pending, waking, log, gone, got>>

LoadTail(r) ==
  /\ rpc[r] = "load"
  /\ rd' = [rd EXCEPT ![r].head = rd[r].ofs, ![r].tail = tail]
  /\ RGoto(r, "check")
  /\ UNCHANGED <<storage, writers, readers_count, waiters, woken, pending, waking, ghosts>>

(* The count of a message that is being written is not looked at. *)
CheckSizeOnly(r) ==
  /\ rpc[r] = "check"
  /\ IF Used(rd[r].head, rd[r].tail) <= 1
     THEN RGoto(r, "move") /\ rd' = [rd EXCEPT ![r].ret = TRUE]
     ELSE RGoto(r, "read") /\ UNCHANGED rd
  /\ UNCHANGED <<storage, writers, readers_count, waiters, woken, pending, waking, ghosts>>

(* No more data, or a message that is still being written. *)
CheckCount(r) ==
  /\ rpc[r] = "check"
  /\ IF Used(rd[r].head, rd[r].tail) <= 1 \/ area[rd[r].head] > MaxReaders
     THEN RGoto(r, "move") /\ rd' = [rd EXCEPT ![r].ret = TRUE]
     ELSE RGoto(r, "read") /\ UNCHANGED rd
  /\ UNCHANGED <<storage, writers, readers_count, waiters, woken, pending, waking, ghosts>>

(* The message found in the storage, 0 when it makes no sense. *)
MessageAt(h) ==
  LET len == area[Fwd(h, 1)] m == area[Fwd(h, 2)] IN
  IF m \in Messages /\ len = MsgLen[m] /\ \A i \in 1 .. len : area[Fwd(h, 1 + i)] = m
  THEN m ELSE 0

ReadMessage(r) ==
  /\ rpc[r] = "read"
  /\ got' = [got EXCEPT ![r] = Append(@, MessageAt(rd[r].head))]
  /\ rd' = [rd EXCEPT ![r].head = Fwd(@, 2 + area[Fwd(@, 1)])]
  /\ RGoto(r, "check")
  /\ UNCHANGED <<storage, writers, readers_count, waiters, woken, pending, waking, log, gone, from>>

(* The handler's output is full. *)
OutputFull(r) ==
  /\ rpc[r] = "read"
  /\ rd' = [rd EXCEPT ![r].ret = FALSE]
  /\ RGoto(r, "move")
  /\ UNCHANGED <<storage, writers, readers_count, waiters, woken, pending, waking, ghosts>>

MoveRef(r) ==
  /\ rpc[r] = "move"
  /\ IF rd[r].head = rd[r].ofs THEN RGoto(r, "wait") /\ UNCHANGED area
     ELSE Count(rd[r].head, 1) /\ RGoto(r, "leave")
  /\ UNCHANGED <<head, tail, locked, writers, rd, readers_count, waiters, woken, pending, waking, ghosts>>

LeaveRef(r) ==
  /\ rpc[r] = "leave" /\ Count(rd[r].ofs, -1)
  /\ rd' = [rd EXCEPT ![r].ofs = rd[r].head]
  /\ RGoto(r, "wait")
  /\ UNCHANGED <<head, tail, locked, writers, readers_count, waiters, woken, pending, waking, ghosts>>

(* Everything was read: wait for more. Otherwise the applet is called      *)
(* again when its output has room.                                         *)
Wait(r) ==
  /\ rpc[r] = "wait"
  /\ IF rd[r].ret THEN waiters' = waiters \cup {r} /\ RGoto(r, "recheck") /\ UNCHANGED woken
     ELSE woken' = woken \cup {r} /\ RGoto(r, "idle") /\ UNCHANGED waiters
  /\ UNCHANGED <<storage, writers, rd, readers_count, pending, waking, ghosts>>

(* A writer that came since did not see us among the waiters. *)
Recheck(r) ==
  /\ rpc[r] = "recheck"
  /\ woken' = IF tail # rd[r].tail THEN woken \cup {r} ELSE woken
  /\ RGoto(r, "idle")
  /\ UNCHANGED <<storage, writers, rd, readers_count, waiters, pending, waking, ghosts>>

ring_detach_appctx(r) ==
  /\ rpc[r] = "idle"
  /\ readers_count' = readers_count - 1
  /\ woken' = woken \ {r}
  /\ waiters' = IF rd[r].ofs = -1 THEN waiters ELSE waiters \ {r}
  /\ RGoto(r, IF rd[r].ofs = -1 THEN "gone" ELSE "unref")
  /\ UNCHANGED <<storage, writers, rd, pending, waking, ghosts>>

LastRef(r) ==
  /\ rpc[r] = "unref" /\ Count(rd[r].ofs, -1)
  /\ RGoto(r, "gone")
  /\ UNCHANGED <<head, tail, locked, writers, rd, readers_count, waiters, woken, pending, waking, ghosts>>
-----------------------------------------------------------------------------
Writing(w) ==
  \/ SumNeeded(w) \/ LoseLead(w) \/ ResetQueue(w) \/ LockArea(w) \/ Trim(w)
  \/ SetHead(w) \/ NewCount(w) \/ SetTail(w) \/ Copy(w) \/ Release(w) \/ Unlock(w)
  \/ UnlockFull(w) \/ TailFull(w) \/ Drop(w) \/ WaitForFlush(w) \/ Notify(w)
  \/ StartWaking(w) \/ ClearPending(w) \/ WakeReaders(w) \/ StopWaking(w)

Reading(r) ==
  \/ RunHandler(r) \/ FirstRef(r) \/ EndSeek(r) \/ LoadTail(r) \/ CheckCount(r)
  \/ ReadMessage(r) \/ MoveRef(r) \/ LeaveRef(r) \/ Wait(r) \/ Recheck(r) \/ LastRef(r)

Next ==
  \/ \E w \in Writers : ring_write(w) \/ TakeTail(w) \/ Writing(w)
  \/ \E r \in Readers : ring_attach(r) \/ Seek(r) \/ OutputFull(r) \/ ring_detach_appctx(r) \/ Reading(r)

Spec == Init /\ [][Next]_vars

(* Threads run, and one that keeps trying to lock the tail gets it. The    *)
(* output of a reader is not full for ever.                                *)
FairSpec ==
  /\ Spec
  /\ \A w \in Writers : WF_vars(Writing(w)) /\ SF_vars(TakeTail(w))
  /\ \A r \in Readers : WF_vars(Reading(r)) /\ SF_vars(Seek(r)) /\ SF_vars(ReadMessage(r))
-----------------------------------------------------------------------------
(* ring_write() returns non-zero exactly for a message that is in the ring *)
(* once, also to a thread whose message another one wrote or dropped.      *)
SentIsLogged ==
  \A w \in Writers : pc[w] = "done" /\ sent[w] > 0 =>
    Cardinality({i \in 1 .. Len(log) : log[i] = Msg(w)}) = IF cell[w].send > 0 THEN 1 ELSE 0

(* A count is never so high that it says that a message is being written:  *)
(* RING_MAX_READERS is the highest value of a count.                       *)
CountIsNotLock ==
  (\A w \in Writers : pc[w] \in {"done", "sum", "lead", "flush"}) =>
    \A r \in Readers : rd[r].ofs # -1 /\ rpc[r] # "gone" => area[rd[r].ofs] <= MaxReaders

Log == INSTANCE RingLog
(* The ring implements a log with readers that miss nothing. *)
ImplementsLog == Log!Spec

(* ring_write() returns, also to a thread that left its message to another *)
(* one: calls are bounded, so all of them are over again and again.        *)
WriteEnds == []<>(\A w \in Writers : pc[w] = "done")


(* A reader that stays gets every message. *)
EveryMessageRead ==
  \A r \in Readers : from[r] >= 0 ~> (from[r] + Len(got[r]) = Len(log) \/ rpc[r] \in {"unref", "gone"})
=============================================================================
