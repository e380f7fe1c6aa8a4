---------------------------- MODULE ServersProofs ---------------------------
(***************************************************************************)
(* What holds of every configuration of tracked servers, however long the  *)
(* chains of "track" are and however checks, commands and resolutions      *)
(* interleave: the two administrative flags that are inherited and the     *)
(* operational state of a tracker are what the code promises, wherever no  *)
(* call that has to carry them on is still open.                           *)
(*                                                                         *)
(* The invariant says who owes what: as long as a tracker differs from the *)
(* server it tracks, some call has a frame open on that server, with the   *)
(* tracker still to visit.                                                 *)
(***************************************************************************)
EXTENDS ServersFacts
-----------------------------------------------------------------------------
(* An inherited flag is that of the server that is tracked, or a visit is  *)
(* left to make it so.                                                     *)
LEMMA ExactKept ==
  ASSUME Types, Holders, Owed, Exact, NEW s \in Servers, NEW op, NEW fs, Reaches(s, op, fs)
  PROVE  Exact'
<1> SUFFICES ASSUME NEW t \in Servers, Track[t] # NONE, NEW g \in Inherited
             PROVE  (Has(t, g) <=> In(Track[t], g))' \/ Pending(t, {Set(g), Clr(g)})'
  BY DEF Exact
<1> DEFINE u == Track[t]
           ops == {Set(g), Clr(g)}
<1>0. u \in Servers /\ u # t
  BY ServersAssumption
<1>1. (Has(t, g) <=> In(u, g)) \/ Pending(t, ops)
  BY DEF Exact
<1>2. CASE t # s /\ u # s
  BY <1>0, <1>1, <1>2, Elsewhere, SMTT(30)
<1>3. CASE u = s
  <2>1. ~Pending(t, ops)
    BY <1>3, NoneOwed, ZenonT(30) DEF Reaches
  <2>2. (Has(t, g)' <=> Has(t, g)) /\ (Has(t, g) <=> In(s, g))
    BY <1>0, <1>1, <1>3, <2>1, Elsewhere, ZenonT(30)
  <2>3. \/ In(s, g)' <=> In(s, g)
        \/ fs = {FrameFor(s, Set(g))} \/ fs = {FrameFor(s, Clr(g))}
    <3>1. Trackers(s) # {}
      BY <1>3, ZenonT(30) DEF Trackers
    <3> QED
      BY <3>1, ZenonT(30) DEF Reaches, Effect, FlagsCarried, Amid, In
  <2>4. ASSUME NEW o \in ops, fs = {FrameFor(s, o)} PROVE Pending(t, ops)'
    <3>1. FrameFor(s, o) \in AllFrames'
      BY <2>4, Zenon DEF Reaches
    <3>2. FrameFor(s, o).srv = s /\ FrameFor(s, o).op \in ops /\ t \in FrameFor(s, o).left
      BY <1>3 DEF FrameFor, Trackers
    <3> QED
      BY <1>3, <3>1, <3>2, ZenonT(30) DEF Pending
  <2> QED
    BY <1>3, <2>2, <2>3, <2>4
<1>4. CASE t = s
  <2>1. In(u, g)' <=> In(u, g)
    BY <1>0, <1>4, Elsewhere
  <2>2. Has(t, g)' <=> op = Set(g) \/ (Has(t, g) /\ op # Clr(g))
    BY <1>4, Zenon DEF Reaches, Effect, FlagsCarried, Has
  <2>3. CASE op \in ops
    <3>1. PICK f \in AllFrames : f.op = op /\ f.srv = u
      BY <1>4, <2>3, SMTT(30) DEF Reaches, Asked
    <3>2. (op = Set(g) => In(u, g)) /\ (op = Clr(g) => ~In(u, g))
      BY <3>1, Zenon DEF Owed, FrameOK
    <3>3. Set(g) # Clr(g)
      BY DEF Set, Clr
    <3> QED
      BY <2>1, <2>2, <2>3, <3>2, <3>3, SMTT(30)
  <2>4. CASE op \notin ops
    BY <1>1, <2>1, <2>2, <2>4, Elsewhere, ZenonT(30)
  <2> QED
    BY <2>3, <2>4
<1> QED
  BY <1>2, <1>3, <1>4

(* A tracker has the state of the server that it tracks, is in             *)
(* maintenance, or is to be visited for one or the other.                  *)
LEMMA FollowsKept ==
  ASSUME Types, Holders, Committed, Owed, Exact, Follows,
         NEW s \in Servers, NEW op, NEW fs, Reaches(s, op, fs)
  PROVE  Follows'
<1> DEFINE ops == StateOps \cup {Set("IMAINT")}
<1> SUFFICES ASSUME NEW t \in Servers \ HasAgent, Track[t] # NONE, srv'[Track[t]].init = "none"
             PROVE  \/ In(t, "IMAINT")'
                    \/ Kind(srv'[t].next) = Kind(srv'[Track[t]].next)
                    \/ Pending(t, ops)'
  BY ZenonT(30) DEF Follows
<1> DEFINE u == Track[t]
<1>0. u \in Servers /\ u # t /\ "IMAINT" \in Inherited
  BY ServersAssumption DEF Inherited
<1>1. srv[u].init = "none"
  BY <1>0, Zenon DEF Reaches, Effect, Writes
<1>2. In(t, "IMAINT") \/ Kind(srv[t].next) = Kind(srv[u].next) \/ Pending(t, ops)
  BY <1>1, Zenon DEF Follows
<1> HIDE DEF ops
<1>3. CASE t # s /\ u # s
  BY <1>0, <1>2, <1>3, Elsewhere, SMTT(30)
<1>4. CASE u = s
  <2>1. \A o : ~Pending(t, o)
    BY <1>4, NoneOwed DEF Reaches
  <2>2. srv'[t] = srv[t] /\ (In(t, "IMAINT")' <=> In(t, "IMAINT"))
    BY <1>0, <1>4, Elsewhere, ZenonT(30)
  <2>3. \/ Kind(srv'[s].next) = Kind(srv[s].next)
        \/ \E o \in ops : fs = {FrameFor(s, o)}
        \/ In(s, "IMAINT")
    <3>1. Trackers(s) # {} /\ CommittedAt(srv, s) /\ srv[s].init = "none"
      BY <1>1, <1>4 DEF Trackers, Committed
    <3> QED
      BY <3>1, ZenonT(30) DEF Reaches, Effect, StateCarried, Amid, In, ops
  <2>4. ASSUME NEW o \in ops, fs = {FrameFor(s, o)} PROVE Pending(t, ops)'
    <3>1. FrameFor(s, o) \in AllFrames'
      BY <2>4 DEF Reaches
    <3>2. FrameFor(s, o).srv = s /\ FrameFor(s, o).op \in ops /\ t \in FrameFor(s, o).left
      BY <1>4 DEF FrameFor, Trackers
    <3> QED
      BY <1>4, <3>1, <3>2 DEF Pending
  <2>5. In(s, "IMAINT") => In(t, "IMAINT")
    <3>1. Has(t, "IMAINT") <=> In(s, "IMAINT")
      BY <1>0, <1>4, <2>1, Zenon DEF Exact
    <3> QED
      BY <3>1 DEF Has, In, Members, Maint
  <2> QED
    BY <1>2, <1>4, <2>1, <2>2, <2>3, <2>4, <2>5, Zenon
<1>5. CASE t = s
  <2>1. srv'[u] = srv[u]
    BY <1>0, <1>5, Elsewhere, ZenonT(30)
  <2>2. \/ In(s, "IMAINT")'
        \/ op \in StateOps /\ Kind(srv'[s].next) = Kind(op.arg)
        \/ Kind(srv'[s].next) = Kind(srv[u].next)
        \/ Kind(srv'[s].next) = Kind(srv[s].next) /\ ~In(s, "IMAINT") /\ op \notin StateOps
    <3>1. CommittedAt(srv, s) /\ Track[s] # NONE /\ s \notin HasAgent
      BY <1>5, SMTT(30) DEF Committed
    <3> QED
      BY <1>5, <3>1, Zenon DEF Reaches, Effect, StateCarried, Amid, In
  <2>3. op \in StateOps => Kind(op.arg) = Kind(srv[u].next)
    BY <1>5, SMTT(30) DEF Reaches, Asked, Owed, FrameOK
  <2>4. op = Set("IMAINT") => In(s, "IMAINT")'
    <3>1. op = Set("IMAINT") => Has(s, "IMAINT")'
      BY <1>0, Zenon DEF Reaches, Effect, FlagsCarried, Has
    <3> QED
      BY <3>1 DEF Has, In, Members, Maint
  <2>5. Pending(s, ops) => Pending(s, ops)' \/ op \in StateOps \/ op = Set("IMAINT")
    BY Elsewhere DEF ops
  <2> QED
    BY <1>2, <1>5, <2>1, <2>2, <2>3, <2>4, <2>5
<1> QED
  BY <1>3, <1>4, <1>5, ZenonT(30)
-----------------------------------------------------------------------------
(* A frame less the visit of <t>. *)
Less(f, t) == [f EXCEPT !.left = @ \ {t}]

(* A path whose last frame loses a visit, and that may get another frame. *)
Grows(path, n, x, more, new) == new = [path EXCEPT ![n] = x] \o more
Grown(path, n, x, more, new) ==
  /\ new \in Seq(AnyFrame) /\ n \in Nat \ {0} /\ Len(new) = n + Len(more)
  /\ \A i \in 1 .. n : new[i] = IF i = n THEN x ELSE path[i]
  /\ Len(more) = 1 => new[n + 1] = more[1]

(* The stack of open frames after the next tracker is visited: the last    *)
(* frame has one tracker less to visit, and the frame of the tracker may   *)
(* be on top.                                                              *)
LEMMA PathVisit ==
  ASSUME NEW path \in Seq(AnyFrame), path # <<>>, NEW n, n = Len(path), NEW x \in AnyFrame,
         NEW more \in Seq(AnyFrame), NEW new, Grows(path, n, x, more, new)
  PROVE  Grown(path, n, x, more, new)
<1> DEFINE mid == [path EXCEPT ![n] = x]
<1>1. n \in Nat \ {0}
  OBVIOUS
<1>2. mid \in Seq(AnyFrame) /\ Len(mid) = n /\ \A i \in 1 .. n : mid[i] = IF i = n THEN x ELSE path[i]
  <2>1. n \in 1 .. Len(path)
    BY <1>1
  <2>2. mid \in Seq(AnyFrame)
    BY <2>1
  <2>3. Len(mid) = Len(path)
    BY <2>1
  <2>4. \A j \in 1 .. Len(path) : mid[j] = IF j = n THEN x ELSE path[j]
    BY <2>1
  <2> HIDE DEF mid
  <2> QED
    BY <2>2, <2>3, <2>4
<1>3. new = mid \o more /\ mid \in Seq(AnyFrame) /\ Len(mid) = n
  BY <1>2 DEF Grows
<1> HIDE DEF mid
<1>4. /\ mid \o more \in Seq(AnyFrame) /\ Len(mid \o more) = Len(mid) + Len(more)
      /\ \A i \in 1 .. Len(mid) + Len(more) :
           (mid \o more)[i] = IF i <= Len(mid) THEN mid[i] ELSE more[i - Len(mid)]
  <2>1. mid \in Seq(AnyFrame) /\ more \in Seq(AnyFrame)
    BY <1>3
  <2>2. mid \o more \in Seq(AnyFrame)
    BY <2>1
  <2>3. Len(mid \o more) = Len(mid) + Len(more)
    BY <2>1
  <2>4. \A i \in 1 .. Len(mid) + Len(more) :
          (mid \o more)[i] = IF i <= Len(mid) THEN mid[i] ELSE more[i - Len(mid)]
    BY <2>1
  <2> QED
    BY <2>2, <2>3, <2>4
<1>5. new \in Seq(AnyFrame) /\ Len(new) = n + Len(more)
  BY <1>3, <1>4
<1>6. \A i \in 1 .. n + Len(more) : new[i] = IF i <= n THEN mid[i] ELSE more[i - n]
  BY <1>3, <1>4
<1>7. Len(more) \in Nat
  OBVIOUS
<1>8. \A i \in 1 .. n : new[i] = mid[i]
  BY <1>1, <1>6, <1>7
<1>9. Len(more) = 1 => new[n + 1] = more[1]
  BY <1>1, <1>6
<1> QED
  BY <1>1, <1>2, <1>5, <1>8, <1>9 DEF Grown

(* The visit of <t>, the last server of the path being the one it tracks. *)
Visiting(p, t, n, top, more) ==
  /\ lock[t] = NONE
  /\ call[p].path # <<>> /\ n = Len(call[p].path) /\ top = call[p].path[n] /\ t \in top.left
  /\ \E new, c, l :
       /\ Grows(call[p].path, n, Less(top, t), more, new)
       /\ c = [call[p] EXCEPT !.path = new] /\ l = IF more = <<>> THEN NONE ELSE p
       /\ Becomes(p, c) /\ LockBecomes(t, l)
Visited(t, top, fs) ==
  /\ lock' \in [Servers -> Actors \cup {NONE}] /\ call' \in [Actors -> AnyCall]
  /\ Holders'
  /\ top \in AllFrames /\ \A f \in AllFrames : f.srv # t
  /\ AllFrames' = (AllFrames \ {top}) \cup {Less(top, t)} \cup fs

(* A visit of a tracker exchanges one frame for the same without that      *)
(* tracker, and opens what the tracker has to carry on.                    *)
LEMMA VisitMoves ==
  ASSUME Types, Holders, NEW p \in Actors, NEW t \in Servers, NEW n, NEW top, NEW more, NEW fs,
         Opens(t, more, fs), Visiting(p, t, n, top, more)
  PROVE  Visited(t, top, fs)
<1>a. PICK new, c, l :
        /\ Grows(call[p].path, n, Less(top, t), more, new)
        /\ c = [call[p] EXCEPT !.path = new] /\ l = IF more = <<>> THEN NONE ELSE p
        /\ Becomes(p, c) /\ LockBecomes(t, l)
  BY DEF Visiting
<1>b. /\ lock[t] = NONE
      /\ call[p].path # <<>> /\ n = Len(call[p].path) /\ top = call[p].path[n] /\ t \in top.left
  BY DEF Visiting
<1> DEFINE path == call[p].path
           x == Less(top, t)
<1>0. NONE \notin Servers /\ NONE \notin Actors
  BY ServersAssumption
<1>1. /\ call[p] \in AnyCall /\ path \in Seq(AnyFrame)
      /\ more \in Seq(AnyFrame) /\ Len(more) \in {0, 1}
  BY OpensFacts DEF Types, AnyCall
<1>2. n \in Nat \ {0} /\ n \in 1 .. Len(path) /\ n = Len(path)
  BY <1>1, <1>b
<1>3. top \in AnyFrame /\ top = path[n]
  BY <1>1, <1>2, <1>b
<1>4. x \in AnyFrame /\ x.srv = top.srv /\ x.op = top.op /\ x.left = top.left \ {t}
  BY <1>3 DEF AnyFrame, Less
<1>5. Grows(path, n, x, more, new)
  BY <1>a
<1> HIDE DEF x
<1>6. Grown(path, n, x, more, new)
  BY <1>1, <1>2, <1>4, <1>5, <1>b, PathVisit
<1>7. c \in AnyCall /\ c.path = new /\ c.srv = call[p].srv
  BY <1>1, <1>6, <1>a, Zenon DEF AnyCall, Grown
<1>8. /\ call' \in [Actors -> AnyCall] /\ call'[p] = c
      /\ \A q \in Actors \ {p} : call'[q] = call[q]
      /\ \A f : f \in AllFrames' <=>
           \/ \E i \in 1 .. Len(new) : f = new[i]
           \/ \E q \in Actors \ {p} : \E i \in 1 .. Len(call[q].path) : f = call[q].path[i]
  <2>1. Became(p, c)
    BY <1>7, <1>a, PathSet
  <2> QED
    BY <1>7, <2>1 DEF Became
<1>9. /\ lock' \in [Servers -> Actors \cup {NONE}] /\ lock'[t] = l
      /\ \A r \in Servers \ {t} : lock'[r] = lock[r]
  BY <1>a DEF Types, LockBecomes
<1>10. \A f : (\E i \in 1 .. Len(more) : f = more[i]) <=> f \in fs
  BY OpensFacts
<1>11. more = <<>> \/ (Len(more) = 1 /\ more[1].srv = t /\ more[1].left = Trackers(t))
  BY OpensFacts
<1>12. \A q \in Actors : \A i \in 1 .. Len(call[q].path) : call[q].path[i] \in AnyFrame
  <2> SUFFICES ASSUME NEW q \in Actors, NEW i \in 1 .. Len(call[q].path)
               PROVE  call[q].path[i] \in AnyFrame
    OBVIOUS
  <2>1. call[q].path \in Seq(AnyFrame)
    BY DEF Types, AnyCall
  <2> QED
    BY <2>1
<1>13. \A f : f \in AllFrames <=> \E q \in Actors : \E i \in 1 .. Len(call[q].path) : f = call[q].path[i]
  BY <1>12 DEF AllFrames
<1>14. \A q \in Actors : \A i \in 1 .. Len(call[q].path) : call[q].path[i].srv # t
  BY <1>0, <1>b DEF Holders, Holder
<1>15. top \in AllFrames /\ \A f \in AllFrames : f.srv # t
  BY <1>2, <1>3, <1>13, <1>14
<1>16. \A f : (\E i \in 1 .. Len(new) : f = new[i]) <=>
              (\E i \in 1 .. n - 1 : f = path[i]) \/ f = x \/ f \in fs
  <2>1. CASE more = <<>>
    <3>1. Len(more) = 0 /\ fs = {}
      BY <1>10, <2>1
    <3> QED
      BY <1>2, <1>6, <3>1 DEF Grown
  <2>2. CASE Len(more) = 1
    <3>1. fs = {more[1]}
      BY <1>10, <2>2
    <3> QED
      BY <1>2, <1>6, <2>2, <3>1, SMTT(30) DEF Grown
  <2> QED
    BY <1>11, <2>1, <2>2, Zenon
<1>17. \A f : f \in AllFrames /\ f # top <=>
          \/ \E i \in 1 .. n - 1 : f = path[i]
          \/ \E q \in Actors \ {p} : \E i \in 1 .. Len(call[q].path) : f = call[q].path[i]
  <2>1. \A i \in 1 .. n - 1 : path[i] # top
    BY <1>2, <1>3 DEF Holders, Holder
  <2>2. \A q \in Actors \ {p} : \A i \in 1 .. Len(call[q].path) : call[q].path[i] # top
    <3>1. lock[top.srv] = p
      BY <1>2, <1>3 DEF Holders, Holder
    <3>2. \A q \in Actors : \A i \in 1 .. Len(call[q].path) : lock[call[q].path[i].srv] = q
      BY Zenon DEF Holders, Holder
    <3> QED
      BY <3>1, <3>2
  <2>3. \A f : (\E i \in 1 .. n : f = path[i]) <=> (\E i \in 1 .. n - 1 : f = path[i]) \/ f = top
    BY <1>2, <1>3
  <2>4. \A f : f \in AllFrames <=>
          \/ \E i \in 1 .. n : f = path[i]
          \/ \E q \in Actors \ {p} : \E i \in 1 .. Len(call[q].path) : f = call[q].path[i]
    BY <1>2, <1>13
  <2> QED
    BY <2>1, <2>2, <2>3, <2>4
<1>18. AllFrames' = (AllFrames \ {top}) \cup {x} \cup fs
  <2>1. \A f : f \in AllFrames' <=> (f \in AllFrames /\ f # top) \/ f = x \/ f \in fs
    BY <1>8, <1>16, <1>17, Zenon
  <2> QED
    BY <2>1
<1>19. ASSUME NEW q \in Actors \ {p} PROVE Holder(q)'
  <2>1. call'[q] = call[q] /\ Holder(q) /\ call[q].srv # t
    BY <1>0, <1>8, <1>b DEF Holders, Holder
  <2>2. call[q].srv \in Servers \cup {NONE} /\ \A i \in 1 .. Len(call[q].path) : call[q].path[i].srv \in Servers
    BY <1>12, SMTT(30) DEF Types, AnyCall, AnyFrame
  <2> QED
    BY <1>9, <1>14, <2>1, <2>2 DEF Holder
<1>20. Holder(p)'
  <2>1. /\ Holder(p) /\ call[p].srv \in Servers /\ call[p].srv # t
        /\ \A i \in 1 .. n : path[i].srv \in Servers
    <3>1. Holder(p) /\ call[p].srv # NONE /\ call[p].srv # t
      BY <1>0, <1>b DEF Holders, Holder, idle
    <3> QED
      BY <1>1, <1>2, <1>12, <3>1, SMTT(30) DEF AnyCall, AnyFrame
  <2>2. \A i \in 1 .. n : new[i].srv = path[i].srv /\ new[i].left \subseteq path[i].left
    BY <1>2, <1>3, <1>4, <1>6, SMTT(30) DEF Grown
  <2>3. \A i \in 1 .. n : lock'[path[i].srv] = p
    BY <1>2, <1>9, <1>14, <2>1 DEF Holder
  <2>4. more # <<>> => l = p /\ new[n + 1].srv = t /\ new[n + 1].left = Trackers(t)
    BY <1>6, <1>11, <1>a DEF Grown
  <2>5. Len(new) = n \/ (Len(new) = n + 1 /\ more # <<>>)
    <3>1. Len(new) = n + Len(more)
      BY <1>6 DEF Grown
    <3>2. Len(more) = 0 \/ (Len(more) = 1 /\ more # <<>>)
      BY <1>11
    <3>3. Len(more) = 0 => Len(new) = n
      BY <1>2, <3>1
    <3>4. Len(more) = 1 => Len(new) = n + 1
      BY <3>1
    <3> QED
      BY <3>2, <3>3, <3>4
  <2>6. \A i \in 1 .. Len(new) : i \in 1 .. n \/ (i = n + 1 /\ more # <<>>)
    BY <1>2, <2>5
  <2>7. \A i \in 1 .. Len(new) : lock'[new[i].srv] = p /\ new[i].left \subseteq Trackers(new[i].srv)
    <3>1. \A i \in 1 .. n : lock'[new[i].srv] = p /\ new[i].left \subseteq Trackers(new[i].srv)
      BY <1>2, <2>1, <2>2, <2>3 DEF Holder
    <3> QED
      BY <1>9, <2>4, <2>6, <3>1
  <2>8. \A i, j \in 1 .. Len(new) : new[i].srv = new[j].srv => i = j
    <3>1. \A i, j \in 1 .. n : new[i].srv = new[j].srv => i = j
      BY <1>2, <2>1, <2>2 DEF Holder
    <3>2. \A i \in 1 .. n : new[i].srv # t
      BY <1>2, <1>14, <2>2
    <3> QED
      BY <2>4, <2>6, <3>1, <3>2
  <2>9. new[1].srv = call[p].srv
    BY <1>2, <2>1, <2>2 DEF Holder
  <2>10. lock'[call[p].srv] = p
    BY <1>0, <1>9, <2>1 DEF Holder
  <2> QED
    BY <1>0, <1>7, <1>8, <2>1, <2>7, <2>8, <2>9, <2>10 DEF Holder
<1> QED
  BY <1>8, <1>9, <1>15, <1>18, <1>19, <1>20 DEF x, Holders, Visited

(* It is an operation that was asked for. *)
LEMMA VisitReaches ==
  ASSUME Types, Holders, NEW t \in Servers, NEW op, NEW fs, NEW top \in AllFrames,
         t \in top.left, top.op = op, Effect(srv, t, op, srv', fs),
         \A f \in AllFrames : f.srv # t,
         AllFrames' = (AllFrames \ {top}) \cup {Less(top, t)} \cup fs
  PROVE  Reaches(t, op, fs)
<1> DEFINE x == Less(top, t)
<1>1. x.srv = top.srv /\ x.op = top.op /\ x.left = top.left \ {t}
  BY DEF Less, AllFrames, AnyFrame
<1>2. top.srv = Track[t]
  BY FrameFacts DEF Trackers
<1>3. \A f \in AllFrames : t \in f.left => f = top
  BY <1>2, FrameFacts DEF Trackers
<1> HIDE DEF x
<1>4. AllFrames' = (AllFrames \ {top}) \cup {x} \cup fs
  BY DEF x
<1>5. ASSUME NEW h \in AllFrames', h \notin fs
      PROVE  \E f \in AllFrames :
               /\ h.srv = f.srv /\ h.op = f.op /\ h.left \subseteq f.left
               /\ t \in h.left => \A g \in Inherited : op # Set(g) /\ op # Clr(g)
  <2>1. CASE h = x
    BY <1>1, <2>1
  <2>2. CASE h # x
    BY <1>3, <1>4, <1>5, <2>2
  <2> QED
    BY <2>1, <2>2
<1>6. ASSUME NEW f \in AllFrames
      PROVE  \E h \in AllFrames' :
               /\ h.srv = f.srv /\ h.op = f.op /\ f.left \ {t} \subseteq h.left
               /\ t \in f.left => t \in h.left \/ op = f.op
  <2>1. CASE f = top
    BY <1>1, <1>4, <2>1
  <2>2. CASE f # top
    BY <1>4, <2>2
  <2> QED
    BY <2>1, <2>2
<1>7. Asked(t, op) /\ fs \subseteq AllFrames'
  BY <1>2 DEF Asked
<1> QED
  BY <1>5, <1>6, <1>7 DEF Reaches

(* Visit(): the next tracker. *)
LEMMA VisitStep ==
  ASSUME Base, NEW p \in Actors, Visit(p)
  PROVE  Base' /\ \E s \in Servers : \E op, fs : Reaches(s, op, fs)
<1>0. Types /\ Holders /\ Committed
  BY DEF Base
<1> DEFINE n == Len(call[p].path)
           top == call[p].path[n]
<1>1. PICK t \in top.left, elapsed \in BOOLEAN :
          LET early == Early(srv, t, top.op)
              new == IF early THEN [srv |-> srv, chk |-> chk] ELSE Apply(srv, chk, t, top.op, elapsed)
              rest == [call[p].path EXCEPT ![n] = [top EXCEPT !.left = top.left \ {t}]]
              more == Frame(new.srv, t, top.op, early)
          IN /\ lock[t] = NONE
             /\ srv' = new.srv /\ chk' = new.chk
             /\ call' = [call EXCEPT ![p].path = rest \o more]
             /\ lock' = [lock EXCEPT ![t] = IF more = <<>> THEN NONE ELSE p]
  BY ZenonT(30) DEF Visit
<1> DEFINE op == top.op
           early == Early(srv, t, op)
           new == IF early THEN [srv |-> srv, chk |-> chk] ELSE Apply(srv, chk, t, op, elapsed)
           more == Frame(new.srv, t, op, early)
           path == [call[p].path EXCEPT ![n] = Less(top, t)] \o more
           c == [call[p] EXCEPT !.path = path]
           l == IF more = <<>> THEN NONE ELSE p
<1>2. /\ lock[t] = NONE /\ srv' = new.srv /\ chk' = new.chk
      /\ call' = [call EXCEPT ![p] = c]
      /\ LockBecomes(t, l)
  BY <1>1, Zenon DEF LockBecomes, Less
<1>3. early \in BOOLEAN
  BY DEF Early
<1>4. Does(srv, chk, t, op, elapsed, early, new, more)
  BY <1>3 DEF Does
<1> HIDE DEF early, new, more
<1>5. call[p].path # <<>> /\ call[p].path \in Seq(AnyFrame)
  BY <1>0, Zenon DEF Visit, Types, AnyCall
<1>6. n \in 1 .. Len(call[p].path) /\ top \in AnyFrame
  BY <1>5
<1>7. Becomes(p, c)
  BY <1>2 DEF Becomes
<1>8. t \in Servers /\ op \in CarriedOps
  BY <1>6 DEF AnyFrame
<1>9. Grows(call[p].path, n, Less(top, t), more, path)
  BY DEF Grows
<1> HIDE DEF n, top, path, c, l, op
<1>10. Outcome(srv, t, op, new, more)
  BY <1>0, <1>4, <1>8, OpEffect DEF Types
<1>11. PICK fs : /\ Effect(srv, t, op, srv', fs)
                 /\ (more = <<>> /\ fs = {}) \/ \E f : more = <<f>> /\ fs = {f}
  BY <1>2, <1>10 DEF Outcome
<1>12. Opens(t, more, fs)
  BY <1>11 DEF Effect, Opens
<1>13. Visited(t, top, fs)
  <2>1. /\ n = Len(call[p].path) /\ top = call[p].path[n]
        /\ c = [call[p] EXCEPT !.path = path] /\ l = IF more = <<>> THEN NONE ELSE p
    BY DEF n, top, c, l
  <2>2. Visiting(p, t, n, top, more)
    BY <1>2, <1>5, <1>7, <1>9, <2>1 DEF Visiting
  <2> QED
    BY <1>0, <1>8, <1>12, <2>2, VisitMoves
<1>14. Reaches(t, op, fs)
  <2>1. top.op = op
    BY DEF op
  <2> QED
    BY <1>0, <1>8, <1>11, <1>13, <2>1, VisitReaches, Zenon DEF Visited
<1>15. Committed' /\ SrvOK(srv')
  BY <1>0, <1>8, <1>11, EffectCommitted
<1>16. ChkOK(chk')
  BY <1>2, <1>10 DEF Outcome
<1> QED
  BY <1>8, <1>13, <1>14, <1>15, <1>16 DEF Base, Types, Visited

(* Leave(): all the trackers of the last server of the path were visited. *)
LEMMA LeaveStep ==
  ASSUME Base, NEW p \in Actors, Leave(p)
  PROVE  Base' /\ Calm
<1>0. Types /\ Holders /\ Committed /\ NONE \notin Servers /\ NONE \notin Actors
  BY ServersAssumption DEF Base
<1> DEFINE path == call[p].path
           n == Len(path)
           top == path[n]
           over == n = 1 /\ call[p].todo = <<>>
           rest == SubSeq(path, 1, n - 1)
           c == IF over THEN idle ELSE [call[p] EXCEPT !.path = rest]
<1>1. /\ path # <<>> /\ top.left = {} /\ Becomes(p, c)
      /\ lock' = IF n = 1 /\ ~over THEN lock ELSE [lock EXCEPT ![top.srv] = NONE]
      /\ srv' = srv /\ chk' = chk
  BY DEF Leave, Becomes
<1>2. call[p] \in AnyCall /\ path \in Seq(AnyFrame)
  BY <1>0 DEF Types, AnyCall
<1>3. n \in Nat \ {0} /\ n \in 1 .. Len(path) /\ top \in AnyFrame
  BY <1>1, <1>2
<1>4. rest \in Seq(AnyFrame) /\ Len(rest) = n - 1 /\ \A i \in 1 .. n - 1 : rest[i] = path[i]
  BY <1>2, <1>3
<1> HIDE DEF rest
<1>5. over => n = 1
  OBVIOUS
<1> HIDE DEF over
<1>6. /\ c \in AnyCall /\ Len(c.path) = n - 1 /\ \A i \in 1 .. n - 1 : c.path[i] = path[i]
      /\ ~over => c.srv = call[p].srv
      /\ over => c = idle
      /\ c.path # <<>> => n # 1
  <2>0. NONE \notin Servers /\ idle.path = <<>> /\ idle \in AnyCall
    BY <1>0 DEF AnyCall, idle
  <2>1. CASE over
    BY <1>3, <1>5, <2>0, <2>1
  <2>2. CASE ~over
    <3>1. c = [call[p] EXCEPT !.path = rest]
      BY <2>2
    <3>2. c \in AnyCall /\ c.path = rest /\ c.srv = call[p].srv
      BY <1>2, <1>4, <3>1 DEF AnyCall
    <3>3. rest # <<>> => n # 1
      BY <1>3, <1>4
    <3> HIDE DEF c
    <3> QED
      BY <1>4, <2>2, <3>2, <3>3
  <2> QED
    BY <2>1, <2>2
<1> HIDE DEF c
<1>7. Became(p, c)
  BY <1>0, <1>1, <1>6, PathSet, SMTT(30)
<1>8. Holder(p) /\ call[p].srv \in Servers /\ path[1].srv = call[p].srv
  <2>1. Holder(p)
    BY <1>0 DEF Holders
  <2> QED
    BY <1>1, <1>2, <2>1 DEF Holder, idle, AnyCall
<1>9. \A q \in Actors : \A i \in 1 .. Len(call[q].path) : call[q].path[i] \in AnyFrame
  <2> SUFFICES ASSUME NEW q \in Actors, NEW i \in 1 .. Len(call[q].path)
               PROVE  call[q].path[i] \in AnyFrame
    OBVIOUS
  <2>1. call[q].path \in Seq(AnyFrame)
    BY <1>0 DEF Types, AnyCall
  <2> QED
    BY <2>1
<1>10. top.srv \in Servers /\ lock[top.srv] = p /\ \A i \in 1 .. n - 1 : path[i].srv # top.srv
  BY <1>3, <1>8 DEF Holder, AnyFrame
<1> HIDE DEF top
<1>11. /\ lock' \in [Servers -> Actors \cup {NONE}]
       /\ \A r \in Servers \ {top.srv} : lock'[r] = lock[r]
       /\ n = 1 /\ ~over => lock' = lock
  BY <1>0, <1>1, <1>10 DEF Types
<1>12. ASSUME NEW q \in Actors \ {p} PROVE Holder(q)'
  <2>1. call'[q] = call[q] /\ Holder(q)
    BY <1>0, <1>7 DEF Became, Holders
  <2>2. call[q].srv \in Servers \cup {NONE} /\ \A i \in 1 .. Len(call[q].path) : call[q].path[i].srv \in Servers
    BY <1>0, <1>9 DEF Types, AnyCall, AnyFrame
  <2>3. call[q].srv # NONE => lock'[call[q].srv] = q
    BY <1>10, <1>11, <2>1, <2>2 DEF Holder
  <2>4. \A i \in 1 .. Len(call[q].path) : lock'[call[q].path[i].srv] = q
    BY <1>10, <1>11, <2>1, <2>2 DEF Holder
  <2> QED
    BY <2>1, <2>3, <2>4 DEF Holder
<1>13. Holder(p)'
  <2>1. CASE over
    BY <1>6, <1>7, <2>1 DEF Became, Holder, idle
  <2>2. CASE ~over
    <3>1. call'[p] = c /\ c.srv = call[p].srv /\ c.srv # NONE
      BY <1>0, <1>6, <1>7, <1>8, <2>2 DEF Became
    <3>2. lock'[c.srv] = p
      <4>1. lock[call[p].srv] = p
        BY <1>0, <1>8 DEF Holder
      <4>2. CASE n = 1
        BY <1>11, <2>2, <3>1, <4>1, <4>2
      <4>3. CASE n # 1
        <5>1. 1 \in 1 .. n - 1
          <6> HIDE DEF n
          <6> QED
            BY <1>3, <4>3
        <5>2. path[1].srv # top.srv
          BY <1>10, <5>1, Zenon
        <5>3. call[p].srv # top.srv /\ call[p].srv \in Servers
          BY <1>8, <5>2, Zenon
        <5> QED
          BY <1>11, <3>1, <4>1, <5>3, Zenon
      <4> QED
        BY <4>2, <4>3
    <3>3. \A i \in 1 .. n - 1 : lock'[path[i].srv] = p /\ path[i].left \subseteq Trackers(path[i].srv)
      <4> SUFFICES ASSUME NEW i \in 1 .. n - 1
                   PROVE  lock'[path[i].srv] = p /\ path[i].left \subseteq Trackers(path[i].srv)
        OBVIOUS
      <4>1. i \in 1 .. Len(path) /\ path[i].srv # top.srv
        BY <1>3, <1>10
      <4>2. path[i].srv \in Servers
        BY <1>9, <4>1 DEF AnyFrame
      <4> QED
        BY <1>8, <1>11, <4>1, <4>2 DEF Holder
    <3>4. \A i, j \in 1 .. n - 1 : path[i].srv = path[j].srv => i = j
      BY <1>3, <1>8 DEF Holder
    <3>5. c.path # <<>> => c.path[1].srv = c.srv
      BY <1>3, <1>6, <1>8, <2>2
    <3> QED
      BY <1>6, <3>1, <3>2, <3>3, <3>4, <3>5, Zenon DEF Holder
  <2> QED
    BY <2>1, <2>2
<1>14. \A f : f \in AllFrames <=>
         \/ \E i \in 1 .. n : f = path[i]
         \/ \E q \in Actors \ {p} : \E i \in 1 .. Len(call[q].path) : f = call[q].path[i]
  BY <1>9 DEF AllFrames
<1>15. \A f : f \in AllFrames' <=>
         \/ \E i \in 1 .. n - 1 : f = path[i]
         \/ \E q \in Actors \ {p} : \E i \in 1 .. Len(call[q].path) : f = call[q].path[i]
  BY <1>6, <1>7 DEF Became
<1>16. \A f : (\E i \in 1 .. n : f = path[i]) <=> (\E i \in 1 .. n - 1 : f = path[i]) \/ f = top
  BY <1>3 DEF top
<1>17. Calm
  BY <1>1, <1>14, <1>15, <1>16, Zenon DEF Calm
<1>18. Types'
  BY <1>0, <1>1, <1>7, <1>11 DEF Types, Became
<1>19. Committed'
  BY <1>0, <1>1 DEF Committed, CommittedAt
<1> QED
  BY <1>12, <1>13, <1>17, <1>18, <1>19 DEF Base, Holders
-----------------------------------------------------------------------------
(* Sections that begin: what they find, and what they ask for. *)
LEMMA LockedStep ==
  ASSUME Base, NEW p \in Actors, NEW s \in Servers, NEW sv, Same(sv, s), NEW ck, ChkOK(ck),
         NEW ops, Orders(s, ops), Locked(p, s, sv, ck, ops)
  PROVE  Base' /\ \E op, fs : Reaches(s, op, fs)
<1>1. call[p].path = <<>> /\ call[p].srv = NONE /\ lock[s] = NONE /\ Run(p, s, sv, ck, ops)
  BY DEF Locked, idle
<1>2. Base' /\ \E op, fs : Section(s, op, fs)
  BY <1>1, RunMoves
<1> QED
  BY <1>2, SectionReaches

(* Continue(): the next operation of the section. *)
LEMMA ContinueStep ==
  ASSUME Base, NEW p \in Actors, Continue(p)
  PROVE  Base' /\ \E s \in Servers : \E op, fs : Reaches(s, op, fs)
<1> DEFINE s == call[p].srv
           ops == call[p].todo
<1>1. s \in Servers /\ ops \in Seq(OwnOps) /\ lock[s] = p
  BY DEF Continue, Base, Types, AnyCall, Holders, Holder
<1>2. Same(srv, s) /\ ChkOK(chk) /\ Orders(s, ops)
  BY <1>1 DEF Same, Base, Types, Orders
<1>3. call[p].path = <<>> /\ Run(p, s, srv, chk, ops)
  BY DEF Continue
<1>4. s \in {NONE, s} /\ lock[s] \in {NONE, p}
  BY <1>1
<1>5. Base' /\ \E op, fs : Section(s, op, fs)
  <2> HIDE DEF ops
  <2> QED
    BY <1>1, <1>2, <1>3, <1>4, RunMoves
<1> QED
  BY <1>1, <1>5, SectionReaches

(* Warmup(): the end of a slow start, which the trackers do not see. *)
LEMMA WarmupStep ==
  ASSUME Base, NEW s \in Servers, Warmup(s)
  PROVE  Base' /\ \E op, fs : Reaches(s, op, fs)
<1>0. Types /\ Holders /\ Committed
  BY DEF Base
<1>1. /\ lock[s] = NONE /\ srv[s].nadm \cap Maint = {} /\ srv[s].next = "STARTING"
      /\ srv' = [srv EXCEPT ![s].cur = "RUNNING", ![s].next = "RUNNING"]
      /\ chk' = chk /\ lock' = lock /\ call' = call
  BY DEF Warmup
<1>2. /\ SrvOK(srv') /\ \A r \in Servers \ {s} : srv'[r] = srv[r]
      /\ srv'[s].nadm = srv[s].nadm /\ srv'[s].cadm = srv[s].cadm /\ srv'[s].init = srv[s].init
      /\ srv'[s].cur = "RUNNING" /\ srv'[s].next = "RUNNING"
  BY <1>0, <1>1 DEF Types, SrvOK, Server, States
<1>3. AllFrames' = AllFrames /\ \A f \in AllFrames : f.srv # s
  BY <1>0, <1>1, FrameFacts DEF AllFrames
<1>4. \A g : Nop # Set(g) /\ Nop # Clr(g) /\ Nop \notin StateOps
  BY DEF Nop, Set, Clr, StateOps, State
<1>5. Kind(srv'[s].next) = Kind(srv[s].next)
  BY <1>1, <1>2 DEF Kind
<1>6. Writes(srv, s, srv')
  BY <1>1, <1>2, Zenon DEF Writes, CommittedAt
<1>7. FlagsCarried(srv, s, Nop, srv', {})
  BY <1>2, <1>4 DEF FlagsCarried
<1>8. StateCarried(srv, s, Nop, srv', {})
  <2>1. ~Amid(srv[s].nadm, "IMAINT")
    BY <1>1 DEF Amid, Members
  <2> QED
    BY <1>4, <1>5, <2>1 DEF StateCarried
<1>9. Effect(srv, s, Nop, srv', {})
  BY <1>6, <1>7, <1>8 DEF Effect
<1>10. Section(s, Nop, {})
  BY <1>3, <1>4, <1>9 DEF Section
<1>11. Committed'
  BY <1>0, <1>9, EffectCommitted
<1>12. Types' /\ Holders'
  BY <1>0, <1>1, <1>2 DEF Types, Holders, Holder
<1> QED
  BY <1>10, <1>11, <1>12, SectionReaches DEF Base

(* The checks and their servers. *)
LEMMA CheckFacts ==
  /\ \A s \in HasCheck : /\ Check(s) \in Checks /\ s \in Servers /\ Track[s] = NONE
                         /\ Full(Check(s)) = Rise + Fall - 1 /\ RiseOf(Check(s)) = Rise
  /\ \A s \in HasAgent : Agent(s) \in Checks /\ s \in Servers /\ Full(Agent(s)) = 1
  /\ \A c \in Checks : /\ c[2] \in Servers /\ (Track[c[2]] = NONE \/ c[2] \in HasAgent)
                       /\ Full(c) \in Nat /\ RiseOf(c) \in Nat
                       /\ c[1] = "check" => c[2] \in HasCheck /\ c = Check(c[2])
BY ServersAssumption DEF Checks, Check, Agent, Full, RiseOf

(* A result leaves a health in its bounds. *)
LEMMA HealthBounded ==
  ASSUME NEW c \in Checks, NEW health \in Nat, NEW result
  PROVE  /\ HealthAfter(c, health, result) \in Nat
         /\ health <= Full(c) => HealthAfter(c, health, result) <= Full(c)
         /\ result = "failed" => HealthAfter(c, health, result) <= health
BY CheckFacts DEF HealthAfter

(* A check gets another value, with a health in its bounds. *)
LEMMA ChecksWritten ==
  ASSUME ChkOK(chk), NEW c \in Checks, NEW r \in AnyCheck, r.health <= Full(c)
  PROVE  ChkOK([chk EXCEPT ![c] = r])
BY DEF ChkOK

(* What the commands of the CLI and the agent may ask of a server. *)
LEMMA OrdersFacts ==
  ASSUME NEW s \in Servers
  PROVE  /\ Orders(s, <<>>) /\ Orders(s, srv_adm_set_maint)
         /\ Orders(s, srv_adm_set_drain) /\ Orders(s, srv_adm_set_ready)
         /\ Orders(s, <<Set("RMAINT")>>) /\ Orders(s, <<Clr("RMAINT")>>)
         /\ Track[s] = NONE \/ s \in HasAgent =>
              \A to \in {"RUNNING", "STOPPING", "STOPPED"} : Orders(s, <<State(to)>>)
<1>1. \A f \in {"FMAINT", "FDRAIN", "RMAINT"} : Set(f) \in OwnOps /\ Clr(f) \in OwnOps
  BY DEF OwnOps, FlagOps
<1>2. \A o, q \in OwnOps : <<>> \in Seq(OwnOps) /\ <<o>> \in Seq(OwnOps) /\ <<o, q>> \in Seq(OwnOps)
  OBVIOUS
<1>3. \A to \in {"RUNNING", "STOPPING", "STOPPED"} : State(to) \in StateOps
  BY DEF StateOps
<1> QED
  BY <1>1, <1>2, <1>3 DEF Orders, srv_adm_set_maint, srv_adm_set_drain, srv_adm_set_ready

(* What every operation establishes. *)
Stepped == Base' /\ \E s \in Servers : \E op, fs : Reaches(s, op, fs)

(* A section whose server is as it was. *)
LEMMA LockedSame ==
  ASSUME Base, NEW p \in Actors, NEW s \in Servers, NEW ck, ChkOK(ck),
         NEW ops, Orders(s, ops), Locked(p, s, srv, ck, ops)
  PROVE  Stepped
<1>1. Same(srv, s)
  BY DEF Same, Base, Types
<1> QED
  BY <1>1, LockedStep DEF Stepped

(* Checks. *)
LEMMA StartCheckStep == ASSUME Base, NEW c \in Checks, StartCheck(c) PROVE Stepped
<1> DEFINE ck == [chk EXCEPT ![c].busy = TRUE, ![c].result = "unknown"]
<1>1. ChkOK(ck)
  BY Zenon DEF Base, Types, ChkOK, AnyCheck
<1>2. Locked(c, c[2], srv, ck, <<>>) /\ c \in Actors
  BY DEF StartCheck, Actors
<1> HIDE DEF ck
<1> QED
  BY <1>1, <1>2, CheckFacts, OrdersFacts, LockedSame

(* The answer to a health check keeps the invariant. *)
LEMMA AnswerStep == ASSUME Base, NEW c \in Checks, Answer(c) PROVE Stepped
<1>1. PICK r \in {"passed", "condpass", "failed"} :
        Locked(c, c[2], srv, [chk EXCEPT ![c].result = r, ![c].health = HealthAfter(c, @, r)], <<>>)
  BY Zenon DEF Answer
<1> DEFINE ck == [chk EXCEPT ![c].result = r, ![c].health = HealthAfter(c, @, r)]
<1>2. chk[c].health \in Nat /\ chk[c].health <= Full(c)
  BY DEF Base, Types, ChkOK, AnyCheck
<1>3. HealthAfter(c, chk[c].health, r) \in Nat /\ HealthAfter(c, chk[c].health, r) <= Full(c)
  BY <1>2, HealthBounded
<1>4. ChkOK(ck)
  BY <1>3, ZenonT(30) DEF Base, Types, ChkOK, AnyCheck
<1>5. Locked(c, c[2], srv, ck, <<>>) /\ c \in Actors
  BY <1>1 DEF Actors
<1> HIDE DEF ck
<1> QED
  BY <1>4, <1>5, CheckFacts, OrdersFacts, LockedSame

(* The reply of an agent, with or without an administrative word, keeps    *)
(* the invariant.                                                          *)
LEMMA AgentReplyStep == ASSUME Base, NEW c \in Checks, AgentReply(c) PROVE Stepped
<1>1. PICK word : /\ word \in {"none", "ready", "drain", "maint"}
                  /\ LET heard == chk[c].on /\ world[c] # "silent"
                     IN Locked(c, c[2], srv,
                          [chk EXCEPT
                             ![c].result = IF ~heard THEN "unreached" ELSE IF world[c] = "up" THEN "passed" ELSE "failed",
                             ![c].health = IF ~heard THEN @ ELSE IF world[c] = "up" THEN Full(c) ELSE 0],
                          CASE word = "none" -> <<>>
                            [] word = "ready" -> srv_adm_set_ready
                            [] word = "drain" -> srv_adm_set_drain
                            [] word = "maint" -> srv_adm_set_maint)
  BY DEF AgentReply
<1> DEFINE heard == chk[c].on /\ world[c] # "silent"
           result == IF ~heard THEN "unreached" ELSE IF world[c] = "up" THEN "passed" ELSE "failed"
           health == IF ~heard THEN chk[c].health ELSE IF world[c] = "up" THEN Full(c) ELSE 0
           ck == [chk EXCEPT ![c].result = result, ![c].health = health]
           ops == CASE word = "none" -> <<>>
                    [] word = "ready" -> srv_adm_set_ready
                    [] word = "drain" -> srv_adm_set_drain
                    [] word = "maint" -> srv_adm_set_maint
<1>2. Locked(c, c[2], srv, ck, ops) /\ c \in Actors
  BY <1>1 DEF Actors
<1> HIDE DEF heard
<1>3. ChkOK(ck)
  <2>1. /\ Full(c) \in Nat /\ chk[c].health \in Nat /\ chk[c].health <= Full(c)
        /\ result \in {"unreached", "passed", "failed"}
    BY CheckFacts DEF Base, Types, ChkOK, AnyCheck
  <2>2. health \in Nat /\ health <= Full(c)
    BY <2>1
  <2> HIDE DEF health, result
  <2> QED
    BY <2>1, <2>2, ZenonT(30) DEF Base, Types, ChkOK, AnyCheck
<1>4. ops \in {<<>>, srv_adm_set_ready, srv_adm_set_drain, srv_adm_set_maint}
  BY <1>1
<1> HIDE DEF ck, ops
<1>5. c[2] \in Servers
  BY CheckFacts
<1>6. Orders(c[2], ops)
  BY <1>4, <1>5, OrdersFacts
<1> QED
  BY <1>2, <1>3, <1>5, <1>6, LockedSame

(* The end of a check, once its effects were applied, keeps the invariant. *)
LEMMA EndCheckStep == ASSUME Base, NEW c \in Checks, EndCheck(c) PROVE Stepped
<1> DEFINE ck == [chk EXCEPT ![c].busy = FALSE]
<1>1. ChkOK(ck)
  BY Zenon DEF Base, Types, ChkOK, AnyCheck
<1>2. Locked(c, c[2], srv, ck, Notify(c)) /\ c \in Actors
  BY DEF EndCheck, Actors
<1>3. Notify(c) \in {<<>>, <<State("STOPPED")>>, <<State("STOPPING")>>, <<State("RUNNING")>>}
  BY DEF Notify
<1>4. c[2] \in Servers /\ (Track[c[2]] = NONE \/ c[2] \in HasAgent)
  BY CheckFacts
<1>5. Orders(c[2], Notify(c))
  BY <1>3, <1>4, OrdersFacts
<1> HIDE DEF ck
<1> QED
  BY <1>1, <1>2, <1>4, <1>5, LockedSame

(* Commands, name resolution and observed errors. *)
LEMMA SetAdminStep == ASSUME Base, NEW p \in Threads, NEW s \in Servers, SetAdmin(p, s) PROVE Stepped
<1>1. p \in Actors /\ ChkOK(chk)
  BY DEF Actors, Base, Types
<1>2. PICK ops \in {srv_adm_set_ready, srv_adm_set_drain, srv_adm_set_maint} : Locked(p, s, srv, chk, ops)
  BY DEF SetAdmin
<1>3. Orders(s, ops)
  BY <1>2, OrdersFacts
<1> QED
  BY <1>1, <1>2, <1>3, LockedSame

(* "set server health" keeps the invariant. *)
LEMMA SetHealthStep == ASSUME Base, NEW p \in Threads, NEW s \in Servers, SetHealth(p, s) PROVE Stepped
<1>1. PICK to \in {"RUNNING", "STOPPING", "STOPPED"} :
        Locked(p, s, srv,
               IF s \in HasCheck
               THEN [chk EXCEPT ![Check(s)].health = IF to = "STOPPED" THEN 0 ELSE Full(Check(s))] ELSE chk,
               <<State(to)>>)
  BY Zenon DEF SetHealth
<1> DEFINE health == IF to = "STOPPED" THEN 0 ELSE Full(Check(s))
           ck == IF s \in HasCheck THEN [chk EXCEPT ![Check(s)].health = health] ELSE chk
<1>2. Locked(p, s, srv, ck, <<State(to)>>) /\ p \in Actors
  BY <1>1 DEF Actors
<1>3. s \in HasCheck => Check(s) \in Checks /\ health \in Nat /\ health <= Full(Check(s))
  BY CheckFacts
<1> HIDE DEF health
<1>4. ChkOK(ck)
  BY <1>3 DEF Base, Types, ChkOK, AnyCheck
<1>5. Orders(s, <<State(to)>>)
  BY OrdersFacts DEF SetHealth
<1> HIDE DEF ck
<1> QED
  BY <1>2, <1>4, <1>5, LockedSame

(* "set server agent" keeps the invariant. *)
LEMMA SetAgentStep == ASSUME Base, NEW p \in Threads, NEW s \in Servers, SetAgent(p, s) PROVE Stepped
<1>1. PICK to \in {"RUNNING", "STOPPED"} :
        Locked(p, s, [srv EXCEPT ![s].forced = @ \/ to = "RUNNING"],
               [chk EXCEPT ![Agent(s)].health = IF to = "STOPPED" THEN 0 ELSE 1], <<State(to)>>)
  BY Zenon DEF SetAgent
<1> DEFINE sv == [srv EXCEPT ![s].forced = @ \/ to = "RUNNING"]
           ck == [chk EXCEPT ![Agent(s)].health = IF to = "STOPPED" THEN 0 ELSE 1]
<1>2. Locked(p, s, sv, ck, <<State(to)>>) /\ p \in Actors
  BY <1>1 DEF Actors
<1>3. Agent(s) \in Checks /\ s \in HasAgent /\ Full(Agent(s)) = 1
  BY CheckFacts DEF SetAgent, IsOn, Checks, Check, Agent
<1>4. ChkOK(ck)
  BY <1>3 DEF Base, Types, ChkOK, AnyCheck
<1>5. Same(sv, s)
  BY Zenon DEF Same, Base, Types, SrvOK, Server
<1>6. Orders(s, <<State(to)>>)
  BY <1>3, OrdersFacts
<1> HIDE DEF ck, sv
<1> QED
  BY <1>2, <1>4, <1>5, <1>6, LockedStep DEF Stepped

(* "disable health" and "disable agent" keep the invariant. *)
LEMMA DisableStep == ASSUME Base, NEW p \in Threads, NEW c \in Checks, Disable(p, c) PROVE Stepped
<1> DEFINE ck == [chk EXCEPT ![c].on = FALSE]
<1>1. ChkOK(ck)
  BY Zenon DEF Base, Types, ChkOK, AnyCheck
<1>2. Locked(p, c[2], srv, ck, <<>>) /\ p \in Actors
  BY DEF Disable, Actors
<1> HIDE DEF ck
<1> QED
  BY <1>1, <1>2, CheckFacts, OrdersFacts, LockedSame

(* "enable health" and "enable agent" keep the invariant. *)
LEMMA EnableStep == ASSUME Base, NEW p \in Threads, NEW c \in Checks, Enable(p, c) PROVE Stepped
<1> DEFINE s == c[2]
           started == InitState(srv[s], srv[s].next, chk[c].health)
           ck == [chk EXCEPT ![c].on = TRUE]
<1>0. s \in Servers /\ p \in Actors /\ Orders(s, <<>>)
  BY CheckFacts, OrdersFacts DEF Actors
<1>1. ChkOK(ck)
  BY Zenon DEF Base, Types, ChkOK, AnyCheck
<1>2. CASE c[1] = "agent"
  <2>1. Locked(p, s, srv, ck, <<>>)
    BY <1>2 DEF Enable
  <2> HIDE DEF ck
  <2> QED
    BY <1>0, <1>1, <2>1, LockedSame
<1>3. CASE c[1] # "agent"
  <2> DEFINE sv == [srv EXCEPT ![s].next = started[1]]
             nck == [ck EXCEPT ![c].health = started[2]]
  <2>1. Locked(p, s, sv, nck, <<>>)
    BY <1>3 DEF Enable
  <2>2. c[1] = "check" /\ c \in Checks /\ Full(c) = Rise + Fall - 1 /\ Track[s] = NONE
    BY <1>3, CheckFacts DEF Checks, Check, Agent
  <2>3. /\ srv[s] \in Server /\ srv[s].next \in States
        /\ chk[c].health \in Nat /\ chk[c].health <= Full(c)
    BY <1>0 DEF Base, Types, SrvOK, Server, ChkOK, AnyCheck
  <2>4. /\ started[1] \in States /\ started[2] \in Nat /\ started[2] <= Full(c)
        /\ srv[s].init = "none" => started[1] = srv[s].next
    BY <2>2, <2>3, InitStateTyped
  <2> HIDE DEF started
  <2>5. ChkOK(nck)
    BY <1>1, <2>4, ZenonT(30) DEF ChkOK, AnyCheck
  <2>6. Same(sv, s)
    BY <1>0, <2>2, <2>4 DEF Same, Base, Types, SrvOK, Server
  <2> HIDE DEF nck, sv
  <2> QED
    BY <1>0, <2>1, <2>5, <2>6, LockedStep DEF Stepped
<1> QED
  BY <1>2, <1>3

(* The end of a DNS resolution keeps the invariant. *)
LEMMA ResolutionStep == ASSUME Base, NEW p \in Threads, NEW s \in Servers, Resolution(p, s) PROVE Stepped
<1> DEFINE ops == <<IF "RMAINT" \in srv[s].nadm THEN Clr("RMAINT") ELSE Set("RMAINT")>>
<1>1. p \in Actors /\ ChkOK(chk) /\ Locked(p, s, srv, chk, ops)
  BY DEF Actors, Base, Types, Resolution
<1>2. ops = <<Clr("RMAINT")>> \/ ops = <<Set("RMAINT")>>
  OBVIOUS
<1>3. Orders(s, ops)
  BY <1>2, OrdersFacts
<1> HIDE DEF ops
<1> QED
  BY <1>1, <1>3, LockedSame

(* An error seen in the traffic (observe, on-error) keeps the invariant. *)
LEMMA AdjustStep == ASSUME Base, NEW p \in Threads, NEW s \in Servers, Adjust(p, s) PROVE Stepped
<1> DEFINE c == Check(s)
           before(onerror) ==
             CASE onerror = "fail-check" -> chk[c].health
               [] onerror = "sudden-death" -> IF chk[c].health > Rise THEN Rise + 1 ELSE chk[c].health
               [] onerror = "mark-down" -> Rise
           after(onerror) == HealthAfter(c, before(onerror), "failed")
<1>1. PICK onerror \in {"fail-check", "sudden-death", "mark-down"} :
        Locked(p, s, srv, [chk EXCEPT ![c].result = "failed", ![c].health = after(onerror)],
               IF after(onerror) = 0 THEN <<State("STOPPED")>> ELSE <<>>)
  BY Zenon DEF Adjust
<1> DEFINE health == after(onerror)
           ck == [chk EXCEPT ![c].result = "failed", ![c].health = health]
           ops == IF health = 0 THEN <<State("STOPPED")>> ELSE <<>>
<1>2. Locked(p, s, srv, ck, ops) /\ p \in Actors
  BY <1>1, Zenon DEF Actors
<1>3. c \in Checks /\ Track[s] = NONE /\ Full(c) = Rise + Fall - 1 /\ Rise \in Nat \ {0} /\ Fall \in Nat \ {0}
  BY CheckFacts, ServersAssumption DEF Adjust
<1>4. chk[c].health \in Nat /\ chk[c].health <= Full(c)
  BY <1>3 DEF Base, Types, ChkOK, AnyCheck
<1>5. before(onerror) \in Nat /\ before(onerror) <= Full(c)
  <2>1. before(onerror) \in {chk[c].health, Rise} \/ (before(onerror) = Rise + 1 /\ chk[c].health > Rise)
    BY <1>1
  <2> HIDE DEF before, c
  <2> QED
    BY <1>3, <1>4, <2>1
<1> HIDE DEF before
<1>6. health \in Nat /\ health <= Full(c)
  BY <1>3, <1>5, HealthBounded
<1>7. Orders(s, ops)
  BY <1>3, OrdersFacts
<1> HIDE DEF health
<1>8. ChkOK(ck)
  <2> DEFINE r == [chk[c] EXCEPT !.result = "failed", !.health = health]
  <2> HIDE DEF c
  <2>1. chk[c] \in AnyCheck /\ ChkOK(chk)
    BY <1>3 DEF Base, Types, ChkOK
  <2>2. r \in AnyCheck /\ r.health <= Full(c)
    BY <1>6, <2>1, Zenon DEF AnyCheck
  <2>3. ck = [chk EXCEPT ![c] = r]
    BY Zenon
  <2> HIDE DEF r, ck
  <2>4. ChkOK([chk EXCEPT ![c] = r])
    BY <1>3, <2>1, <2>2, ChecksWritten
  <2> QED
    BY <2>3, <2>4
<1> HIDE DEF ck, ops
<1> QED
  BY <1>2, <1>7, <1>8, LockedSame

-----------------------------------------------------------------------------
(* Every step reaches a server, or leaves what is owed as it was. *)
LEMMA EveryStep ==
  ASSUME Base, [Next]_vars
  PROVE  Stepped \/ (Base' /\ Calm)
<1>1. ASSUME UNCHANGED <<srv, chk, lock, call>> PROVE Base' /\ Calm
  <2>1. AllFrames' = AllFrames
    BY <1>1 DEF AllFrames
  <2>2. Calm
    BY <1>1, <2>1, SMTT(30) DEF Calm
  <2>3. Types' /\ Holders' /\ Committed'
    BY <1>1 DEF Base, Types, Holders, Holder, Committed, CommittedAt
  <2> QED
    BY <2>2, <2>3 DEF Base
<1>2. CASE UNCHANGED vars
  BY <1>1, <1>2 DEF vars
<1>3. ASSUME NEW p \in Actors, Proceed(p) PROVE Stepped \/ (Base' /\ Calm)
  BY <1>3, ContinueStep, VisitStep, LeaveStep DEF Proceed, Stepped
<1>4. ASSUME NEW c \in Checks, CheckStep(c) \/ Change(c) PROVE Stepped \/ (Base' /\ Calm)
  <2>1. CASE CheckStep(c)
    BY <2>1, StartCheckStep, AnswerStep, AgentReplyStep, EndCheckStep DEF CheckStep
  <2>2. CASE Change(c)
    BY <1>1, <2>2 DEF Change
  <2> QED
    BY <1>4, <2>1, <2>2
<1>5. ASSUME NEW p \in Threads, NEW s \in Servers,
             SetAdmin(p, s) \/ SetHealth(p, s) \/ SetAgent(p, s) \/ Resolution(p, s) \/ Adjust(p, s)
      PROVE  Stepped
  BY <1>5, SetAdminStep, SetHealthStep, SetAgentStep, ResolutionStep, AdjustStep
<1>6. ASSUME NEW p \in Threads, NEW c \in Checks, Disable(p, c) \/ Enable(p, c) PROVE Stepped
  BY <1>6, DisableStep, EnableStep
<1>7. ASSUME NEW s \in Servers, Warmup(s) PROVE Stepped
  BY <1>7, WarmupStep DEF Stepped
<1> QED
  BY <1>2, <1>3, <1>4, <1>5, <1>6, <1>7 DEF Next

(* The configuration disables no server that both tracks another and is    *)
(* tracked: srv_compute_all_admin_states() leaves the trackers of such a   *)
(* server out.                                                             *)
NoneDisabledBetween == \A D \in Disabled : \A s \in D : Track[s] = NONE \/ Trackers(s) = {}

(* The configured servers satisfy the parts that need no assumption. *)
LEMMA InitBase == Init => Base
<1> SUFFICES ASSUME Init PROVE Base
  OBVIOUS
<1>1. PICK disabled \in Disabled, init \in InitStates, inh \in [Servers -> BOOLEAN] :
        /\ srv = [s \in Servers |-> StartServer(s, disabled, inh[s], init)]
        /\ chk = [c \in Checks |-> StartCheckState(c, disabled, srv[c[2]])]
  BY DEF Init
<1>2. disabled \in SUBSET Servers /\ init \in Inits
  BY ServersAssumption
<1>3. ASSUME NEW s \in Servers
      PROVE  srv[s] \in Server /\ CommittedAt(srv, s)
  <2> DEFINE adm == (IF s \in disabled THEN {"CMAINT", "FMAINT"} ELSE {})
                      \cup (IF inh[s] THEN {"IMAINT"} ELSE {})
             r == [cur |-> "RUNNING", next |-> "RUNNING", cadm |-> adm, nadm |-> adm,
                   init |-> IF Track[s] = NONE THEN init ELSE "none", forced |-> FALSE]
             next == IF adm # {} THEN "STOPPED" ELSE InitState(r, "RUNNING", 0)[1]
  <2>1. adm \in SUBSET Flags
    BY DEF Flags, Maint
  <2> HIDE DEF adm
  <2>2. r \in Server /\ "RUNNING" \in States /\ 0 \in Nat
    BY <1>2, <2>1 DEF Server, States, Inits
  <2>3. /\ r.nadm = adm /\ r.cadm = adm /\ (Track[s] # NONE => r.init = "none")
    OBVIOUS
  <2>4. srv[s] = [r EXCEPT !.cur = next, !.next = next]
    BY <1>1, Zenon DEF StartServer, adm
  <2> HIDE DEF r
  <2>5. next \in States /\ (adm \cap Maint # {} => next = "STOPPED")
    BY <2>2, InitStateTyped DEF States
  <2> HIDE DEF next
  <2>6. /\ srv[s] \in Server /\ srv[s].init = r.init
        /\ srv[s].cur = next /\ srv[s].next = next /\ srv[s].cadm = adm /\ srv[s].nadm = adm
    BY <2>2, <2>3, <2>4, <2>5, Zenon DEF Server
  <2> QED
    BY <2>3, <2>5, <2>6 DEF CommittedAt
<1>4. SrvOK(srv)
  BY <1>1, <1>3 DEF SrvOK
<1>5. ASSUME NEW c \in Checks PROVE chk[c] \in AnyCheck /\ chk[c].health <= Full(c)
  <2> DEFINE health == IF c[1] = "agent" THEN 1
                       ELSE IF c[2] \in disabled THEN 0 ELSE InitState(srv[c[2]], "RUNNING", Rise)[2]
  <2>1. chk[c] = [on |-> TRUE, busy |-> FALSE, result |-> "unknown",
                  paused |-> c[1] = "check" /\ c[2] \in disabled, health |-> health]
    BY <1>1 DEF StartCheckState
  <2>2. health \in Nat /\ health <= Full(c)
    <3>1. CASE c[1] = "agent"
      BY <3>1, CheckFacts DEF Full
    <3>2. CASE c[1] # "agent"
      <4>1. srv[c[2]] \in Server /\ "RUNNING" \in States /\ Rise \in Nat /\ Rise <= Rise + Fall - 1
        BY <1>3, CheckFacts, ServersAssumption DEF States
      <4>2. Full(c) = Rise + Fall - 1 /\ Full(c) \in Nat
        BY <3>2, CheckFacts DEF Checks, Check, Agent
      <4>3. InitState(srv[c[2]], "RUNNING", Rise)[2] \in Nat /\ InitState(srv[c[2]], "RUNNING", Rise)[2] <= Full(c)
        BY <4>1, <4>2, InitStateTyped
      <4> QED
        BY <3>2, <4>2, <4>3
    <3> QED
      BY <3>1, <3>2
  <2> HIDE DEF health
  <2> QED
    BY <2>1, <2>2 DEF AnyCheck
<1>6. ChkOK(chk)
  BY <1>1, <1>5, SMTT(30) DEF ChkOK
<1>7. lock \in [Servers -> Actors \cup {NONE}] /\ call \in [Actors -> AnyCall] /\ Holders
  BY DEF Init, AnyCall, idle, Holders, Holder
<1> QED
  BY <1>3, <1>4, <1>6, <1>7 DEF Base, Types, Committed

(* Nothing is owed at start-up. *)
LEMMA InitTracked == NoneDisabledBetween /\ Init => Owed /\ Exact /\ Follows
<1> SUFFICES ASSUME NoneDisabledBetween, Init PROVE Owed /\ Exact /\ Follows
  OBVIOUS
<1>1. PICK disabled \in Disabled, init \in InitStates, inh \in [Servers -> BOOLEAN] :
        /\ \A s \in Servers : inh[s] = Inherits(inh, s, disabled)
        /\ srv = [s \in Servers |-> StartServer(s, disabled, inh[s], init)]
  BY DEF Init
<1>2. Base
  BY InitBase
<1>3. AllFrames = {}
  BY DEF Init, AllFrames, idle
<1>4. Owed
  BY <1>3 DEF Owed
<1>5. ASSUME NEW s \in Servers
      PROVE  /\ "IMAINT" \in srv[s].nadm <=> inh[s]
             /\ "IDRAIN" \notin srv[s].nadm /\ srv[s].nadm \cap Drain = {}
             /\ srv[s].nadm \cap Maint # {} <=> inh[s] \/ s \in disabled
             /\ Track[s] # NONE /\ Trackers(s) # {} => s \notin disabled
             /\ srv[s].nadm = {} /\ srv[s].init = "none" => srv[s].next = "RUNNING"
             /\ srv[s].nadm # {} => srv[s].next = "STOPPED" /\ srv[s].nadm \cap Maint # {}
             /\ Track[s] # NONE => srv[s].init = "none"
  <2> DEFINE adm == (IF s \in disabled THEN {"CMAINT", "FMAINT"} ELSE {})
                      \cup (IF inh[s] THEN {"IMAINT"} ELSE {})
             r == [cur |-> "RUNNING", next |-> "RUNNING", cadm |-> adm, nadm |-> adm,
                   init |-> IF Track[s] = NONE THEN init ELSE "none", forced |-> FALSE]
             next == IF adm # {} THEN "STOPPED" ELSE InitState(r, "RUNNING", 0)[1]
  <2>1. /\ "IMAINT" \in adm <=> inh[s]
        /\ "IDRAIN" \notin adm /\ adm \cap Drain = {}
        /\ adm \cap Maint # {} <=> inh[s] \/ s \in disabled
        /\ adm # {} => adm \cap Maint # {}
    BY DEF Maint, Drain
  <2>2. srv[s] = [r EXCEPT !.cur = next, !.next = next]
    BY <1>1, Zenon DEF StartServer
  <2>3. r.init = "none" => InitState(r, "RUNNING", 0)[1] = "RUNNING"
    BY DEF InitState
  <2>4. srv[s].nadm = adm /\ srv[s].next = next /\ srv[s].init = r.init /\ (Track[s] # NONE => r.init = "none")
    BY <2>2
  <2>5. Track[s] # NONE /\ Trackers(s) # {} => s \notin disabled
    BY DEF NoneDisabledBetween
  <2> HIDE DEF adm, r
  <2> QED
    BY <2>1, <2>3, <2>4, <2>5
<1>6. ASSUME NEW t \in Servers, Track[t] # NONE
      PROVE  inh[t] <=> inh[Track[t]] \/ Track[t] \in disabled
  <2>0. Track[t] \in Servers /\ Trackers(Track[t]) # {}
    BY <1>6, ServersAssumption DEF Trackers
  <2>1. Track[t] \in Servers /\ (Track[Track[t]] # NONE => Track[t] \notin disabled)
    BY <1>5, <2>0
  <2>2. inh[t] = Inherits(inh, t, disabled) /\ inh[Track[t]] = Inherits(inh, Track[t], disabled)
    BY <1>1, <2>1
  <2>3. Track[Track[t]] = NONE => ~inh[Track[t]]
    BY <2>2 DEF Inherits
  <2> QED
    BY <1>6, <2>1, <2>2, <2>3 DEF Inherits
<1>7. ASSUME NEW t \in Servers, Track[t] # NONE
      PROVE  \A g \in Inherited : Has(t, g) <=> In(Track[t], g)
  <2>1. Track[t] \in Servers
    BY <1>7, ServersAssumption
  <2>2. Has(t, "IMAINT") <=> In(Track[t], "IMAINT")
    BY <1>5, <1>6, <1>7, <2>1 DEF Has, In, Members
  <2>3. Has(t, "IDRAIN") <=> In(Track[t], "IDRAIN")
    BY <1>5, <2>1 DEF Has, In, Members
  <2> QED
    BY <2>2, <2>3 DEF Inherited
<1>8. ASSUME NEW t \in Servers, Track[t] # NONE, srv[Track[t]].init = "none"
      PROVE  In(t, "IMAINT") \/ Kind(srv[t].next) = Kind(srv[Track[t]].next)
  <2>1. Track[t] \in Servers
    BY <1>8, ServersAssumption
  <2>2. CASE inh[t] \/ t \in disabled
    BY <1>5, <2>2 DEF In, Members
  <2>3. CASE ~inh[t] /\ t \notin disabled
    <3>1. srv[t].nadm = {} /\ srv[Track[t]].nadm = {}
      BY <1>5, <1>6, <1>8, <2>1, <2>3, SMTT(30)
    <3>2. srv[t].next = "RUNNING" /\ srv[Track[t]].next = "RUNNING"
      BY <1>5, <1>8, <2>1, <3>1
    <3> QED
      BY <3>2
  <2> QED
    BY <2>2, <2>3
<1> QED
  BY <1>4, <1>7, <1>8 DEF Exact, Follows

(* The invariants are inductive. *)
LEMMA BaseStep == Base /\ [Next]_vars => Base'
BY EveryStep DEF Stepped

(* Every step of a check, a command, a resolution or the traffic keeps the *)
(* invariant.                                                              *)
LEMMA IInvStep == IInv /\ [Next]_vars => IInv'
<1> SUFFICES ASSUME IInv, [Next]_vars PROVE IInv'
  OBVIOUS
<1>0. Base /\ Types /\ Holders /\ Committed /\ Owed /\ Exact /\ Follows
  BY DEF IInv, Base
<1>1. ASSUME Base', Calm PROVE IInv'
  BY <1>0, <1>1, CalmKeeps DEF IInv
<1>2. ASSUME Stepped PROVE IInv'
  <2>1. PICK s \in Servers : \E op, fs : Reaches(s, op, fs)
    BY <1>2 DEF Stepped
  <2>2. PICK op, fs : Reaches(s, op, fs)
    BY <2>1
  <2>3. Owed' /\ Exact' /\ Follows'
    BY <1>0, <2>2, OwedKept, ExactKept, FollowsKept
  <2> QED
    BY <1>2, <2>3 DEF Stepped, IInv
<1> QED
  BY <1>0, <1>1, <1>2, EveryStep

-----------------------------------------------------------------------------
(* Base implies what is said of one server, IInv what relates two. *)
LEMMA BaseApplied == Base => Applied
<1> SUFFICES ASSUME Base PROVE Applied
  OBVIOUS
<1>1. TypeOK
  <2>1. \A s \in Servers : srv[s] \in Server /\ lock[s] \in Actors \cup {NONE}
    BY DEF Base, Types, SrvOK
  <2>2. \A c \in Checks : chk[c].health \in 0 .. Full(c)
    BY CheckFacts, SMTT(30) DEF Base, Types, ChkOK, AnyCheck
  <2>3. \A p \in Actors : call[p] = idle \/ lock[call[p].srv] = p
    BY DEF Base, Holders, Holder
  <2> QED
    BY <2>1, <2>2, <2>3 DEF TypeOK, Server
<1>2. \A s \in Servers : srv[s].init = "none" =>
        /\ srv[s].cur = srv[s].next /\ srv[s].cadm = srv[s].nadm
        /\ InMaint(s) => srv[s].cur = "STOPPED"
  BY DEF Base, Committed, CommittedAt, InMaint
<1> QED
  BY <1>1, <1>2 DEF Applied

(* Nobody visits the trackers of a server that is free. *)
LEMMA FreeOwesNothing ==
  ASSUME Base, NEW t \in Servers, Track[t] # NONE, Free(Track[t]), NEW ops
  PROVE  ~Pending(t, ops)
<1>1. Types /\ Holders
  BY DEF Base
<1> QED
  BY <1>1, FrameFacts DEF Pending, Free

(* Where no call is open, nothing is owed: the trackers are what they      *)
(* track.                                                                  *)
LEMMA IInvTracked == IInv => InheritedExact /\ TrackerFollows
<1> SUFFICES ASSUME IInv PROVE InheritedExact /\ TrackerFollows
  OBVIOUS
<1>0. Base /\ Exact /\ Follows
  BY DEF IInv
<1>1. ASSUME NEW t \in Servers, Track[t] # NONE, Free(Track[t])
      PROVE  /\ ("IMAINT" \in srv[t].nadm) = InMaint(Track[t])
             /\ ("IDRAIN" \in srv[t].nadm) = InDrain(Track[t])
  <2>1. \A ops : ~Pending(t, ops)
    BY <1>0, <1>1, FreeOwesNothing
  <2>2. \A g \in Inherited : Has(t, g) <=> In(Track[t], g)
    BY <1>0, <1>1, <2>1, Zenon DEF Exact
  <2> QED
    BY <2>2 DEF Inherited, Has, In, Members, InMaint, InDrain
<1>2. ASSUME NEW t \in Servers \ HasAgent, Track[t] # NONE, Free(Track[t]), ~InMaint(t), srv[Track[t]].init = "none"
      PROVE  Kind(srv[t].cur) = Kind(srv[Track[t]].cur)
  <2>1. \A ops : ~Pending(t, ops)
    BY <1>0, <1>2, FreeOwesNothing
  <2>2. ~In(t, "IMAINT")
    BY <1>2 DEF In, Members, InMaint
  <2>3. Kind(srv[t].next) = Kind(srv[Track[t]].next)
    BY <1>0, <1>2, <2>1, <2>2 DEF Follows
  <2>4. srv[t].cur = srv[t].next /\ srv[Track[t]].cur = srv[Track[t]].next
    BY <1>0, <1>2, ServersAssumption DEF Base, Committed, CommittedAt
  <2> QED
    BY <2>3, <2>4
<1> QED
  BY <1>1, <1>2 DEF InheritedExact, TrackerFollows

(* An operation is in effect when it releases the server, whatever checks, *)
(* agents, commands and name resolution do and in whatever order: the      *)
(* current state and flags are those decided, and a server in maintenance  *)
(* is stopped (srv_update_status()).                                       *)
THEOREM DecidedIsApplied == Spec => []Applied
<1>1. Spec => []Base
  BY InitBase, BaseStep, PTL DEF Spec
<1> QED
  BY <1>1, BaseApplied, PTL

(* The inductive invariant: what a tracker lacks is owed to it by whoever  *)
(* holds the lock of the server that it tracks.                            *)
THEOREM ServersInvariant == NoneDisabledBetween /\ Spec => []IInv
<1>1. NoneDisabledBetween /\ Init => IInv
  BY InitBase, InitTracked DEF IInv
<1> QED
  BY <1>1, IInvStep, PTL DEF Spec

(* For any depth and breadth of tracking, a server inherits maintenance or *)
(* drain exactly when the one it tracks is in it by any flag, once that    *)
(* one is unlocked (srv_set_admin_flag(), srv_clr_admin_flag()).           *)
THEOREM FlagsAreInheritedExactly == NoneDisabledBetween /\ Spec => []InheritedExact
BY ServersInvariant, IInvTracked, PTL

(* A tracker without agent that is not in maintenance has the state of the *)
(* server it tracks, though _srv_update_status_adm() reads that state      *)
(* without the lock.                                                       *)
THEOREM TrackersFollow == NoneDisabledBetween /\ Spec => []TrackerFollows
BY ServersInvariant, IInvTracked, PTL
=============================================================================
