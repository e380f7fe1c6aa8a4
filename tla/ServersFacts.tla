--------------------------- MODULE ServersFacts -----------------------------
(***************************************************************************)
(* Proofs about Servers, for any servers, whatever they track, and for any *)
(* number of threads, commands and checks.                                 *)
(*                                                                         *)
(* What an operation changes on a server reaches the servers that track it *)
(* later, one by one.  The inductive invariant says what is owed in the    *)
(* meantime: a tracker that does not agree with the server it tracks is    *)
(* left to visit by whoever holds the lock of that server, for an          *)
(* operation that will make it agree.                                      *)
(***************************************************************************)
EXTENDS Servers, TLAPS

(* The flags that are inherited, and those of the same kind. *)
Inherited == {"IMAINT", "IDRAIN"}
Members(g) == IF g = "IMAINT" THEN Maint ELSE Drain
Has(t, g) == g \in srv[t].nadm
In(s, g) == srv[s].nadm \cap Members(g) # {}

StateOps == {State(to) : to \in {"RUNNING", "STOPPING", "STOPPED"}}
FlagOps(flags) == {Set(f) : f \in flags} \cup {Clr(f) : f \in flags}
CarriedOps == StateOps \cup FlagOps(Inherited)
OwnOps == FlagOps({"FMAINT", "FDRAIN", "RMAINT"})
DirectOps == StateOps \cup OwnOps

Server == [cur : States, next : States, cadm : SUBSET Flags, nadm : SUBSET Flags,
           init : Inits, forced : BOOLEAN]
AnyCheck == [on : BOOLEAN, busy : BOOLEAN, paused : BOOLEAN, health : Nat,
             result : {"unknown", "passed", "condpass", "failed", "unreached"}]
AnyFrame == [srv : Servers, op : CarriedOps, left : SUBSET Servers]
AnyCall == [srv : Servers \cup {NONE}, todo : Seq(OwnOps), path : Seq(AnyFrame)]

SrvOK(sv) == sv \in [Servers -> Server]
ChkOK(ck) == ck \in [Checks -> AnyCheck] /\ \A c \in Checks : ck[c].health <= Full(c)
Types ==
  /\ SrvOK(srv) /\ ChkOK(chk)
  /\ lock \in [Servers -> Actors \cup {NONE}]
  /\ call \in [Actors -> AnyCall]

(* Whoever is inside a section holds the lock of its server, and those of  *)
(* the servers whose trackers it visits, each once.                        *)
Holder(p) ==
  LET path == call[p].path IN
  /\ call[p].srv = NONE => call[p] = idle
  /\ call[p].srv # NONE => lock[call[p].srv] = p
  /\ path # <<>> => path[1].srv = call[p].srv
  /\ \A i \in 1 .. Len(path) : lock[path[i].srv] = p /\ path[i].left \subseteq Trackers(path[i].srv)
  /\ \A i, j \in 1 .. Len(path) : path[i].srv = path[j].srv => i = j
Holders == \A p \in Actors : Holder(p)

(* A server without init-state: what was decided is in effect. *)
CommittedAt(sv, s) ==
  /\ Track[s] # NONE => sv[s].init = "none"
  /\ sv[s].init = "none" =>
       /\ sv[s].cur = sv[s].next /\ sv[s].cadm = sv[s].nadm
       /\ sv[s].nadm \cap Maint # {} => sv[s].next = "STOPPED"
Committed == \A s \in Servers : CommittedAt(srv, s)

(* An operation that is carried is still to be done on each tracker left. *)
FrameOK(f) ==
  /\ f.op \in StateOps => Kind(f.op.arg) = Kind(srv[f.srv].next)
  /\ \A g \in Inherited :
       /\ f.op = Set(g) => In(f.srv, g) /\ \A t \in f.left : ~Has(t, g)
       /\ f.op = Clr(g) => ~In(f.srv, g) /\ \A t \in f.left : Has(t, g)
AllFrames == {f \in AnyFrame : \E p \in Actors : \E i \in 1 .. Len(call[p].path) : f = call[p].path[i]}
Owed == \A f \in AllFrames : FrameOK(f)

Pending(t, ops) == \E f \in AllFrames : f.srv = Track[t] /\ t \in f.left /\ f.op \in ops

Exact ==
  \A t \in Servers : Track[t] # NONE =>
    \A g \in Inherited : (Has(t, g) <=> In(Track[t], g)) \/ Pending(t, {Set(g), Clr(g)})

Follows ==
  \A t \in Servers \ HasAgent : Track[t] # NONE /\ srv[Track[t]].init = "none" =>
    \/ In(t, "IMAINT")
    \/ Kind(srv[t].next) = Kind(srv[Track[t]].next)
    \/ Pending(t, StateOps \cup {Set("IMAINT")})

Base == Types /\ Holders /\ Committed
IInv == Base /\ Owed /\ Exact /\ Follows
-----------------------------------------------------------------------------
(* What an operation is. *)
LEMMA OpCases ==
  ASSUME NEW op \in CarriedOps \cup DirectOps
  PROVE  \/ op \in StateOps /\ op.fn = "state" /\ op.arg \in {"RUNNING", "STOPPING", "STOPPED"}
         \/ op = Set(op.arg) /\ op.fn = "set" /\ op.arg \in Maint \cup Drain
         \/ op = Clr(op.arg) /\ op.fn = "clr" /\ op.arg \in Maint \cup Drain
BY DEF CarriedOps, DirectOps, OwnOps, StateOps, FlagOps, State, Set, Clr, Inherited, Maint, Drain

(* Operations are told apart by their function and argument. *)
LEMMA OpsDiffer ==
  /\ \A f, g : Set(f) # Clr(g) /\ (Set(f) = Set(g) <=> f = g) /\ (Clr(f) = Clr(g) <=> f = g)
  /\ \A f : Set(f) \notin StateOps /\ Clr(f) \notin StateOps
  /\ \A g \in Inherited : Set(g) \notin DirectOps /\ Clr(g) \notin DirectOps
BY DEF DirectOps, OwnOps, StateOps, FlagOps, State, Set, Clr, Inherited

(* srv_set_init_state() gives a state and a health that the checks know. *)
LEMMA InitStateTyped ==
  ASSUME NEW r \in Server, NEW next \in States, NEW health \in Nat
  PROVE  /\ InitState(r, next, health)[1] \in States
         /\ InitState(r, next, health)[2] \in Nat
         /\ health <= Rise + Fall - 1 => InitState(r, next, health)[2] <= Rise + Fall - 1
         /\ r.init = "none" => InitState(r, next, health)[1] = next
BY ServersAssumption DEF InitState, Server, States, Inits

(* A state that server_recalc_eweight() changes was starting. *)
LEMMA RecalcTyped ==
  ASSUME NEW cur, NEW next \in States, NEW elapsed \in BOOLEAN
  PROVE  /\ Recalc(cur, next, elapsed) \in States
         /\ Kind(Recalc(cur, next, elapsed)) = Kind(next)
         /\ next = "STOPPED" => Recalc(cur, next, elapsed) = "STOPPED"
BY DEF Recalc, Kind, States

(* The health of a check and of an agent stays between 0 and rise + fall - *)
(* 1.                                                                      *)
LEMMA ChecksTyped ==
  ASSUME NEW ck, ChkOK(ck)
  PROVE  /\ \A s \in HasCheck : /\ Check(s) \in Checks /\ s \in Servers /\ Track[s] = NONE
                                /\ ck[Check(s)].health \in Nat /\ ck[Check(s)].paused \in BOOLEAN
                                /\ ck[Check(s)].health <= Rise + Fall - 1
         /\ \A s \in Servers \ HasAgent : Agent(s) \notin Checks
         /\ \A s \in Servers \ HasCheck : Check(s) \notin Checks
         /\ \A c \in Checks : c[2] \in Servers
<1>1. \A s \in HasCheck : Check(s) \in Checks /\ s \in Servers /\ Track[s] = NONE
  BY ServersAssumption DEF Checks
<1>2. ASSUME NEW s \in HasCheck
      PROVE  /\ ck[Check(s)].health \in Nat /\ ck[Check(s)].paused \in BOOLEAN
             /\ ck[Check(s)].health <= Rise + Fall - 1
  <2>1. Full(Check(s)) = Rise + Fall - 1
    BY DEF Full, Check
  <2> QED
    BY <1>1, <2>1 DEF ChkOK, AnyCheck
<1>3. \A s \in Servers \ HasAgent : Agent(s) \notin Checks
  BY DEF Checks, Agent, Check
<1>4. \A s \in Servers \ HasCheck : Check(s) \notin Checks
  BY DEF Checks, Agent, Check
<1>5. \A c \in Checks : c[2] \in Servers
  BY ServersAssumption DEF Checks, Agent, Check
<1> QED
  BY <1>1, <1>2, <1>3, <1>4, <1>5

(* _srv_update_status_adm(): types. *)
LEMMA AdmTyped ==
  ASSUME NEW sv, SrvOK(sv), NEW ck, ChkOK(ck), NEW s \in Servers,
         NEW adm \in SUBSET Flags, NEW elapsed \in BOOLEAN
  PROVE  LET new == AdmState(sv, ck, s, adm, elapsed)
         IN  /\ new.next \in States
             /\ s \in HasCheck => /\ new.paused \in BOOLEAN /\ new.health \in Nat
                                  /\ new.health <= Rise + Fall - 1
<1> DEFINE r == [sv[s] EXCEPT !.nadm = adm]
           health == IF s \in HasCheck THEN ck[Check(s)].health ELSE 0
           on == IsOn(ck, Check(s))
           started == InitState(r, r.next, IF on THEN Rise ELSE health)
<1>1. r \in Server /\ r.next \in States
  BY DEF SrvOK, Server
<1>2. /\ health \in Nat /\ health <= Rise + Fall - 1 /\ Rise \in Nat /\ Fall \in Nat
      /\ Rise <= Rise + Fall - 1
  BY ChecksTyped, ServersAssumption
<1>3. started[1] \in States /\ started[2] \in Nat /\ started[2] <= Rise + Fall - 1
  <2> HIDE DEF r, health, on
  <2> QED
    BY <1>1, <1>2, InitStateTyped
<1>4. Recalc(r.cur, started[1], elapsed) \in States /\ Recalc(r.cur, r.next, elapsed) \in States
  BY <1>1, <1>3, RecalcTyped
<1>5. on \in BOOLEAN /\ (s \in HasCheck => ck[Check(s)].paused \in BOOLEAN)
  BY ChecksTyped DEF IsOn, ChkOK, AnyCheck
<1> DEFINE new == AdmState(sv, ck, s, adm, elapsed)
<1>6. new.next \in {r.next, "STOPPED", "STOPPING", "STARTING", "RUNNING",
                    Recalc(r.cur, started[1], elapsed), Recalc(r.cur, r.next, elapsed)}
  BY DEF AdmState
<1>7. new.health \in {0, health, started[2]}
  BY DEF AdmState
<1>8. s \in HasCheck => new.paused \in BOOLEAN
  BY <1>5, Zenon DEF AdmState
<1> HIDE DEF r, health, on, started
<1>9. new.next \in States
  BY <1>1, <1>4, <1>6 DEF States
<1>10. new.health \in Nat /\ new.health <= Rise + Fall - 1
  BY <1>2, <1>3, <1>7
<1> QED
  BY <1>8, <1>9, <1>10

(* _srv_update_status_adm() on a server without init-state: one that       *)
(* enters maintenance stops, one that leaves it follows the server that it *)
(* tracks, and any other keeps its state up to the slow start.             *)
LEMMA AdmNext ==
  ASSUME NEW sv, SrvOK(sv), NEW ck, ChkOK(ck), NEW s \in Servers, CommittedAt(sv, s),
         sv[s].init = "none", NEW adm \in SUBSET Flags, NEW elapsed \in BOOLEAN
  PROVE  LET new == AdmState(sv, ck, s, adm, elapsed)
         IN  /\ adm \cap Maint # {} => new.next = "STOPPED"
             /\ adm \cap Maint = {} /\ sv[s].nadm \cap Maint = {} => Kind(new.next) = Kind(sv[s].next)
             /\ (/\ adm \cap Maint = {} /\ sv[s].nadm \cap Maint # {}
                 /\ s \notin HasAgent /\ Track[s] # NONE)
                   => Kind(new.next) = Kind(sv[Track[s]].next)
<1> DEFINE r == [sv[s] EXCEPT !.nadm = adm]
           health == IF s \in HasCheck THEN ck[Check(s)].health ELSE 0
           on == IsOn(ck, Check(s))
           started == InitState(r, r.next, IF on THEN Rise ELSE health)
           new == AdmState(sv, ck, s, adm, elapsed)
<1>1. /\ r \in Server /\ r.next = sv[s].next /\ r.cur = r.next /\ r.cadm = sv[s].nadm
      /\ r.init = "none" /\ r.next \in States
      /\ sv[s].nadm \cap Maint # {} => r.next = "STOPPED"
  BY DEF SrvOK, Server, CommittedAt
<1>2. health \in Nat /\ Rise \in Nat
  BY ChecksTyped, ServersAssumption
<1>3. started[1] = r.next
  <2> HIDE DEF r, health, on
  <2> QED
    BY <1>1, <1>2, InitStateTyped
<1>4. /\ Kind(Recalc(r.cur, r.next, elapsed)) = Kind(r.next)
      /\ r.next = "STOPPED" => Recalc(r.cur, r.next, elapsed) = "STOPPED"
  <2> HIDE DEF r
  <2> QED
    BY <1>1, RecalcTyped
<1>5. ASSUME adm \cap Maint # {} PROVE new.next = "STOPPED"
  <2> HIDE DEF r, health, on, started
  <2> QED
    BY <1>1, <1>5 DEF AdmState, r
<1>6. ASSUME adm \cap Maint = {}, sv[s].nadm \cap Maint = {} PROVE Kind(new.next) = Kind(sv[s].next)
  <2>1. new.next \in {Recalc(r.cur, r.next, elapsed), r.next}
    BY <1>1, <1>6 DEF AdmState
  <2> QED
    BY <1>1, <1>4, <2>1
<1>7. ASSUME adm \cap Maint = {}, sv[s].nadm \cap Maint # {}, s \notin HasAgent, Track[s] # NONE
      PROVE  Kind(new.next) = Kind(sv[Track[s]].next)
  <2>1. Comply(ck, s, started[2])
    BY <1>7, ChecksTyped DEF Comply, IsOn
  <2>2. sv[Track[s]].next \in States
    BY <1>7, ServersAssumption DEF SrvOK, Server
  <2>3. new.next = IF Followed(sv, s) # "STOPPED"
                   THEN IF Followed(sv, s) = "STOPPING" THEN "STOPPING"
                        ELSE IF s \in Slow THEN "STARTING" ELSE "RUNNING"
                   ELSE Recalc(r.cur, started[1], elapsed)
    BY <1>1, <1>7, <2>1 DEF AdmState
  <2> HIDE DEF r, health, on, started, new
  <2> QED
    BY <1>1, <1>3, <1>4, <1>7, <2>2, <2>3 DEF Followed, Kind, States
<1> QED
  BY <1>5, <1>6, <1>7

(* The flags that an operation leaves. *)
AdmAfter(adm, op) ==
  CASE op.fn = "state" -> adm
    [] op.fn = "set" -> adm \cup {op.arg}
    [] op.fn = "clr" -> adm \ {op.arg}

(* What srv_update_status() writes, and where. *)
Written(sv, ck, s, op, elapsed, new) ==
  LET adm == AdmAfter(sv[s].nadm, op)
  IN  /\ SrvOK(new.srv) /\ ChkOK(new.chk)
      /\ \A r \in Servers \ {s} : new.srv[r] = sv[r]
      /\ new.srv[s].init = sv[s].init
      /\ new.srv[s].cur = new.srv[s].next
      /\ new.srv[s].cadm = adm /\ new.srv[s].nadm = adm
      /\ op.fn = "state" => Kind(new.srv[s].next) = Kind(op.arg)
      /\ op.fn # "state" => new.srv[s].next = AdmState(sv, ck, s, adm, elapsed).next

(* An operation that takes effect keeps the types. *)
LEMMA ApplyWrites ==
  ASSUME NEW sv, SrvOK(sv), NEW ck, ChkOK(ck), NEW s \in Servers,
         NEW op \in CarriedOps \cup DirectOps, NEW elapsed \in BOOLEAN
  PROVE  Written(sv, ck, s, op, elapsed, Apply(sv, ck, s, op, elapsed))
<1> DEFINE to == IF op.arg = "RUNNING" /\ s \in Slow
                 THEN Recalc(sv[s].cur, "STARTING", elapsed) ELSE op.arg
           adm == AdmAfter(sv[s].nadm, op)
           anew == AdmState(sv, ck, s, adm, elapsed)
           next == IF op.fn = "state" THEN to ELSE anew.next
           rec == [sv[s] EXCEPT !.cur = next, !.next = next, !.cadm = adm, !.nadm = adm]
           new == Apply(sv, ck, s, op, elapsed)
<1>1. sv[s] \in Server /\ sv \in [Servers -> Server]
  BY DEF SrvOK
<1>2. adm \in SUBSET Flags
  BY <1>1, OpCases DEF AdmAfter, Server, Flags
<1>3. /\ op.fn = "state" => to \in States /\ Kind(to) = Kind(op.arg)
      /\ op.fn # "state" => op.fn \in {"set", "clr"}
  <2>1. Recalc(sv[s].cur, "STARTING", elapsed) \in {"STARTING", "RUNNING"}
    BY DEF Recalc
  <2> QED
    BY <2>1, OpCases DEF States, Kind
<1>4. /\ anew.next \in States
      /\ s \in HasCheck => /\ anew.paused \in BOOLEAN /\ anew.health \in Nat
                           /\ anew.health <= Rise + Fall - 1
  <2> HIDE DEF adm
  <2> QED
    BY <1>2, AdmTyped
<1>5. next \in States
  BY <1>3, <1>4
<1>6. new.srv = [sv EXCEPT ![s] = rec]
  BY Zenon DEF Apply, AdmAfter
<1>7. new.chk = IF op.fn = "state" \/ s \notin HasCheck THEN ck
                ELSE [ck EXCEPT ![Check(s)] = [@ EXCEPT !.paused = anew.paused, !.health = anew.health]]
  BY Zenon DEF Apply, AdmAfter
<1> HIDE DEF next, adm, anew, new
<1>8. rec \in Server /\ rec.next = next /\ rec.cur = next /\ rec.cadm = adm /\ rec.nadm = adm
      /\ rec.init = sv[s].init
  BY <1>1, <1>2, <1>5, Zenon DEF Server
<1> HIDE DEF rec
<1>9. SrvOK(new.srv) /\ new.srv[s] = rec /\ \A r \in Servers \ {s} : new.srv[r] = sv[r]
  BY <1>1, <1>6, <1>8 DEF SrvOK
<1>10. ChkOK(new.chk)
  <2>1. CASE op.fn = "state" \/ s \notin HasCheck
    BY <1>7, <2>1
  <2>2. CASE op.fn # "state" /\ s \in HasCheck
    <3>1. Check(s) \in Checks /\ Full(Check(s)) = Rise + Fall - 1 /\ ck[Check(s)] \in AnyCheck
      BY <2>2, ChecksTyped DEF Full, Check, ChkOK
    <3> DEFINE c == [ck[Check(s)] EXCEPT !.paused = anew.paused, !.health = anew.health]
    <3>2. c \in AnyCheck /\ c.health = anew.health
      BY <1>4, <2>2, <3>1, Zenon DEF AnyCheck
    <3>3. new.chk = [ck EXCEPT ![Check(s)] = c]
      BY <1>7, <2>2
    <3> HIDE DEF c
    <3> QED
      BY <1>4, <2>2, <3>1, <3>2, <3>3 DEF ChkOK
  <2> QED
    BY <2>1, <2>2
<1>11. /\ op.fn = "state" => next = to
       /\ op.fn # "state" => next = anew.next
  BY DEF next
<1> QED
  BY <1>3, <1>8, <1>9, <1>10, <1>11 DEF Written, adm, anew, new

(* The frame that carries <o> to the trackers of <s>, and whether flags    *)
(* make a server in maintenance or in drain.                               *)
FrameFor(s, o) == [srv |-> s, op |-> o, left |-> Trackers(s)]
Amid(adm, g) == adm \cap Members(g) # {}
GroupOf(f) == IF f \in Maint THEN "IMAINT" ELSE "IDRAIN"

(* What an operation on <s> may write. *)
Writes(sv, s, nsv) ==
  /\ SrvOK(nsv)
  /\ \A r \in Servers \ {s} : nsv[r] = sv[r]
  /\ nsv[s].init = sv[s].init
  /\ CommittedAt(sv, s) => CommittedAt(nsv, s)

(* A server that gets into or out of maintenance or drain tells the        *)
(* trackers; the flag that it inherits itself only changes by a request.   *)
FlagsCarried(sv, s, op, nsv, fs) ==
  \A g \in Inherited :
    /\ g \in nsv[s].nadm <=> op = Set(g) \/ (g \in sv[s].nadm /\ op # Clr(g))
    /\ \/ /\ Amid(nsv[s].nadm, g) <=> Amid(sv[s].nadm, g)
          /\ \A f \in fs : f.op \notin {Set(g), Clr(g)}
       \/ /\ ~Amid(sv[s].nadm, g) /\ Amid(nsv[s].nadm, g)
          /\ fs # {} \/ Trackers(s) # {} => fs = {FrameFor(s, Set(g))}
       \/ /\ Amid(sv[s].nadm, g) /\ ~Amid(nsv[s].nadm, g)
          /\ fs # {} \/ Trackers(s) # {} => fs = {FrameFor(s, Clr(g))}

(* So does one whose state changes, unless it leaves maintenance; one that *)
(* tracks another takes the state it is told, or that of the other.        *)
StateCarried(sv, s, op, nsv, fs) ==
  /\ \A f \in fs : f.op \in StateOps => Kind(f.op.arg) = Kind(nsv[s].next)
  /\ CommittedAt(sv, s) /\ sv[s].init = "none" =>
       \/ Kind(nsv[s].next) = Kind(sv[s].next)
       \/ Trackers(s) = {}
       \/ \E o \in StateOps \cup {Set("IMAINT")} : fs = {FrameFor(s, o)}
       \/ Amid(sv[s].nadm, "IMAINT") /\ ~Amid(nsv[s].nadm, "IMAINT")
  /\ CommittedAt(sv, s) /\ Track[s] # NONE /\ s \notin HasAgent =>
       \/ Amid(nsv[s].nadm, "IMAINT")
       \/ op \in StateOps /\ Kind(nsv[s].next) = Kind(op.arg)
       \/ Kind(nsv[s].next) = Kind(sv[Track[s]].next)
       \/ Kind(nsv[s].next) = Kind(sv[s].next) /\ ~Amid(sv[s].nadm, "IMAINT") /\ op \notin StateOps

Effect(sv, s, op, nsv, fs) ==
  /\ fs = {} \/ \E o \in CarriedOps : fs = {FrameFor(s, o)}
  /\ Writes(sv, s, nsv)
  /\ FlagsCarried(sv, s, op, nsv, fs)
  /\ StateCarried(sv, s, op, nsv, fs)

(* The frame that the loops on the trackers begin with, if any. *)
Shape(sv, s, op, early, path) ==
  \/ /\ path = <<>>
     /\ \/ early \/ Trackers(s) = {}
        \/ op \notin StateOps /\ Amid(sv[s].nadm \ {op.arg}, GroupOf(op.arg))
  \/ ~early /\ op \in StateOps /\ path = <<FrameFor(s, op)>>
  \/ /\ ~early /\ op.fn = "set" /\ path = <<FrameFor(s, Set(GroupOf(op.arg)))>>
     /\ ~Amid(sv[s].nadm \ {op.arg}, GroupOf(op.arg))
  \/ /\ ~early /\ op.fn = "clr" /\ path = <<FrameFor(s, Clr(GroupOf(op.arg)))>>
     /\ ~Amid(sv[s].nadm \ {op.arg}, GroupOf(op.arg))

(* A server with another flag of the same kind has nothing to carry. *)
LEMMA FrameShape ==
  ASSUME NEW sv, NEW s \in Servers, NEW op \in CarriedOps \cup DirectOps, NEW early \in BOOLEAN
  PROVE  Shape(sv, s, op, early, Frame(sv, s, op, early))
<1> DEFINE g == GroupOf(op.arg)
<1>0. \A x : (CHOOSE o \in {x} : TRUE) = x
  OBVIOUS
<1>1. CASE early \/ Trackers(s) = {}
  BY <1>1 DEF Frame, Shape
<1>2. CASE ~early /\ Trackers(s) # {} /\ op \in StateOps
  <2>1. Carried(sv, s, op) = {op}
    BY <1>2, OpCases, OpsDiffer DEF Carried
  <2> QED
    BY <1>0, <1>2, <2>1 DEF Frame, FrameFor, Shape
<1>3. CASE ~early /\ Trackers(s) # {} /\ op \notin StateOps
  <2>1. op \in {Set(op.arg), Clr(op.arg)} /\ op.fn \in {"set", "clr"} /\ op.arg \in Maint \cup Drain
    BY <1>3, OpCases
  <2>2. sv[s].nadm \cap (Members(g) \ {op.arg}) = (sv[s].nadm \ {op.arg}) \cap Members(g)
    OBVIOUS
  <2>3. Carried(sv, s, op) = IF Amid(sv[s].nadm \ {op.arg}, g) THEN {} ELSE {[op EXCEPT !.arg = g]}
    <3>1. (IF op.arg \in Maint THEN Maint ELSE Drain) = Members(g)
      BY DEF Members, GroupOf
    <3> QED
      BY <2>1, <2>2, <3>1 DEF Carried, Amid, GroupOf
  <2>4. op.fn = "set" => [op EXCEPT !.arg = g] = Set(g)
    BY <2>1 DEF Set, Clr
  <2>5. op.fn = "clr" => [op EXCEPT !.arg = g] = Clr(g)
    BY <2>1 DEF Set, Clr
  <2> HIDE DEF g
  <2>6. CASE Amid(sv[s].nadm \ {op.arg}, g)
    BY <1>3, <2>3, <2>6 DEF Frame, Shape, g
  <2>7. CASE ~Amid(sv[s].nadm \ {op.arg}, g)
    <3>1. Frame(sv, s, op, early) = <<FrameFor(s, [op EXCEPT !.arg = g])>>
      BY <1>0, <1>3, <2>3, <2>7 DEF Frame, FrameFor
    <3> QED
      BY <1>3, <2>1, <2>4, <2>5, <2>7, <3>1 DEF Shape, g
  <2> QED
    BY <2>6, <2>7
<1> QED
  BY <1>1, <1>2, <1>3

(* The steps of an operation on <s>, and the path that it begins. *)
Does(sv, ck, s, op, elapsed, early, new, path) ==
  /\ early \in BOOLEAN /\ early = Early(sv, s, op)
  /\ new = IF early THEN [srv |-> sv, chk |-> ck] ELSE Apply(sv, ck, s, op, elapsed)
  /\ path = Frame(new.srv, s, op, early)

(* What comes of it. *)
Outcome(sv, s, op, new, path) ==
  /\ ChkOK(new.chk)
  /\ \E fs : /\ Effect(sv, s, op, new.srv, fs)
             /\ (path = <<>> /\ fs = {}) \/ \E f : path = <<f>> /\ fs = {f}

(* An operation on a server, whether it stops at its first tests or not. *)
LEMMA OpEffect ==
  ASSUME NEW sv, SrvOK(sv), NEW ck, ChkOK(ck), NEW s \in Servers,
         NEW op \in CarriedOps \cup DirectOps, NEW elapsed \in BOOLEAN,
         NEW early, NEW new, NEW path, Does(sv, ck, s, op, elapsed, early, new, path)
  PROVE  Outcome(sv, s, op, new, path)
<1> DEFINE nsv == new.srv
           fs == IF path = <<>> THEN {} ELSE {path[1]}
           g == GroupOf(op.arg)
           adm == AdmAfter(sv[s].nadm, op)
<1>1. /\ early \in BOOLEAN /\ early = Early(sv, s, op)
      /\ new = IF early THEN [srv |-> sv, chk |-> ck] ELSE Apply(sv, ck, s, op, elapsed)
      /\ path = Frame(new.srv, s, op, early)
  BY DEF Does
<1>2. /\ SrvOK(nsv) /\ ChkOK(new.chk)
      /\ \A r \in Servers \ {s} : nsv[r] = sv[r]
      /\ nsv[s].init = sv[s].init
      /\ early => nsv = sv
      /\ ~early => /\ nsv[s].cur = nsv[s].next /\ nsv[s].cadm = adm /\ nsv[s].nadm = adm
                   /\ op.fn = "state" => Kind(nsv[s].next) = Kind(op.arg)
                   /\ op.fn # "state" => nsv[s].next = AdmState(sv, ck, s, adm, elapsed).next
  <2>1. CASE early
    BY <1>1, <2>1
  <2>2. CASE ~early
    <3>1. new = Apply(sv, ck, s, op, elapsed)
      BY <1>1, <2>2
    <3>2. Written(sv, ck, s, op, elapsed, new)
      BY <3>1, ApplyWrites
    <3> QED
      BY <2>2, <3>2 DEF Written
  <2> QED
    BY <1>1, <2>1, <2>2
<1>3. \/ /\ path = <<>> /\ fs = {}
         /\ \/ early \/ Trackers(s) = {}
            \/ op \notin StateOps /\ Amid(nsv[s].nadm \ {op.arg}, g)
      \/ ~early /\ op \in StateOps /\ path = <<FrameFor(s, op)>> /\ fs = {FrameFor(s, op)}
      \/ /\ ~early /\ op.fn = "set" /\ path = <<FrameFor(s, Set(g))>> /\ fs = {FrameFor(s, Set(g))}
         /\ ~Amid(nsv[s].nadm \ {op.arg}, g)
      \/ /\ ~early /\ op.fn = "clr" /\ path = <<FrameFor(s, Clr(g))>> /\ fs = {FrameFor(s, Clr(g))}
         /\ ~Amid(nsv[s].nadm \ {op.arg}, g)
  <2>1. path = <<>> => fs = {}
    OBVIOUS
  <2>2. \A f : path = <<f>> => fs = {f}
    OBVIOUS
  <2>3. Shape(nsv, s, op, early, path)
    BY <1>1, FrameShape
  <2> HIDE DEF fs, g
  <2> QED
    BY <2>1, <2>2, <2>3 DEF Shape, g
<1>4. g \in Inherited /\ \A x \in Inherited : Set(x) \in CarriedOps /\ Clr(x) \in CarriedOps
  BY DEF GroupOf, Inherited, CarriedOps, FlagOps
<1> HIDE DEF fs, g, adm
<1>5. op \in StateOps => op \in CarriedOps
  BY DEF CarriedOps
<1>6. fs = {} \/ \E o \in CarriedOps : fs = {FrameFor(s, o)}
  BY <1>3, <1>4, <1>5
<1>7. (path = <<>> /\ fs = {}) \/ \E f : path = <<f>> /\ fs = {f}
  BY <1>3
<1>8. adm \in SUBSET Flags /\ sv[s].nadm \in SUBSET Flags
  BY OpCases DEF AdmAfter, SrvOK, Server, Flags, adm
<1>9. Writes(sv, s, nsv)
  <2>1. ASSUME CommittedAt(sv, s), ~early PROVE CommittedAt(nsv, s)
    <3>1. CASE op.fn = "state"
      <4>1. adm = sv[s].nadm /\ sv[s].cadm \cap Maint = {}
        BY <1>1, <2>1, <3>1 DEF AdmAfter, Early, adm
      <4> QED
        BY <1>2, <2>1, <4>1 DEF CommittedAt
    <3>2. CASE op.fn # "state"
      <4>1. sv[s].init = "none" /\ adm \cap Maint # {} => nsv[s].next = "STOPPED"
        BY <1>2, <1>8, <2>1, <3>2, AdmNext, SMTT(30)
      <4> QED
        BY <1>2, <2>1, <4>1 DEF CommittedAt
    <3> QED
      BY <3>1, <3>2
  <2> QED
    BY <1>2, <2>1 DEF Writes
<1>10. FlagsCarried(sv, s, op, nsv, fs)
  <2> SUFFICES ASSUME NEW x \in Inherited
               PROVE  /\ x \in nsv[s].nadm <=> op = Set(x) \/ (x \in sv[s].nadm /\ op # Clr(x))
                      /\ \/ /\ Amid(nsv[s].nadm, x) <=> Amid(sv[s].nadm, x)
                            /\ \A f \in fs : f.op \notin {Set(x), Clr(x)}
                         \/ /\ ~Amid(sv[s].nadm, x) /\ Amid(nsv[s].nadm, x)
                            /\ fs # {} \/ Trackers(s) # {} => fs = {FrameFor(s, Set(x))}
                         \/ /\ Amid(sv[s].nadm, x) /\ ~Amid(nsv[s].nadm, x)
                            /\ fs # {} \/ Trackers(s) # {} => fs = {FrameFor(s, Clr(x))}
    BY DEF FlagsCarried
  <2>0. \A o : FrameFor(s, o).op = o
    BY DEF FrameFor
  <2>1. CASE op \in StateOps
    <3>1. nsv[s].nadm = sv[s].nadm /\ op # Set(x) /\ op # Clr(x)
      BY <1>1, <1>2, <2>1, OpCases, OpsDiffer DEF AdmAfter, adm
    <3>2. \A f \in fs : f.op = op
      BY <1>3, <2>0, <2>1, OpCases, OpsDiffer, SMTT(30)
    <3> QED
      BY <3>1, <3>2
  <2>2. CASE op = Set(op.arg) /\ op.fn = "set" /\ op.arg \in Maint \cup Drain
    <3>1. nsv[s].nadm = sv[s].nadm \cup {op.arg} /\ (early <=> op.arg \in sv[s].nadm)
      BY <1>1, <1>2, <2>2 DEF AdmAfter, Early, adm
    <3>2. op # Clr(x) /\ (op = Set(x) <=> op.arg = x) /\ op \notin StateOps
      BY <2>2, OpsDiffer
    <3>3. CASE g = x
      <4>1. op.arg \in Members(x)
        BY <2>2, <3>3 DEF Members, GroupOf, g
      <4>2. Amid(nsv[s].nadm, x) /\ (early => Amid(sv[s].nadm, x))
        BY <3>1, <4>1 DEF Amid
      <4>3. ~early => (Amid(sv[s].nadm, x) <=> Amid(nsv[s].nadm \ {op.arg}, x))
        BY <3>1 DEF Amid
      <4>4. fs = {} \/ fs = {FrameFor(s, Set(x))}
        BY <1>3, <2>2, <3>2, <3>3
      <4>5. fs = {} => early \/ Trackers(s) = {} \/ Amid(sv[s].nadm, x)
        BY <1>3, <3>3, <4>3
      <4>6. fs # {} => ~early /\ ~Amid(sv[s].nadm, x)
        BY <1>3, <3>2, <3>3, <4>3
      <4> QED
        BY <3>1, <3>2, <4>2, <4>4, <4>5, <4>6
    <3>4. CASE g # x
      <4>1. op.arg \notin Members(x)
        BY <2>2, <3>4 DEF Members, GroupOf, g, Maint, Drain, Inherited
      <4>2. Amid(nsv[s].nadm, x) <=> Amid(sv[s].nadm, x)
        BY <3>1, <4>1 DEF Amid
      <4>3. \A f \in fs : f.op = Set(g)
        BY <1>3, <2>0, <2>2, <3>2
      <4> QED
        BY <3>1, <3>2, <3>4, <4>2, <4>3, OpsDiffer
    <3> QED
      BY <3>3, <3>4
  <2>3. CASE op = Clr(op.arg) /\ op.fn = "clr" /\ op.arg \in Maint \cup Drain
    <3>1. nsv[s].nadm = sv[s].nadm \ {op.arg} /\ (early <=> op.arg \notin sv[s].nadm)
      BY <1>1, <1>2, <2>3 DEF AdmAfter, Early, adm
    <3>2. op # Set(x) /\ (op = Clr(x) <=> op.arg = x) /\ op \notin StateOps
      BY <2>3, OpsDiffer
    <3>3. CASE g = x
      <4>1. op.arg \in Members(x)
        BY <2>3, <3>3 DEF Members, GroupOf, g
      <4>2. ~early => Amid(sv[s].nadm, x)
        BY <3>1, <4>1 DEF Amid
      <4>3. /\ Amid(nsv[s].nadm, x) <=> Amid(nsv[s].nadm \ {op.arg}, x)
            /\ early => (Amid(nsv[s].nadm, x) <=> Amid(sv[s].nadm, x))
        BY <3>1 DEF Amid
      <4>4. fs = {} \/ fs = {FrameFor(s, Clr(x))}
        BY <1>3, <2>3, <3>2, <3>3
      <4>5. fs = {} => early \/ Trackers(s) = {} \/ Amid(nsv[s].nadm, x)
        BY <1>3, <3>3, <4>3
      <4>6. fs # {} => ~early /\ ~Amid(nsv[s].nadm, x)
        BY <1>3, <3>2, <3>3, <4>3
      <4> QED
        BY <3>1, <3>2, <4>2, <4>3, <4>4, <4>5, <4>6
    <3>4. CASE g # x
      <4>1. op.arg \notin Members(x)
        BY <2>3, <3>4 DEF Members, GroupOf, g, Maint, Drain, Inherited
      <4>2. Amid(nsv[s].nadm, x) <=> Amid(sv[s].nadm, x)
        BY <3>1, <4>1 DEF Amid
      <4>3. \A f \in fs : f.op = Clr(g)
        BY <1>3, <2>0, <2>3, <3>2
      <4> QED
        BY <3>1, <3>2, <3>4, <4>2, <4>3, OpsDiffer
    <3> QED
      BY <3>3, <3>4
  <2> QED
    BY <2>1, <2>2, <2>3, OpCases
<1>11. StateCarried(sv, s, op, nsv, fs)
  <2> DEFINE amid(x) == Amid(x[s].nadm, "IMAINT")
  <2>0. \A o : FrameFor(s, o).op = o
    BY DEF FrameFor
  <2>1. \A x : Amid(x, "IMAINT") <=> x \cap Maint # {}
    BY DEF Amid, Members
  <2>2. ASSUME NEW f \in fs, f.op \in StateOps PROVE Kind(f.op.arg) = Kind(nsv[s].next)
    <3>1. ~early /\ f.op = op /\ op.fn = "state"
      BY <1>3, <2>0, <2>2, OpCases, OpsDiffer
    <3> QED
      BY <1>2, <3>1
  <2>3. ASSUME CommittedAt(sv, s), sv[s].init = "none"
        PROVE  \/ Kind(nsv[s].next) = Kind(sv[s].next)
               \/ Trackers(s) = {}
               \/ \E o \in StateOps \cup {Set("IMAINT")} : fs = {FrameFor(s, o)}
               \/ amid(sv) /\ ~amid(nsv)
    <3>1. CASE early
      BY <1>2, <3>1
    <3>2. CASE ~early /\ op \in StateOps
      <4>1. Trackers(s) = {} \/ fs = {FrameFor(s, op)}
        BY <1>3, <3>2, OpCases, OpsDiffer
      <4> QED
        BY <3>2, <4>1
    <3>3. CASE ~early /\ op \notin StateOps
      <4>1. op.fn # "state" /\ nsv[s].nadm = adm /\ nsv[s].next = AdmState(sv, ck, s, adm, elapsed).next
        BY <1>2, <3>3, OpCases
      <4>2. ~amid(sv) /\ ~amid(nsv) => Kind(nsv[s].next) = Kind(sv[s].next)
        BY <1>8, <2>1, <2>3, <4>1, AdmNext, SMTT(30)
      <4>3. amid(sv) /\ amid(nsv) => nsv[s].next = sv[s].next
        BY <1>8, <2>1, <2>3, <4>1, AdmNext, SMTT(30) DEF CommittedAt
      <4>4. ~amid(sv) /\ amid(nsv) => Trackers(s) = {} \/ fs = {FrameFor(s, Set("IMAINT"))}
        <5>1. "IMAINT" \in Inherited
          BY SMTT(30) DEF Inherited
        <5> QED
          BY <1>10, <5>1 DEF FlagsCarried
      <4> QED
        BY <4>2, <4>3, <4>4
    <3> QED
      BY <1>1, <3>1, <3>2, <3>3
  <2>4. ASSUME CommittedAt(sv, s), Track[s] # NONE, s \notin HasAgent
        PROVE  \/ amid(nsv)
               \/ op \in StateOps /\ Kind(nsv[s].next) = Kind(op.arg)
               \/ Kind(nsv[s].next) = Kind(sv[Track[s]].next)
               \/ Kind(nsv[s].next) = Kind(sv[s].next) /\ ~amid(sv) /\ op \notin StateOps
    <3>1. CASE op \in StateOps /\ early
      <4>1. sv[s].cadm \cap Maint # {} \/ sv[s].next = op.arg \/ (op.arg = "RUNNING" /\ sv[s].next = "STARTING")
        <5>1. op.fn = "state"
          BY <3>1, OpCases, OpsDiffer, SMTT(30)
        <5> QED
          BY <1>1, <3>1, <5>1, Zenon DEF Early
      <4> QED
        BY <1>2, <2>1, <2>4, <3>1, <4>1, Zenon DEF CommittedAt, Kind
    <3>2. CASE op \in StateOps /\ ~early
      BY <1>2, <3>2, OpCases, OpsDiffer, SMTT(30)
    <3>3. CASE op \notin StateOps /\ early
      BY <1>2, <3>3
    <3>4. CASE op \notin StateOps /\ ~early
      <4>1. op.fn # "state" /\ nsv[s].nadm = adm /\ nsv[s].next = AdmState(sv, ck, s, adm, elapsed).next
        BY <1>2, <3>4, OpCases
      <4>2. sv[s].init = "none"
        BY <2>4, SMTT(30) DEF CommittedAt
      <4>3. ~amid(sv) /\ ~amid(nsv) => Kind(nsv[s].next) = Kind(sv[s].next)
        BY <1>8, <2>1, <2>4, <4>1, <4>2, AdmNext, SMTT(30)
      <4>4. amid(sv) /\ ~amid(nsv) => Kind(nsv[s].next) = Kind(sv[Track[s]].next)
        BY <1>8, <2>1, <2>4, <4>1, <4>2, AdmNext
      <4> QED
        BY <3>4, <4>3, <4>4
    <3> QED
      BY <1>1, <3>1, <3>2, <3>3, <3>4, SMTT(30)
  <2> QED
    BY <2>2, <2>3, <2>4 DEF StateCarried
<1>12. Effect(sv, s, op, nsv, fs)
  BY <1>6, <1>9, <1>10, <1>11 DEF Effect
<1> QED
  BY <1>2, <1>7, <1>12 DEF Outcome

-----------------------------------------------------------------------------
(* The frames are those of servers that are locked, one for each. *)
LEMMA FrameFacts ==
  ASSUME Types, Holders, NEW f \in AllFrames
  PROVE  /\ f \in AnyFrame /\ lock[f.srv] # NONE /\ f.left \subseteq Trackers(f.srv)
         /\ \A h \in AllFrames : h.srv = f.srv => h = f
<1>1. PICK p \in Actors : \E i \in 1 .. Len(call[p].path) : f = call[p].path[i]
  BY DEF AllFrames
<1>2. PICK i \in 1 .. Len(call[p].path) : f = call[p].path[i]
  BY <1>1
<1>3. lock[f.srv] = p /\ f.left \subseteq Trackers(f.srv) /\ p # NONE
  BY <1>2, ServersAssumption DEF Holders, Holder
<1>4. ASSUME NEW h \in AllFrames, h.srv = f.srv PROVE h = f
  <2>1. PICK q \in Actors : \E j \in 1 .. Len(call[q].path) : h = call[q].path[j]
    BY DEF AllFrames
  <2>2. PICK j \in 1 .. Len(call[q].path) : h = call[q].path[j]
    BY <2>1
  <2>3. lock[h.srv] = q
    BY <2>2 DEF Holders, Holder
  <2>4. p = q
    BY <1>3, <1>4, <2>3
  <2> QED
    BY <1>2, <1>4, <2>2, <2>4 DEF Holders, Holder
<1> QED
  BY <1>3, <1>4 DEF AllFrames

Becomes(p, c) == call' = [call EXCEPT ![p] = c]
LockBecomes(s, l) == lock' = [lock EXCEPT ![s] = l]

(* What is left to an actor changes: what the frames become. *)
Became(p, c) ==
  /\ call' \in [Actors -> AnyCall]
  /\ call'[p] = c /\ \A q \in Actors \ {p} : call'[q] = call[q]
  /\ \A f : f \in AllFrames' <=>
       \/ \E i \in 1 .. Len(c.path) : f = c.path[i]
       \/ \E q \in Actors \ {p} : \E i \in 1 .. Len(call[q].path) : f = call[q].path[i]

(* What one actor's call becomes is all that changes of the frames that    *)
(* are open.                                                               *)
LEMMA PathSet ==
  ASSUME Types, NEW p \in Actors, NEW c \in AnyCall, Becomes(p, c)
  PROVE  Became(p, c)
<1>1. /\ call' \in [Actors -> AnyCall]
      /\ call'[p] = c /\ \A q \in Actors \ {p} : call'[q] = call[q]
  BY DEF Types, Becomes
<1>2. \A q \in Actors : \A i \in 1 .. Len(call'[q].path) : call'[q].path[i] \in AnyFrame
  <2> SUFFICES ASSUME NEW q \in Actors, NEW i \in 1 .. Len(call'[q].path)
               PROVE  call'[q].path[i] \in AnyFrame
    OBVIOUS
  <2>1. call'[q].path \in Seq(AnyFrame)
    BY <1>1 DEF AnyCall
  <2> QED
    BY <2>1
<1>3. ASSUME NEW f
      PROVE  f \in AllFrames' <=>
              \/ \E i \in 1 .. Len(c.path) : f = c.path[i]
              \/ \E q \in Actors \ {p} : \E i \in 1 .. Len(call[q].path) : f = call[q].path[i]
  <2>1. f \in AllFrames' <=> \E q \in Actors : \E i \in 1 .. Len(call'[q].path) : f = call'[q].path[i]
    BY <1>2 DEF AllFrames
  <2> QED
    BY <1>1, <2>1
<1> QED
  BY <1>1, <1>3 DEF Became

(* What a section may have changed before its first operation: the state   *)
(* by init-state, or a field that no other server looks at.                *)
Same(sv, s) ==
  /\ SrvOK(sv)
  /\ \A r \in Servers \ {s} : sv[r] = srv[r]
  /\ sv[s].nadm = srv[s].nadm /\ sv[s].cadm = srv[s].cadm /\ sv[s].cur = srv[s].cur
  /\ sv[s].init = srv[s].init
  /\ Track[s] # NONE \/ srv[s].init = "none" => sv[s].next = srv[s].next

(* No operation. *)
Nop == [fn |-> "nop", arg |-> "nop"]

(* It counts as a part of the operation. *)
LEMMA EffectFrom ==
  ASSUME Committed, NEW s \in Servers, NEW sv, Same(sv, s), NEW op, NEW nsv, NEW fs
  PROVE  /\ Effect(sv, s, op, nsv, fs) => Effect(srv, s, op, nsv, fs)
         /\ Effect(srv, s, Nop, sv, {})
<1>1. CommittedAt(srv, s) /\ CommittedAt(sv, s)
  BY DEF Committed, CommittedAt, Same
<1>2. ASSUME Effect(sv, s, op, nsv, fs) PROVE Effect(srv, s, op, nsv, fs)
  <2>1. Writes(srv, s, nsv)
    BY <1>1, <1>2, SMTT(30) DEF Effect, Writes, Same
  <2>2. FlagsCarried(srv, s, op, nsv, fs)
    BY <1>2, SMTT(30) DEF Effect, FlagsCarried, Same
  <2>3. StateCarried(srv, s, op, nsv, fs)
    <3>1. /\ sv[s].init = srv[s].init /\ sv[s].nadm = srv[s].nadm
          /\ Track[s] # NONE \/ srv[s].init = "none" => sv[s].next = srv[s].next
          /\ Track[s] # NONE => sv[Track[s]] = srv[Track[s]]
      BY ServersAssumption DEF Same
    <3> QED
      BY <1>1, <1>2, <3>1, Zenon DEF Effect, StateCarried
  <2> QED
    BY <1>2, <2>1, <2>2, <2>3 DEF Effect
<1>3. Effect(srv, s, Nop, sv, {})
  <2>1. Writes(srv, s, sv)
    BY <1>1 DEF Writes, Same
  <2>2. \A g : Nop # Set(g) /\ Nop # Clr(g)
    BY DEF Nop, Set, Clr
  <2>3. Nop \notin StateOps
    BY DEF Nop, StateOps, State
  <2>4. FlagsCarried(srv, s, Nop, sv, {})
    BY <2>2, SMTT(30) DEF FlagsCarried, Same
  <2>5. StateCarried(srv, s, Nop, sv, {})
    BY <1>1, <2>3, ZenonT(30) DEF StateCarried, Same, CommittedAt
  <2> QED
    BY <2>1, <2>4, <2>5 DEF Effect
<1> QED
  BY <1>2, <1>3

(* Only the server of the operation is written to. *)
LEMMA EffectCommitted ==
  ASSUME Committed, NEW s \in Servers, NEW op, NEW fs, Effect(srv, s, op, srv', fs)
  PROVE  Committed' /\ SrvOK(srv')
BY DEF Effect, Writes, Committed, CommittedAt

(* What a section may ask of <s>: the state is only asked of one that      *)
(* tracks none or has an agent, and then nothing else is.                  *)
Orders(s, ops) ==
  \/ ops \in Seq(OwnOps)
  \/ (Track[s] = NONE \/ s \in HasAgent) /\ \E o \in StateOps : ops = <<o>>

(* Whoever holds the lock of <s> does one operation on it.                 *)
Section(s, op, fs) ==
  /\ Effect(srv, s, op, srv', fs)
  /\ \A g \in Inherited : op # Set(g) /\ op # Clr(g)
  /\ op \in StateOps => Track[s] = NONE \/ s \in HasAgent
  /\ \A f \in AllFrames : f.srv # s
  /\ AllFrames' = AllFrames \cup fs
(* A path that a section begins, and its frames. *)
Opens(s, path, fs) ==
  \/ path = <<>> /\ fs = {}
  \/ \E o \in CarriedOps : path = <<FrameFor(s, o)>> /\ fs = {FrameFor(s, o)}

(* It is a path with at most one frame, for all the trackers of <s>. *)
LEMMA OpensFacts ==
  ASSUME NEW s \in Servers, NEW path, NEW fs, Opens(s, path, fs)
  PROVE  /\ path \in Seq(AnyFrame)
         /\ \A f : (\E i \in 1 .. Len(path) : f = path[i]) <=> f \in fs
         /\ path = <<>> \/ (Len(path) = 1 /\ path[1].srv = s /\ path[1].left = Trackers(s))
<1>1. CASE path = <<>> /\ fs = {}
  BY <1>1
<1>2. CASE \E o \in CarriedOps : path = <<FrameFor(s, o)>> /\ fs = {FrameFor(s, o)}
  <2>1. PICK o \in CarriedOps : path = <<FrameFor(s, o)>> /\ fs = {FrameFor(s, o)}
    BY <1>2
  <2> DEFINE x == FrameFor(s, o)
  <2>2. x \in AnyFrame /\ x.srv = s /\ x.left = Trackers(s)
    BY DEF FrameFor, AnyFrame, Trackers
  <2> HIDE DEF x
  <2>3. path = <<x>> /\ fs = {x}
    BY <2>1 DEF x
  <2> QED
    BY <2>2, <2>3
<1> QED
  BY <1>1, <1>2 DEF Opens

(* An actor that visits no tracker ends its section, or goes on with it. *)
LEMMA SectionMoves ==
  ASSUME Types, Holders, NEW p \in Actors, NEW s \in Servers,
         call[p].path = <<>>, call[p].srv \in {NONE, s}, lock[s] \in {NONE, p},
         NEW c \in AnyCall, NEW fs, c = idle \/ c.srv = s,
         Opens(s, c.path, fs),
         NEW l, l = IF c = idle THEN NONE ELSE p, Becomes(p, c), LockBecomes(s, l)
  PROVE  /\ lock' \in [Servers -> Actors \cup {NONE}] /\ call' \in [Actors -> AnyCall]
         /\ Holders'
         /\ AllFrames' = AllFrames \cup fs
         /\ \A f \in AllFrames : f.srv # s
<1>0. NONE \notin Servers /\ NONE \notin Actors
  BY ServersAssumption
<1>1. /\ call' \in [Actors -> AnyCall] /\ call'[p] = c
      /\ \A q \in Actors \ {p} : call'[q] = call[q]
      /\ \A f : f \in AllFrames' <=>
           \/ \E i \in 1 .. Len(c.path) : f = c.path[i]
           \/ \E q \in Actors \ {p} : \E i \in 1 .. Len(call[q].path) : f = call[q].path[i]
  BY PathSet DEF Became
<1>2. /\ lock' \in [Servers -> Actors \cup {NONE}]
      /\ lock'[s] = IF c = idle THEN NONE ELSE p
      /\ \A r \in Servers \ {s} : lock'[r] = lock[r]
  BY DEF Types, LockBecomes
<1>3. \A f : (\E i \in 1 .. Len(c.path) : f = c.path[i]) <=> f \in fs
  BY OpensFacts
<1>4. \A q \in Actors : \A i \in 1 .. Len(call[q].path) : call[q].path[i] \in AnyFrame
  <2> SUFFICES ASSUME NEW q \in Actors, NEW i \in 1 .. Len(call[q].path)
               PROVE  call[q].path[i] \in AnyFrame
    OBVIOUS
  <2>1. call[q].path \in Seq(AnyFrame)
    BY DEF Types, AnyCall
  <2> QED
    BY <2>1
<1>5. \A f : f \in AllFrames <=> \E q \in Actors \ {p} : \E i \in 1 .. Len(call[q].path) : f = call[q].path[i]
  BY <1>4 DEF AllFrames
<1>6. AllFrames' = AllFrames \cup fs
  BY <1>1, <1>3, <1>5, SMTT(30)
<1>7. \A q \in Actors \ {p} : \A i \in 1 .. Len(call[q].path) : call[q].path[i].srv # s
  BY <1>0, SMTT(30) DEF Holders, Holder
<1>8. \A f \in AllFrames : f.srv # s
  BY <1>5, <1>7, SMTT(30)
<1>9. ASSUME NEW q \in Actors \ {p} PROVE Holder(q)'
  <2>1. call'[q] = call[q] /\ Holder(q)
    BY <1>1, Zenon DEF Holders
  <2>2. call[q].srv # s
    BY <1>0, <2>1, ZenonT(30) DEF Holder
  <2>3. call[q].srv \in Servers \cup {NONE} /\ \A i \in 1 .. Len(call[q].path) : call[q].path[i].srv \in Servers
    BY <1>4, Zenon DEF Types, AnyCall, AnyFrame
  <2>4. /\ call[q].srv # NONE => lock'[call[q].srv] = lock[call[q].srv]
        /\ \A i \in 1 .. Len(call[q].path) : lock'[call[q].path[i].srv] = lock[call[q].path[i].srv]
    BY <1>2, <1>7, <2>2, <2>3
  <2> QED
    BY <2>1, <2>4, ZenonT(30) DEF Holder
<1>10. Holder(p)'
  <2>1. CASE c = idle
    BY <1>1, <2>1, SMTT(30) DEF Holder, idle
  <2>2. CASE c # idle
    <3>1. c.srv = s /\ lock'[s] = p /\ s # NONE
      BY <1>0, <1>2, <2>2
    <3> QED
      BY <1>1, <3>1, OpensFacts DEF Holder
  <2> QED
    BY <2>1, <2>2
<1> QED
  BY <1>1, <1>2, <1>6, <1>8, <1>9, <1>10 DEF Holders

(* Run(): the next operation of a section, or its end. *)
LEMMA RunMoves ==
  ASSUME Base, NEW p \in Actors, NEW s \in Servers, NEW sv, NEW ck, NEW ops, Orders(s, ops),
         call[p].path = <<>>, call[p].srv \in {NONE, s}, lock[s] \in {NONE, p},
         Same(sv, s), ChkOK(ck), Run(p, s, sv, ck, ops)
  PROVE  Base' /\ \E op, fs : Section(s, op, fs)
<1>0. SrvOK(sv) /\ Types /\ Holders /\ Committed
  BY DEF Base, Same
<1>1. CASE ops = <<>>
  <2>1. /\ srv' = sv /\ chk' = ck /\ call' = [call EXCEPT ![p] = idle]
        /\ lock' = [lock EXCEPT ![s] = NONE]
    BY <1>1, ZenonT(30) DEF Run
  <2>2. idle \in AnyCall /\ Opens(s, idle.path, {})
    BY SMTT(30) DEF idle, AnyCall, Opens
  <2>3. /\ lock' \in [Servers -> Actors \cup {NONE}] /\ call' \in [Actors -> AnyCall]
        /\ Holders' /\ AllFrames' = AllFrames /\ \A f \in AllFrames : f.srv # s
    <3> DEFINE c == idle
    <3>1. c \in AnyCall /\ c = idle /\ Opens(s, c.path, {}) /\ NONE = IF c = idle THEN NONE ELSE p
      BY <2>2
    <3>2. Becomes(p, c) /\ LockBecomes(s, NONE)
      BY <2>1 DEF Becomes, LockBecomes
    <3> HIDE DEF c
    <3>3. /\ lock' \in [Servers -> Actors \cup {NONE}] /\ call' \in [Actors -> AnyCall]
          /\ Holders' /\ AllFrames' = AllFrames \cup {} /\ \A f \in AllFrames : f.srv # s
      BY <1>0, <3>1, <3>2, SectionMoves, ZenonT(30)
    <3> QED
      BY <3>3, Zenon
  <2>4. Effect(srv, s, Nop, srv', {})
    BY <1>0, <2>1, EffectFrom, SMTT(30)
  <2>5. Committed' /\ SrvOK(srv')
    BY <1>0, <2>4, EffectCommitted
  <2>6. Nop \notin StateOps /\ \A g \in Inherited : Nop # Set(g) /\ Nop # Clr(g)
    BY DEF Nop, Set, Clr, StateOps, State
  <2>7. Base'
    BY <2>1, <2>3, <2>5, SMTT(30) DEF Base, Types
  <2>8. Section(s, Nop, {})
    BY <2>3, <2>4, <2>6 DEF Section
  <2> QED
    BY <2>7, <2>8, SMTT(30)
<1>2. CASE ops # <<>>
  <2> DEFINE op == Head(ops)
             early == Early(sv, s, op)
  <2>1. /\ op \in DirectOps /\ Tail(ops) \in Seq(OwnOps)
        /\ op \in StateOps => Track[s] = NONE \/ s \in HasAgent
    <3>1. CASE ops \in Seq(OwnOps)
      <4>1. op \in OwnOps /\ Tail(ops) \in Seq(OwnOps)
        BY <1>2, <3>1
      <4>2. op \notin StateOps
        BY <4>1 DEF OwnOps, FlagOps, Set, Clr, StateOps, State
      <4> QED
        BY <4>1, <4>2 DEF DirectOps
    <3>2. CASE (Track[s] = NONE \/ s \in HasAgent) /\ \E o \in StateOps : ops = <<o>>
      BY <3>2 DEF DirectOps
    <3> QED
      BY <3>1, <3>2 DEF Orders
  <2>2. PICK elapsed \in BOOLEAN :
          LET new == IF early THEN [srv |-> sv, chk |-> ck] ELSE Apply(sv, ck, s, op, elapsed)
              path == Frame(new.srv, s, op, early)
              over == path = <<>> /\ Len(ops) = 1
          IN /\ srv' = new.srv /\ chk' = new.chk
             /\ call' = [call EXCEPT ![p] = IF over THEN idle ELSE [srv |-> s, todo |-> Tail(ops), path |-> path]]
             /\ lock' = [lock EXCEPT ![s] = IF over THEN NONE ELSE p]
    BY <1>2, ZenonT(30) DEF Run
  <2> DEFINE new == IF early THEN [srv |-> sv, chk |-> ck] ELSE Apply(sv, ck, s, op, elapsed)
             path == Frame(new.srv, s, op, early)
             over == path = <<>> /\ Len(ops) = 1
             c == IF over THEN idle ELSE [srv |-> s, todo |-> Tail(ops), path |-> path]
  <2>3. /\ srv' = new.srv /\ chk' = new.chk
        /\ call' = [call EXCEPT ![p] = c]
        /\ lock' = [lock EXCEPT ![s] = IF over THEN NONE ELSE p]
    BY <2>2, Zenon
  <2>4. early \in BOOLEAN
    BY DEF Early
  <2> HIDE DEF early, op
  <2>5. /\ ChkOK(new.chk)
        /\ \E fs : /\ Effect(sv, s, op, new.srv, fs)
                   /\ (path = <<>> /\ fs = {}) \/ \E f : path = <<f>> /\ fs = {f}
    <3>1. op \in CarriedOps \cup DirectOps /\ Does(sv, ck, s, op, elapsed, early, new, path)
      BY <2>1, <2>4, Zenon DEF early, Does
    <3> HIDE DEF new, path
    <3>2. Outcome(sv, s, op, new, path)
      BY <1>0, <3>1, OpEffect, SMTT(30)
    <3> QED
      BY <3>2 DEF Outcome
  <2> HIDE DEF new, path
  <2>6. PICK fs : /\ Effect(sv, s, op, new.srv, fs)
                  /\ (path = <<>> /\ fs = {}) \/ \E f : path = <<f>> /\ fs = {f}
    BY <2>5
  <2>7. Opens(s, path, fs)
    BY <2>6, Zenon DEF Effect, Opens
  <2>8. path \in Seq(AnyFrame)
    BY <2>7, OpensFacts, SMTT(30)
  <2>9. c \in AnyCall /\ (c = idle \/ c.srv = s) /\ c.path = path
    BY <2>1, <2>8 DEF AnyCall, idle
  <2>10. over <=> c = idle
    <3>1. [srv |-> s, todo |-> Tail(ops), path |-> path] # idle
      BY ServersAssumption DEF idle
    <3> QED
      BY <3>1, SMTT(30)
  <2> HIDE DEF over, c
  <2>11. /\ lock' \in [Servers -> Actors \cup {NONE}] /\ call' \in [Actors -> AnyCall]
         /\ Holders' /\ AllFrames' = AllFrames \cup fs /\ \A f \in AllFrames : f.srv # s
    <3> DEFINE l == IF over THEN NONE ELSE p
    <3>1. Becomes(p, c) /\ LockBecomes(s, l) /\ l = IF c = idle THEN NONE ELSE p
      BY <2>3, <2>10 DEF Becomes, LockBecomes
    <3> HIDE DEF l
    <3>2. Opens(s, c.path, fs)
      BY <2>7, <2>9, SMTT(30)
    <3> QED
      BY <1>0, <2>9, <3>1, <3>2, SectionMoves, ZenonT(30)
  <2>12. Effect(srv, s, op, srv', fs)
    BY <1>0, <2>3, <2>6, EffectFrom, Zenon
  <2>13. Committed' /\ SrvOK(srv')
    BY <1>0, <2>12, EffectCommitted, Zenon
  <2>14. \A g \in Inherited : op # Set(g) /\ op # Clr(g)
    BY <2>1, OpsDiffer, SMTT(30)
  <2>15. Base'
    BY <2>3, <2>5, <2>11, <2>13, Zenon DEF Base, Types
  <2>16. Section(s, op, fs)
    BY <2>1, <2>11, <2>12, <2>14, ZenonT(30) DEF Section
  <2> QED
    BY <2>15, <2>16
<1> QED
  BY <1>1, <1>2

-----------------------------------------------------------------------------
(* An operation reaches <s>: by a section, or by the visit of a tracker.   *)
(* The frames stay, less the visit that is done, and one may be added.     *)
Asked(s, op) == \E f \in AllFrames : f.op = op /\ f.srv = Track[s] /\ s \in f.left
Reaches(s, op, fs) ==
  /\ Effect(srv, s, op, srv', fs)
  /\ \A g \in Inherited : op \in {Set(g), Clr(g)} => Asked(s, op)
  /\ op \in StateOps => Track[s] = NONE \/ s \in HasAgent \/ Asked(s, op)
  /\ \A f \in AllFrames : f.srv # s
  /\ fs \subseteq AllFrames'
  /\ \A h \in AllFrames' \ fs : \E f \in AllFrames :
       /\ h.srv = f.srv /\ h.op = f.op /\ h.left \subseteq f.left
       /\ s \in h.left => \A g \in Inherited : op # Set(g) /\ op # Clr(g)
  /\ \A f \in AllFrames : \E h \in AllFrames' :
       /\ h.srv = f.srv /\ h.op = f.op /\ f.left \ {s} \subseteq h.left
       /\ s \in f.left => s \in h.left \/ op = f.op

(* A locked section of srv_update_status() on one server reaches it only. *)
LEMMA SectionReaches ==
  ASSUME NEW s \in Servers, NEW op, NEW fs, Section(s, op, fs)
  PROVE  Reaches(s, op, fs)
<1>1. \A h \in AllFrames' \ fs : h \in AllFrames
  BY DEF Section
<1>2. \A f \in AllFrames : f \in AllFrames'
  BY DEF Section
<1>3. fs \subseteq AllFrames'
  BY DEF Section
<1>4. \A f : f.left \ {s} \subseteq f.left
  OBVIOUS
<1> QED
  BY <1>1, <1>2, <1>3, <1>4 DEF Section, Reaches

(* Or nothing does, and no frame goes with a visit left. *)
Calm ==
  /\ srv' = srv
  /\ AllFrames' \subseteq AllFrames
  /\ \A f \in AllFrames : f \in AllFrames' \/ f.left = {}

(* A step that changes no flag, no state and opens no frame owes nothing   *)
(* more.                                                                   *)
LEMMA CalmKeeps ==
  ASSUME Owed, Exact, Follows, Calm
  PROVE  Owed' /\ Exact' /\ Follows'
<1>1. \A t, ops : Pending(t, ops) => Pending(t, ops)'
  BY DEF Calm, Pending
<1>2. \A t, g : (Has(t, g)' <=> Has(t, g)) /\ (In(t, g)' <=> In(t, g))
  BY DEF Calm, Has, In
<1>3. Owed'
  <2>1. \A f \in AllFrames : FrameOK(f)'
    BY <1>2, Zenon DEF Owed, Calm, FrameOK
  <2> QED
    BY <2>1, SMTT(30) DEF Owed, Calm
<1>4. Exact'
  BY <1>1, <1>2 DEF Exact
<1>5. Follows'
  BY <1>1, <1>2, Zenon DEF Follows, Calm
<1> QED
  BY <1>3, <1>4, <1>5
(* The servers that an operation does not reach, and the visits that stay. *)
LEMMA Elsewhere ==
  ASSUME NEW s \in Servers, NEW op, NEW fs, Reaches(s, op, fs), NEW t \in Servers
  PROVE  /\ t # s => srv'[t] = srv[t] /\ \A g : (Has(t, g)' <=> Has(t, g)) /\ (In(t, g)' <=> In(t, g))
         /\ \A ops : Pending(t, ops) => Pending(t, ops)' \/ (t = s /\ op \in ops)
<1>1. t # s => srv'[t] = srv[t]
  BY DEF Reaches, Effect, Writes
<1>2. ASSUME NEW ops, Pending(t, ops) PROVE Pending(t, ops)' \/ (t = s /\ op \in ops)
  <2>1. PICK f \in AllFrames : f.srv = Track[t] /\ t \in f.left /\ f.op \in ops
    BY <1>2 DEF Pending
  <2>2. PICK h \in AllFrames' : /\ h.srv = f.srv /\ h.op = f.op /\ f.left \ {s} \subseteq h.left
                                /\ s \in f.left => s \in h.left \/ op = f.op
    BY DEF Reaches
  <2> QED
    BY <2>1, <2>2 DEF Pending
<1> QED
  BY <1>1, <1>2, SMTT(30) DEF Has, In

(* Nothing is left to visit for a server without a frame. *)
LEMMA NoneOwed ==
  ASSUME NEW s, \A f \in AllFrames : f.srv # s, NEW t, Track[t] = s, NEW ops
  PROVE  ~Pending(t, ops)
BY DEF Pending

(* The trackers that are visited for an inherited flag need it. *)
LEMMA OwedKept ==
  ASSUME Types, Holders, Owed, Exact, NEW s \in Servers, NEW op, NEW fs, Reaches(s, op, fs)
  PROVE  Owed'
<1> SUFFICES ASSUME NEW h \in AllFrames' PROVE FrameOK(h)'
  BY SMTT(30) DEF Owed
<1>0. /\ \A t \in Servers : Track[t] \in Servers \cup {NONE} /\ Track[t] # t
      /\ \A t \in Servers : t # s => srv'[t] = srv[t] /\ \A g : (Has(t, g)' <=> Has(t, g)) /\ (In(t, g)' <=> In(t, g))
  BY Elsewhere, ServersAssumption, SMTT(30)
<1>1. CASE h \in fs
  <2>1. PICK o \in CarriedOps : h = FrameFor(s, o) /\ fs = {FrameFor(s, o)}
    BY <1>1, Zenon DEF Reaches, Effect
  <2>2. h.srv = s /\ h.op = o /\ h.left = Trackers(s)
    BY <2>1 DEF FrameFor
  <2>3. o \in StateOps => Kind(o.arg) = Kind(srv'[s].next)
    BY <1>1, <2>2, Zenon DEF Reaches, Effect, StateCarried
  <2>4. ASSUME NEW g \in Inherited
        PROVE  /\ o = Set(g) => In(s, g)' /\ \A t \in Trackers(s) : ~Has(t, g)'
               /\ o = Clr(g) => ~In(s, g)' /\ \A t \in Trackers(s) : Has(t, g)'
    <3>1. ASSUME NEW t \in Trackers(s) PROVE Has(t, g)' <=> In(s, g)
      <4>1. t \in Servers /\ Track[t] = s /\ s # NONE
        BY ServersAssumption DEF Trackers
      <4>2. ~Pending(t, {Set(g), Clr(g)})
        BY <4>1, NoneOwed, SMTT(30) DEF Reaches
      <4>3. Has(t, g) <=> In(s, g)
        BY <4>1, <4>2 DEF Exact
      <4> QED
        BY <1>0, <4>1, <4>3
    <3>2. /\ o = Set(g) => ~In(s, g) /\ In(s, g)'
          /\ o = Clr(g) => In(s, g) /\ ~In(s, g)'
      <4>1. \/ o \notin {Set(g), Clr(g)}
            \/ /\ ~In(s, g) /\ In(s, g)'
               /\ fs # {} \/ Trackers(s) # {} => fs = {FrameFor(s, Set(g))}
            \/ /\ In(s, g) /\ ~In(s, g)'
               /\ fs # {} \/ Trackers(s) # {} => fs = {FrameFor(s, Clr(g))}
        BY <1>1, <2>2, Zenon DEF Reaches, Effect, FlagsCarried, Amid, In
      <4>2. fs # {}
        BY <1>1
      <4>3. \A o1, o2 : FrameFor(s, o1) = FrameFor(s, o2) => o1 = o2
        BY DEF FrameFor
      <4>4. Set(g) # Clr(g)
        BY SMTT(30) DEF Set, Clr
      <4> QED
        BY <2>1, <4>1, <4>2, <4>3, <4>4
    <3> QED
      BY <3>1, <3>2
  <2> QED
    BY <2>2, <2>3, <2>4 DEF FrameOK
<1>2. CASE h \notin fs
  <2>1. PICK f \in AllFrames : /\ h.srv = f.srv /\ h.op = f.op /\ h.left \subseteq f.left
                               /\ s \in h.left => \A g \in Inherited : op # Set(g) /\ op # Clr(g)
    BY <1>2, ZenonT(30) DEF Reaches
  <2>2. f.srv \in Servers /\ f.srv # s /\ f.left \subseteq Servers /\ FrameOK(f)
    BY ZenonT(30) DEF Reaches, AllFrames, AnyFrame, Owed
  <2>3. f.op \in StateOps => Kind(f.op.arg) = Kind(srv'[f.srv].next)
    BY <1>0, <2>2, Zenon DEF FrameOK
  <2>4. ASSUME NEW g \in Inherited, NEW t \in h.left PROVE Has(t, g)' <=> Has(t, g)
    <3>1. CASE t # s
      BY <1>0, <2>1, <2>2, <3>1
    <3>2. CASE t = s
      BY <2>1, <3>2, ZenonT(30) DEF Reaches, Effect, FlagsCarried, Has
    <3> QED
      BY <3>1, <3>2
  <2>5. \A g \in Inherited : In(f.srv, g)' <=> In(f.srv, g)
    BY <1>0, <2>2, ZenonT(30)
  <2>6. \A g \in Inherited :
          /\ f.op = Set(g) => In(f.srv, g)' /\ \A t \in h.left : ~Has(t, g)'
          /\ f.op = Clr(g) => ~In(f.srv, g)' /\ \A t \in h.left : Has(t, g)'
    BY <2>1, <2>2, <2>4, <2>5, ZenonT(30) DEF FrameOK
  <2> QED
    BY <2>1, <2>3, <2>6 DEF FrameOK
<1> QED
  BY <1>1, <1>2
=============================================================================
