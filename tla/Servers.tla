------------------------------ MODULE Servers -------------------------------
(***************************************************************************)
(* The states of the servers (server.c) and the health checks and agent    *)
(* checks that drive them (check.c).  A server is operationally stopped,   *)
(* starting, running or stopping; administratively it may be in            *)
(* maintenance or in drain, by itself or because the server that it        *)
(* tracks is.  Checks, commands, name resolution and errors observed in    *)
(* the traffic all change this, each under the lock of the server that it  *)
(* acts on; the change is then carried to the servers that track it, whose *)
(* locks are taken one by one while the first is held.  The state of the   *)
(* tracked server is read without its lock.                                *)
(*                                                                         *)
(* A locked section is one step up to the first server that tracks; each   *)
(* server visited from there is another.  Left out: weights, the warm-up's *)
(* intermediate steps (one says that it is over), logs, events, the timers *)
(* of the checks and their migration between threads, and the deletion of  *)
(* servers (srv_cancel_purge).                                             *)
(***************************************************************************)
EXTENDS Integers, Sequences, FiniteSets

CONSTANTS
  Servers, NONE,
  Track,        \* the server that a server tracks, or NONE
  HasCheck,     \* servers with "check"; they track no other
  HasAgent,     \* servers with "agent-check"
  Slow,         \* servers with "slowstart"
  Resolved,     \* servers whose name is resolved at run time
  Disabled,     \* the sets of servers that the configuration may disable
  InitStates,   \* what "init-state" may be on the servers that track none
  Rise, Fall,   \* of the health checks; 1 and 1 for the agents
  Threads,      \* threads that run commands, resolutions and traffic
  Commands,     \* what they do
  MaxCommands, MaxChanges

VARIABLES
  srv,          \* state and admin flags, current and next, of each server,
                \* its init-state, and whether "set server agent up" was used
  chk,          \* the checks: enabled, paused, in progress, result, health
  lock,         \* who holds the lock of each server
  call,         \* what is left to do for whoever holds locks
  world,        \* what a check that ends now would find
  commands, changes

vars == <<srv, chk, lock, call, world, commands, changes>>

Maint == {"FMAINT", "IMAINT", "RMAINT"}
Drain == {"FDRAIN", "IDRAIN"}
Trackers(s) == {t \in Servers : Track[t] = s}
Check(s) == <<"check", s>>
Agent(s) == <<"agent", s>>
Checks == {Check(s) : s \in HasCheck} \cup {Agent(s) : s \in HasAgent}
Actors == Checks \cup Threads
RiseOf(c) == IF c[1] = "check" THEN Rise ELSE 1
Full(c) == IF c[1] = "check" THEN Rise + Fall - 1 ELSE 1
Inits == {"none", "fully-up", "up", "down", "fully-down"}

ASSUME ServersAssumption ==
  /\ NONE \notin Servers \cup Actors
  /\ Track \in [Servers -> Servers \cup {NONE}] /\ \A s \in Servers : Track[s] # s
  /\ HasCheck \subseteq {s \in Servers : Track[s] = NONE} /\ HasAgent \subseteq Servers
  /\ Disabled \subseteq SUBSET Servers /\ InitStates \subseteq Inits
  /\ Rise \in Nat \ {0} /\ Fall \in Nat \ {0}
  /\ MaxCommands \in Nat /\ MaxChanges \in Nat

-----------------------------------------------------------------------------
(* Operations on a server, as the functions of server.c name them.         *)
State(to) == [fn |-> "state", arg |-> to]
Set(flag) == [fn |-> "set", arg |-> flag]
Clr(flag) == [fn |-> "clr", arg |-> flag]
srv_adm_set_maint == <<Set("FMAINT"), Clr("FDRAIN")>>
srv_adm_set_drain == <<Set("FDRAIN"), Clr("FMAINT")>>
srv_adm_set_ready == <<Clr("FDRAIN"), Clr("FMAINT")>>

(* Maintenance is forgotten by the first three. *)
EarlyInMaint(sv, s, op) ==
  \/ op.fn = "state" /\ (sv[s].next = op.arg \/ (op.arg = "RUNNING" /\ sv[s].next = "STARTING"))
  \/ op.fn = "set" /\ op.arg \in sv[s].nadm
  \/ op.fn = "clr" /\ op.arg \notin sv[s].nadm

(* Tests at the top of srv_set_stopped(), srv_set_running(),               *)
(* srv_set_stopping(), srv_set_admin_flag() and srv_clr_admin_flag().      *)
Early(sv, s, op) ==
  \/ /\ op.fn = "state"
     /\ \/ sv[s].cadm \cap Maint # {}
        \/ sv[s].next = op.arg
        \/ op.arg = "RUNNING" /\ sv[s].next = "STARTING"
  \/ op.fn = "set" /\ op.arg \in sv[s].nadm
  \/ op.fn = "clr" /\ op.arg \notin sv[s].nadm

(* The other flags of the server are not looked at. *)
CarriedAlways(sv, s, op) ==
  IF op.fn = "state" THEN {op} ELSE {[op EXCEPT !.arg = IF op.arg \in Maint THEN "IMAINT" ELSE "IDRAIN"]}

(* What the same functions then do to the trackers, if anything: they stop *)
(* when the server has another flag of the same kind.                      *)
Carried(sv, s, op) ==
  IF op.fn = "state" THEN {op}
  ELSE LET kind == IF op.arg \in Maint THEN Maint ELSE Drain
           flag == IF op.arg \in Maint THEN "IMAINT" ELSE "IDRAIN"
       IN IF sv[s].nadm \cap (kind \ {op.arg}) # {} THEN {} ELSE {[op EXCEPT !.arg = flag]}

(* server_recalc_eweight(): the slow start of a server ends.               *)
Recalc(cur, next, elapsed) ==
  IF elapsed /\ cur # "STOPPED" /\ next = "STARTING" THEN "RUNNING" ELSE next

(* srv_set_init_state(): state and health, or what they were.              *)
InitState(r, next, health) ==
  IF r.init = "none" \/ r.nadm \cap {"CMAINT", "FMAINT"} # {}
  THEN <<next, health>>
  ELSE CASE r.init = "fully-up" -> <<"RUNNING", Rise + Fall - 1>>
         [] r.init = "up" -> <<"RUNNING", Rise>>
         [] r.init = "down" -> <<"STOPPED", Rise - 1>>
         [] r.init = "fully-down" -> <<"STOPPED", 0>>

IsOn(ck, c) == c \in Checks /\ ck[c].on
Comply(ck, s, health) ==
  /\ IsOn(ck, Agent(s)) => ck[Agent(s)].health >= 1
  /\ IsOn(ck, Check(s)) => health >= Rise

(* The server comes up whatever it tracks. *)
FollowedUp(sv, s) == "RUNNING"

(* The state that a server takes from the one it tracks; up without one.   *)
Followed(sv, s) == IF Track[s] = NONE THEN "RUNNING" ELSE sv[Track[s]].next

(* _srv_update_status_adm(): what new flags do to the state and to the     *)
(* health check.  A server that leaves maintenance comes up unless it      *)
(* tracks one that is down or its checks failed.                           *)
AdmState(sv, ck, s, adm, elapsed) ==
  LET r == [sv[s] EXCEPT !.nadm = adm]
      health == IF s \in HasCheck THEN ck[Check(s)].health ELSE 0
      on == IsOn(ck, Check(s))
      followed == Followed(sv, s)
      started == InitState(r, r.next, IF on THEN Rise ELSE health)
      entering == r.cadm \cap Maint = {} /\ adm \cap Maint # {}
      leaving == r.cadm \cap Maint # {} /\ adm \cap Maint = {}
      undrained == adm \cap Maint = {} /\ r.cadm \cap Drain # {} /\ adm \cap Drain = {}
  IN CASE entering ->
            [next |-> IF r.cur = "STOPPED" THEN r.next ELSE "STOPPED",
             paused |-> on \/ (s \in HasCheck /\ ck[Check(s)].paused),
             health |-> IF on \/ r.cur # "STOPPED" THEN 0 ELSE health]
       [] leaving ->
            [paused |-> ~on /\ s \in HasCheck /\ ck[Check(s)].paused, health |-> started[2],
             next |-> IF r.init = "none" /\ followed # "STOPPED" /\ Comply(ck, s, started[2])
                      THEN IF followed = "STOPPING" THEN "STOPPING"
                           ELSE IF s \in Slow THEN "STARTING" ELSE "RUNNING"
                      ELSE Recalc(r.cur, started[1], elapsed)]
       [] OTHER ->
            [next |-> IF undrained THEN Recalc(r.cur, r.next, elapsed) ELSE r.next,
             paused |-> s \in HasCheck /\ ck[Check(s)].paused, health |-> health]

(* srv_update_status(): the operation takes effect and is committed.       *)
Apply(sv, ck, s, op, elapsed) ==
  LET to == IF op.arg = "RUNNING" /\ s \in Slow THEN Recalc(sv[s].cur, "STARTING", elapsed) ELSE op.arg
      adm == CASE op.fn = "state" -> sv[s].nadm
               [] op.fn = "set" -> sv[s].nadm \cup {op.arg}
               [] op.fn = "clr" -> sv[s].nadm \ {op.arg}
      new == AdmState(sv, ck, s, adm, elapsed)
      next == IF op.fn = "state" THEN to ELSE new.next
  IN [srv |-> [sv EXCEPT ![s] = [@ EXCEPT !.cur = next, !.next = next, !.cadm = adm, !.nadm = adm]],
      chk |-> IF op.fn = "state" \/ s \notin HasCheck THEN ck
              ELSE [ck EXCEPT ![Check(s)] = [@ EXCEPT !.paused = new.paused, !.health = new.health]]]

-----------------------------------------------------------------------------
(* Locked sections.  An operation visits its server, then the trackers, in *)
(* any order; a frame keeps the server whose lock is held, what is carried *)
(* and the trackers left to visit.                                         *)
idle == [srv |-> NONE, todo |-> <<>>, path |-> <<>>]

Frame(sv, s, op, early) ==
  IF early \/ Trackers(s) = {} THEN <<>>
  ELSE LET to == Carried(sv, s, op)
       IN IF to = {} THEN <<>> ELSE <<[srv |-> s, op |-> CHOOSE o \in to : TRUE, left |-> Trackers(s)]>>

(* <p> holds the lock of <s>, finds sv and ck there, and has ops to do.    *)
Run(p, s, sv, ck, ops) ==
  IF ops = <<>>
  THEN /\ srv' = sv /\ chk' = ck
       /\ call' = [call EXCEPT ![p] = idle]
       /\ lock' = [lock EXCEPT ![s] = NONE]
  ELSE \E elapsed \in (IF s \in Slow THEN BOOLEAN ELSE {FALSE}) :
         LET early == Early(sv, s, Head(ops))
             new == IF early THEN [srv |-> sv, chk |-> ck] ELSE Apply(sv, ck, s, Head(ops), elapsed)
             path == Frame(new.srv, s, Head(ops), early)
             over == path = <<>> /\ Len(ops) = 1
         IN /\ srv' = new.srv /\ chk' = new.chk
            /\ call' = [call EXCEPT ![p] = IF over THEN idle ELSE [srv |-> s, todo |-> Tail(ops), path |-> path]]
            /\ lock' = [lock EXCEPT ![s] = IF over THEN NONE ELSE p]

Locked(p, s, sv, ck, ops) ==
  /\ call[p] = idle
  /\ lock[s] = NONE
  /\ Run(p, s, sv, ck, ops)

(* The next operation of the section. *)
Continue(p) ==
  /\ call[p].srv # NONE /\ call[p].path = <<>>
  /\ Run(p, call[p].srv, srv, chk, call[p].todo)
  /\ UNCHANGED <<world, commands, changes>>

(* The loops on s->trackers: lock one, apply, go on with its own trackers. *)
Visit(p) ==
  /\ call[p].path # <<>>
  /\ LET n == Len(call[p].path)
         top == call[p].path[n]
     IN \E t \in top.left, elapsed \in BOOLEAN :
          LET early == Early(srv, t, top.op)
              new == IF early THEN [srv |-> srv, chk |-> chk] ELSE Apply(srv, chk, t, top.op, elapsed)
              rest == [call[p].path EXCEPT ![n] = [top EXCEPT !.left = top.left \ {t}]]
              more == Frame(new.srv, t, top.op, early)
          IN /\ elapsed => t \in Slow
             /\ lock[t] = NONE
             /\ srv' = new.srv /\ chk' = new.chk
             /\ call' = [call EXCEPT ![p].path = rest \o more]
             /\ lock' = [lock EXCEPT ![t] = IF more = <<>> THEN NONE ELSE p]
  /\ UNCHANGED <<world, commands, changes>>

(* The loop is over; the lock is released by whoever took it. *)
Leave(p) ==
  /\ call[p].path # <<>>
  /\ LET n == Len(call[p].path)
         over == n = 1 /\ call[p].todo = <<>>
         rest == SubSeq(call[p].path, 1, n - 1)
     IN /\ call[p].path[n].left = {}
        /\ call' = [call EXCEPT ![p] = IF over THEN idle ELSE [@ EXCEPT !.path = rest]]
        /\ lock' = IF n = 1 /\ ~over THEN lock ELSE [lock EXCEPT ![call[p].path[n].srv] = NONE]
  /\ UNCHANGED <<srv, chk, world, commands, changes>>

-----------------------------------------------------------------------------
(* Health checks.                                                          *)

(* set_server_check_status(): the health that a result leaves.             *)
HealthAfter(c, health, result) ==
  LET up == IF health < Full(c) THEN health + 1 ELSE health
      down == IF health > 0 THEN health - 1 ELSE 0
  IN CASE result = "failed" -> IF down < RiseOf(c) THEN 0 ELSE down
       [] result \in {"passed", "condpass"} -> IF up >= RiseOf(c) THEN Full(c) ELSE up
       [] OTHER -> health

(* A check that passes forgets the server that is tracked. *)
MayRiseAlone(s) ==
  /\ srv[s].nadm \cap Maint = {}
  /\ Comply(chk, s, IF s \in HasCheck THEN chk[Check(s)].health ELSE 0)

(* The conditions shared by check_notify_success() and _stopping().        *)
MayRise(s) ==
  /\ srv[s].nadm \cap Maint = {}
  /\ Followed(srv, s) # "STOPPED"
  /\ Comply(chk, s, IF s \in HasCheck THEN chk[Check(s)].health ELSE 0)

Notify(c) ==
  LET s == c[2]
      r == chk[c].result
      up == MayRise(s)
  IN CASE r = "failed" /\ chk[c].health = 0 -> <<State("STOPPED")>>
       [] r = "condpass" /\ up -> <<State("STOPPING")>>
       [] r = "passed" /\ up /\ ~(c[1] = "agent" /\ srv[s].next = "STOPPING") -> <<State("RUNNING")>>
       [] OTHER -> <<>>

(* process_chk(): a check is due. *)
StartCheck(c) ==
  /\ chk[c].on /\ ~chk[c].paused /\ ~chk[c].busy
  /\ Locked(c, c[2], srv, [chk EXCEPT ![c].busy = TRUE, ![c].result = "unknown"], <<>>)
  /\ UNCHANGED <<world, commands, changes>>

(* srv_chk_io_cb(): the answer of the server is evaluated; a 404 (nolb) is *)
(* conditional only on a server that is up.                                *)
Answer(c) ==
  /\ c[1] = "check"
  /\ chk[c].busy /\ chk[c].result = "unknown"
  /\ LET r == CASE world[c] = "up" -> "passed"
                [] world[c] = "nolb" /\ srv[c[2]].next # "STOPPED" -> "condpass"
                [] OTHER -> "failed"
     IN Locked(c, c[2], srv, [chk EXCEPT ![c].result = r, ![c].health = HealthAfter(c, @, r)], <<>>)
  /\ UNCHANGED <<world, commands, changes>>

(* tcpcheck_agent_expect_reply(): the line of an agent, with an admin word *)
(* or without.  It is ignored when the agent was disabled meanwhile, and   *)
(* the check then times out; so does one that gets no answer.              *)
AgentReply(c) ==
  /\ c[1] = "agent"
  /\ chk[c].busy /\ chk[c].result = "unknown"
  /\ LET heard == chk[c].on /\ world[c] # "silent"
     IN \E word \in {"none"} \cup
                 (IF heard /\ commands < MaxCommands THEN Commands \cap {"ready", "drain", "maint"} ELSE {}) :
          /\ Locked(c, c[2], srv,
               [chk EXCEPT
                  ![c].result = IF ~heard THEN "unreached" ELSE IF world[c] = "up" THEN "passed" ELSE "failed",
                  ![c].health = IF ~heard THEN @ ELSE IF world[c] = "up" THEN Full(c) ELSE 0],
               CASE word = "none" -> <<>>
                 [] word = "ready" -> srv_adm_set_ready
                 [] word = "drain" -> srv_adm_set_drain
                 [] word = "maint" -> srv_adm_set_maint)
          /\ commands' = IF word = "none" THEN commands ELSE commands + 1
  /\ UNCHANGED <<world, changes>>

(* process_chk(), once there is a result. *)
EndCheck(c) ==
  /\ chk[c].busy /\ chk[c].result # "unknown"
  /\ Locked(c, c[2], srv, [chk EXCEPT ![c].busy = FALSE], Notify(c))
  /\ UNCHANGED <<world, commands, changes>>

-----------------------------------------------------------------------------
(* Commands, name resolution, observed errors.                             *)
Command(word) ==
  /\ word \in Commands
  /\ commands < MaxCommands
  /\ commands' = commands + 1
  /\ UNCHANGED <<world, changes>>

(* "set server state", "enable server", "disable server". *)
SetAdmin(p, s) ==
  \/ Command("ready") /\ Locked(p, s, srv, chk, srv_adm_set_ready)
  \/ Command("drain") /\ Locked(p, s, srv, chk, srv_adm_set_drain)
  \/ Command("maint") /\ Locked(p, s, srv, chk, srv_adm_set_maint)

(* "set server health": refused on a server that tracks another. *)
SetHealth(p, s) ==
  /\ Track[s] = NONE
  /\ Command("health")
  /\ \E to \in {"RUNNING", "STOPPING", "STOPPED"} :
       LET health == IF to = "STOPPED" THEN 0 ELSE Full(Check(s))
       IN Locked(p, s, srv, IF s \in HasCheck THEN [chk EXCEPT ![Check(s)].health = health] ELSE chk, <<State(to)>>)

(* "set server agent". *)
SetAgent(p, s) ==
  /\ IsOn(chk, Agent(s))
  /\ Command("agent")
  /\ \E to \in {"RUNNING", "STOPPED"} :
       Locked(p, s, [srv EXCEPT ![s].forced = @ \/ to = "RUNNING"],
              [chk EXCEPT ![Agent(s)].health = IF to = "STOPPED" THEN 0 ELSE 1], <<State(to)>>)

(* "disable health", "disable agent". *)
Disable(p, c) ==
  /\ Command("disable")
  /\ Locked(p, c[2], srv, [chk EXCEPT ![c].on = FALSE], <<>>)

(* "enable health", "enable agent": the first applies init-state. *)
Enable(p, c) ==
  /\ Command("enable")
  /\ LET s == c[2]
         started == InitState(srv[s], srv[s].next, chk[c].health)
         ck == [chk EXCEPT ![c].on = TRUE]
     IN IF c[1] = "agent" THEN Locked(p, s, srv, ck, <<>>)
        ELSE Locked(p, s, [srv EXCEPT ![s].next = started[1]], [ck EXCEPT ![c].health = started[2]], <<>>)

(* snr_set_srv_down(), and the address update once the name resolves.      *)
Resolution(p, s) ==
  /\ s \in Resolved
  /\ Command("dns")
  /\ Locked(p, s, srv, chk, <<IF "RMAINT" \in srv[s].nadm THEN Clr("RMAINT") ELSE Set("RMAINT")>>)

(* __health_adjust(), past the threshold, for each "on-error". *)
Adjust(p, s) ==
  /\ s \in HasCheck
  /\ \E onerror \in {"fail-check", "sudden-death", "mark-down"} :
       /\ Command(onerror)
       /\ LET c == Check(s)
              before == CASE onerror = "fail-check" -> chk[c].health
                          [] onerror = "sudden-death" -> IF chk[c].health > Rise THEN Rise + 1 ELSE chk[c].health
                          [] onerror = "mark-down" -> Rise
              after == HealthAfter(c, before, "failed")
          IN Locked(p, s, srv, [chk EXCEPT ![c].result = "failed", ![c].health = after],
                    IF after = 0 THEN <<State("STOPPED")>> ELSE <<>>)

(* server_warmup(), when the slow start is over: the test before the lock  *)
(* and the one after it read the same fields, and the last one decides.    *)
Warmup(s) ==
  /\ lock[s] = NONE
  /\ srv[s].nadm \cap Maint = {}
  /\ srv[s].next = "STARTING" /\ srv[s].cur # "STOPPED"
  /\ srv' = [srv EXCEPT ![s].cur = "RUNNING", ![s].next = "RUNNING"]
  /\ UNCHANGED <<chk, lock, call, world, commands, changes>>

(* What is checked changes: it works, fails, asks for no new connection    *)
(* (check), does not answer (agent).                                       *)
Change(c) ==
  /\ changes < MaxChanges
  /\ \E w \in {"up", "down", IF c[1] = "check" THEN "nolb" ELSE "silent"} \ {world[c]} :
       world' = [world EXCEPT ![c] = w]
  /\ changes' = changes + 1
  /\ UNCHANGED <<srv, chk, lock, call, commands>>

-----------------------------------------------------------------------------
(* srv_compute_all_admin_states(): at start-up the trackers of the servers *)
(* that track none inherit maintenance, and theirs unless already in it.   *)
Inherits(inh, s, disabled) ==
  /\ Track[s] # NONE
  /\ IF Track[Track[s]] = NONE THEN Track[s] \in disabled
     ELSE inh[Track[s]] /\ Track[s] \notin disabled

StartServer(s, disabled, inherits, init) ==
  LET adm == (IF s \in disabled THEN {"CMAINT", "FMAINT"} ELSE {})
               \cup (IF inherits THEN {"IMAINT"} ELSE {})
      r == [cur |-> "RUNNING", next |-> "RUNNING", cadm |-> adm, nadm |-> adm,
            init |-> IF Track[s] = NONE THEN init ELSE "none", forced |-> FALSE]
      next == IF adm # {} THEN "STOPPED" ELSE InitState(r, "RUNNING", 0)[1]
  IN [r EXCEPT !.cur = next, !.next = next]

StartCheckState(c, disabled, r) ==
  [on |-> TRUE, busy |-> FALSE, result |-> "unknown",
   paused |-> c[1] = "check" /\ c[2] \in disabled,
   health |-> IF c[1] = "agent" THEN 1
              ELSE IF c[2] \in disabled THEN 0 ELSE InitState(r, "RUNNING", Rise)[2]]

Init ==
  /\ \E disabled \in Disabled, init \in InitStates, inh \in [Servers -> BOOLEAN] :
       /\ \A s \in Servers : inh[s] = Inherits(inh, s, disabled)
       /\ srv = [s \in Servers |-> StartServer(s, disabled, inh[s], init)]
       /\ chk = [c \in Checks |-> StartCheckState(c, disabled, srv[c[2]])]
  /\ lock = [s \in Servers |-> NONE]
  /\ call = [p \in Actors |-> idle]
  /\ world = [c \in Checks |-> "up"]
  /\ commands = 0 /\ changes = 0

Proceed(p) == Continue(p) \/ Visit(p) \/ Leave(p)
CheckStep(c) == StartCheck(c) \/ Answer(c) \/ AgentReply(c) \/ EndCheck(c)

Next ==
  \/ \E p \in Actors : Proceed(p)
  \/ \E c \in Checks : CheckStep(c) \/ Change(c)
  \/ \E p \in Threads, s \in Servers :
       SetAdmin(p, s) \/ SetHealth(p, s) \/ SetAgent(p, s) \/ Resolution(p, s) \/ Adjust(p, s)
  \/ \E p \in Threads, c \in Checks : Disable(p, c) \/ Enable(p, c)
  \/ \E s \in Servers : Warmup(s)

Spec == Init /\ [][Next]_vars

(* Checks recur, calls go on, slow starts end; nobody has to give commands. *)
FairSpec ==
  /\ Spec
  /\ \A p \in Actors : WF_vars(Proceed(p))
  /\ \A c \in Checks : WF_vars(CheckStep(c))
  /\ \A s \in Servers : WF_vars(Warmup(s))

-----------------------------------------------------------------------------
(* Properties.                                                             *)

Free(s) == lock[s] = NONE
InMaint(s) == srv[s].nadm \cap Maint # {}
InDrain(s) == srv[s].nadm \cap Drain # {}
Flags == Maint \cup Drain \cup {"CMAINT"}
States == {"STOPPED", "STARTING", "RUNNING", "STOPPING"}

TypeOK ==
  /\ \A s \in Servers : /\ srv[s].cur \in States /\ srv[s].next \in States
                        /\ srv[s].cadm \subseteq Flags /\ srv[s].nadm \subseteq Flags
                        /\ lock[s] \in Actors \cup {NONE}
  /\ \A c \in Checks : chk[c].health \in 0 .. Full(c)
  /\ \A p \in Actors : call[p] = idle \/ lock[call[p].srv] = p

(* What an operation decides is in effect when it releases the server: the *)
(* current state is the next one, and a server in maintenance is stopped,  *)
(* whatever result or command comes late.  For servers without init-state  *)
(* (see FailedIsDown).                                                     *)
Applied ==
  /\ TypeOK
  /\ \A s \in Servers : Free(s) /\ srv[s].init = "none" =>
       /\ srv[s].cur = srv[s].next /\ srv[s].cadm = srv[s].nadm
       /\ InMaint(s) => srv[s].cur = "STOPPED"

(* A server inherits maintenance or drain exactly when the one it tracks   *)
(* is in it by any flag, once nobody holds either lock: flags set and      *)
(* cleared at several levels by commands, agents and name resolution, and  *)
(* carried lock by lock, neither stick nor get lost.                       *)
InheritedExact ==
  \A t \in Servers : Track[t] # NONE /\ Free(t) /\ Free(Track[t]) =>
    /\ ("IMAINT" \in srv[t].nadm) = InMaint(Track[t])
    /\ ("IDRAIN" \in srv[t].nadm) = InDrain(Track[t])

(* A server that tracks another, has no agent and is not in maintenance    *)
(* has the state of the one it tracks, up to the slow start, once nobody   *)
(* holds either lock, though it read that state without the lock.          *)
Kind(state) == IF state = "STARTING" THEN "RUNNING" ELSE state
TrackerFollows ==
  \A t \in Servers \ HasAgent :
    Track[t] # NONE /\ Free(t) /\ Free(Track[t]) /\ ~InMaint(t) /\ srv[Track[t]].init = "none" =>
      Kind(srv[t].cur) = Kind(srv[Track[t]].cur)

(* Once commands and changes end, each server gets the state that the rule *)
(* of check_notify_success() gives it, and keeps it: stopped in            *)
(* maintenance, when it tracks a stopped one or when a check fails; up     *)
(* when all of these comply, whatever order results and commands came in.  *)
(* Only "set server agent up" leaves a server up that tracks a stopped one. *)
Down(s) ==
  \/ InMaint(s)
  \/ Track[s] # NONE /\ srv[Track[s]].cur = "STOPPED" /\ ~srv[s].forced
  \/ \E c \in Checks : c[2] = s /\ chk[c].on /\ world[c] = "down"
Works(s) ==
  /\ ~InMaint(s)
  /\ Track[s] # NONE => srv[Track[s]].cur = "RUNNING"
  /\ s \in HasCheck => chk[Check(s)].on /\ world[Check(s)] = "up"
  /\ s \in HasAgent => IF Track[s] = NONE THEN ~chk[Agent(s)].on \/ world[Agent(s)] = "up"
                       ELSE chk[Agent(s)].on /\ world[Agent(s)] = "up"
Settled(s) == (Down(s) => srv[s].cur = "STOPPED") /\ (Works(s) => srv[s].cur = "RUNNING")
Settles == \A s \in Servers : <>[]Settled(s)

(* A server that is not in maintenance is down once its health check has   *)
(* failed to the end: a failed result leaves no health, and process_chk()  *)
(* has told the server.                                                    *)
FailedIsDown ==
  \A s \in HasCheck :
    LET c == Check(s)
    IN Free(s) /\ chk[c].on /\ ~chk[c].busy /\ chk[c].result = "failed" /\ chk[c].health = 0 /\ ~InMaint(s)
         => srv[s].cur = "STOPPED"
=============================================================================
