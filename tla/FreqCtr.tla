------------------------------ MODULE FreqCtr ------------------------------
(***************************************************************************)
(* The event-rate counters of src/src/freq_ctr.c and                       *)
(* include/haproxy/freq_ctr.h: a current and a previous period of Period   *)
(* ticks, fed and read by any thread with single-word atomic operations,   *)
(* and rotated by the thread that sets the low bit of curr_tick.           *)
(*                                                                         *)
(* Every step of a thread is one atomic access of the code.  Ticks are     *)
(* unsigned and wrap at Wrap (2^32 in the code); the counters themselves   *)
(* are bounded by MaxEvents and do not reach their own wrap.               *)
(***************************************************************************)
EXTENDS Integers, FiniteSets, Functions

CONSTANTS
  Threads,    \* threads that feed or read the counter
  Period,     \* length of a period in ticks ("at least 2 ticks long")
  Wrap,       \* ticks are counted modulo Wrap
  Boot,       \* date at boot, a little before the wrap (clock.c)
  Incs,       \* possible increments of one update
  Freqs,      \* frequencies the limit functions are asked about
  MaxTicks,   \* bound: the clock stops after that many ticks
  MaxEvents   \* bound: no update starts that would go past that total

ASSUME FreqCtrAssumption ==
  /\ Period \in Nat /\ Period >= 2
  /\ Wrap \in Nat /\ Wrap % 2 = 0 /\ Wrap > 4 * Period
  /\ Boot \in 1 .. (Wrap - 1)
  /\ Incs \subseteq Nat \ {0}
  /\ MaxTicks \in Nat /\ MaxEvents \in Nat

VARIABLES
  curr_tick,      \* start date of the current period, low bit = rotating
  curr_ctr,       \* events of the current period
  prev_ctr,       \* events of the previous one
  global_now_ms,  \* the process-wide monotonic date
  pc,             \* what each thread does next
  th,             \* each thread's local variables
  elapsed,        \* ghost: ticks since boot, without wrap
  retired,        \* ghost: events whose period was rotated out
  born            \* ghost: number of events added at each elapsed tick

counter == <<curr_tick, curr_ctr, prev_ctr>>
clock == <<global_now_ms, elapsed>>
ghosts == <<retired, born>>
vars == <<counter, clock, pc, th, ghosts>>

Sub(a, b) == (a - b) % Wrap
Even(x) == x - (x % 2)
Rotating(x) == x % 2 = 1

(* (int)(a - b) on unsigned ticks: the upper half of the range is negative *)
SSub(a, b) == IF Sub(a, b) >= Wrap \div 2 THEN Sub(a, b) - Wrap ELSE Sub(a, b)

Total(f) == FoldFunction(+, 0, f)
Added == curr_ctr + retired

UpdatePc == {"u_tick", "u_now", "u_add", "u_cas"}
RotatePc == {"u_xchg", "u_prev", "u_missed", "u_release"}
ReadPc == {"r_tick", "r_curr", "r_past", "v_tick", "v_curr", "v_past", "r_now"}
Kinds == {"none", "total", "overshoot", "estimate"}

Local == [inc : Nat, tick : Nat, now : Nat, curr : Nat, past : Nat,
          kind : Kinds, seen : [tick : Nat, curr : Nat, past : Nat]]

Idle == [inc |-> 0, tick |-> 0, now |-> 0, curr |-> 0, past |-> 0,
         kind |-> "none", seen |-> [tick |-> 0, curr |-> 0, past |-> 0]]

Goto(t, label) == pc' = [pc EXCEPT ![t] = label]
Done(t) == Goto(t, "idle") /\ th' = [th EXCEPT ![t] = Idle]

-----------------------------------------------------------------------------
(* The clock.  The date 0 (TICK_ETERNITY) is skipped when the date wraps.  *)

After(date) == IF (date + 1) % Wrap = 0 THEN 1 ELSE (date + 1) % Wrap

Tick ==
  /\ elapsed < MaxTicks
  /\ global_now_ms' = After(global_now_ms)
  /\ elapsed' = elapsed + (IF global_now_ms = Wrap - 1 THEN 2 ELSE 1)
  /\ UNCHANGED <<counter, pc, th, ghosts>>

(* What a thread may hold in its now_ms: the date when it last left the    *)
(* poller, or one tick more than global_now_ms, which is only pushed when  *)
(* it is 32 microseconds late.                                             *)
LocalDates ==
  {After(global_now_ms)} \cup ({(Boot + e) % Wrap : e \in 0 .. elapsed} \ {0})

-----------------------------------------------------------------------------
(* update_freq_ctr_period(): one try with the thread's own date            *)
update_freq_ctr_period(t, inc) ==
  /\ pc[t] = "idle"
  /\ Added + Cardinality({u \in Threads : pc[u] \in UpdatePc \cup RotatePc}) < MaxEvents
  /\ th' = [th EXCEPT ![t] = [Idle EXCEPT !.inc = inc, !.tick = curr_tick]]
  /\ \E now_ms \in LocalDates :
       Goto(t, IF Sub(now_ms, curr_tick) < Period THEN "u_add" ELSE "u_tick")
  /\ UNCHANGED <<counter, clock, ghosts>>

(* update_freq_ctr_period_slow(): the loop loads the tick, then the date   *)
SlowLoadTick(t) ==
  /\ pc[t] = "u_tick"
  /\ th' = [th EXCEPT ![t].tick = curr_tick]
  /\ Goto(t, "u_now")
  /\ UNCHANGED <<counter, clock, ghosts>>

SlowLoadNowOnce(t) ==
  /\ pc[t] = "u_now"
  /\ th' = [th EXCEPT ![t].now = global_now_ms]
  /\ Goto(t, IF Sub(global_now_ms, th[t].tick) < Period THEN "u_add"
             ELSE IF Rotating(th[t].tick) THEN "u_now" ELSE "u_cas")
  /\ UNCHANGED <<counter, clock, ghosts>>

SlowLoadNow(t) ==
  /\ pc[t] = "u_now"
  /\ th' = [th EXCEPT ![t].now = global_now_ms]
  /\ Goto(t, IF Sub(global_now_ms, th[t].tick) < Period THEN "u_add"
             ELSE IF Rotating(th[t].tick) THEN "u_tick" ELSE "u_cas")
  /\ UNCHANGED <<counter, clock, ghosts>>

(* HA_ATOMIC_ADD_FETCH(&ctr->curr_ctr, inc), even while another rotates    *)
AddCurr(t) ==
  /\ pc[t] = "u_add"
  /\ curr_ctr' = curr_ctr + th[t].inc
  /\ born' = [born EXCEPT ![elapsed] = @ + th[t].inc]
  /\ Done(t)
  /\ UNCHANGED <<curr_tick, prev_ctr, clock, retired>>

CasTick(t) ==
  /\ pc[t] = "u_cas"
  /\ \/ /\ curr_tick = th[t].tick
        /\ curr_tick' = curr_tick + 1
        /\ Goto(t, "u_xchg")
     \/ /\ curr_tick # th[t].tick
        /\ Goto(t, "u_tick")
        /\ UNCHANGED curr_tick
  /\ UNCHANGED <<curr_ctr, prev_ctr, clock, th, ghosts>>

XchgCurrReset(t) ==
  /\ pc[t] = "u_xchg"
  /\ curr_ctr' = 0
  /\ th' = [th EXCEPT ![t].curr = curr_ctr]
  /\ retired' = retired + curr_ctr
  /\ born' = [born EXCEPT ![elapsed] = @ + th[t].inc]
  /\ Goto(t, "u_prev")
  /\ UNCHANGED <<curr_tick, prev_ctr, clock>>

XchgCurr(t) ==
  /\ pc[t] = "u_xchg"
  /\ curr_ctr' = th[t].inc
  /\ th' = [th EXCEPT ![t].curr = curr_ctr]
  /\ retired' = retired + curr_ctr
  /\ born' = [born EXCEPT ![elapsed] = @ + th[t].inc]
  /\ Goto(t, "u_prev")
  /\ UNCHANGED <<curr_tick, prev_ctr, clock>>

StorePrevKeepsMissed(t) ==
  LET next == (th[t].tick + Period) % Wrap
      missed == Sub(th[t].now, next) >= Period
  IN /\ pc[t] = "u_prev"
     /\ prev_ctr' = th[t].curr
     /\ th' = [th EXCEPT ![t].tick = IF missed THEN th[t].now ELSE next]
     /\ Goto(t, "u_release")
     /\ UNCHANGED <<curr_tick, curr_ctr, clock, ghosts>>

StorePrevNextPeriod(t) ==
  LET next == (th[t].tick + Period) % Wrap
      missed == Sub(th[t].now, next) >= Period
  IN /\ pc[t] = "u_prev"
     /\ prev_ctr' = th[t].curr
     /\ th' = [th EXCEPT ![t].tick = IF missed THEN (th[t].now + Period) % Wrap ELSE next]
     /\ Goto(t, IF missed THEN "u_missed" ELSE "u_release")
     /\ UNCHANGED <<curr_tick, curr_ctr, clock, ghosts>>

StorePrev(t) ==
  LET next == (th[t].tick + Period) % Wrap
      missed == Sub(th[t].now, next) >= Period
  IN /\ pc[t] = "u_prev"
     /\ prev_ctr' = th[t].curr
     /\ th' = [th EXCEPT ![t].tick = IF missed THEN th[t].now ELSE next]
     /\ Goto(t, IF missed THEN "u_missed" ELSE "u_release")
     /\ UNCHANGED <<curr_tick, curr_ctr, clock, ghosts>>

(* at least two periods were missed, nothing is left of the last one       *)
StoreMissed(t) ==
  /\ pc[t] = "u_missed"
  /\ prev_ctr' = 0
  /\ Goto(t, "u_release")
  /\ UNCHANGED <<curr_tick, curr_ctr, clock, th, ghosts>>

ReleaseTick(t) ==
  /\ pc[t] = "u_release"
  /\ curr_tick' = Even(th[t].tick)
  /\ Done(t)
  /\ UNCHANGED <<curr_ctr, prev_ctr, clock, ghosts>>

Update(t) ==
  \/ SlowLoadTick(t) \/ SlowLoadNow(t) \/ AddCurr(t) \/ CasTick(t)
  \/ XchgCurr(t) \/ StorePrev(t) \/ StoreMissed(t) \/ ReleaseTick(t)

-----------------------------------------------------------------------------
(* freq_ctr_total(), freq_ctr_overshoot_period(), freq_ctr_total_estimate()*)
(* The first two read everything twice until nothing moved; the last reads *)
(* once.  "seen" is a ghost: the counter when its curr_ctr was last read.  *)

Kept(t, label) == Goto(t, label) /\ UNCHANGED th

Seen == [tick |-> curr_tick, curr |-> curr_ctr, past |-> prev_ctr]

ReadStart(t, kind) ==
  /\ pc[t] = "idle"
  /\ th' = [th EXCEPT ![t] = [Idle EXCEPT !.kind = kind, !.tick = curr_tick]]
  /\ Goto(t, "r_curr")
  /\ UNCHANGED <<counter, clock, ghosts>>

(* redo0: a rotation is in progress, start again from the tick             *)
ReadTick(t) ==
  /\ pc[t] = "r_tick"
  /\ th' = [th EXCEPT ![t].tick = curr_tick]
  /\ Goto(t, "r_curr")
  /\ UNCHANGED <<counter, clock, ghosts>>

(* redo1                                                                   *)
ReadCurr(t) ==
  /\ pc[t] = "r_curr"
  /\ th' = [th EXCEPT ![t].curr = curr_ctr, ![t].seen = Seen]
  /\ Goto(t, IF th[t].kind # "overshoot" THEN "r_past"
             ELSE IF Rotating(th[t].tick) THEN "r_tick" ELSE "v_tick")
  /\ UNCHANGED <<counter, clock, ghosts>>

(* redo2; the estimate stops here and drops the lock bit                   *)
ReadPast(t) ==
  /\ pc[t] = "r_past"
  /\ \/ /\ th[t].kind = "estimate"
        /\ th' = [th EXCEPT ![t].past = prev_ctr, ![t].tick = Even(@)]
        /\ Goto(t, "r_now")
     \/ /\ th[t].kind # "estimate"
        /\ th' = [th EXCEPT ![t].past = prev_ctr]
        /\ Goto(t, IF Rotating(th[t].tick) THEN "r_tick" ELSE "v_tick")
  /\ UNCHANGED <<counter, clock, ghosts>>

VerifyTickIgnoresRotation(t) ==
  /\ pc[t] = "v_tick"
  /\ \/ /\ curr_tick # th[t].tick
        /\ th' = [th EXCEPT ![t].tick = curr_tick]
        /\ Goto(t, "v_curr")
     \/ curr_tick = th[t].tick /\ Kept(t, "v_curr")
  /\ UNCHANGED <<counter, clock, ghosts>>

VerifyTick(t) ==
  /\ pc[t] = "v_tick"
  /\ \/ Rotating(curr_tick) /\ Kept(t, "r_tick")
     \/ /\ ~Rotating(curr_tick) /\ curr_tick # th[t].tick
        /\ th' = [th EXCEPT ![t].tick = curr_tick]
        /\ Goto(t, "r_curr")
     \/ curr_tick = th[t].tick /\ Kept(t, "v_curr")
  /\ UNCHANGED <<counter, clock, ghosts>>

VerifyCurr(t) ==
  LET two == th[t].kind = "overshoot"
  IN /\ pc[t] = "v_curr"
     /\ \/ /\ curr_ctr # th[t].curr
           /\ th' = [th EXCEPT ![t].curr = curr_ctr, ![t].seen = Seen]
           /\ Goto(t, IF two THEN "v_tick" ELSE "r_past")
        \/ curr_ctr = th[t].curr /\ Kept(t, IF two THEN "r_now" ELSE "v_past")
     /\ UNCHANGED <<counter, clock, ghosts>>

VerifyPast(t) ==
  /\ pc[t] = "v_past"
  /\ \/ /\ prev_ctr # th[t].past
        /\ th' = [th EXCEPT ![t].past = prev_ctr]
        /\ Goto(t, "v_tick")
     \/ prev_ctr = th[t].past /\ Kept(t, "r_now")
  /\ UNCHANGED <<counter, clock, ghosts>>

(* The value is computed from the stable reading and the date found then.  *)
ReadNow(t) ==
  /\ pc[t] = "r_now"
  /\ Done(t)
  /\ UNCHANGED <<counter, clock, ghosts>>

Read(t) ==
  \/ ReadTick(t) \/ ReadCurr(t) \/ ReadPast(t)
  \/ VerifyTick(t) \/ VerifyCurr(t) \/ VerifyPast(t) \/ ReadNow(t)

(* _freq_ctr_total_from_values(); pend < 0 asks for the flapping correction*)
TotalFromValues(pend, tick, past, curr) ==
  LET first  == SSub(tick + Period, global_now_ms)
      over   == first < 0
      remain == IF over THEN first + Period ELSE first
      p == IF ~over THEN past ELSE IF remain >= 0 THEN curr ELSE 0
      c == IF over THEN 0 ELSE curr
  IN IF pend < 0 /\ c = 0 /\ p <= 1
     THEN p * Period
     ELSE p * remain + (c + (IF pend < 0 THEN 0 ELSE pend)) * Period

ReadTotal(t, pend) == TotalFromValues(pend, th[t].tick, th[t].past, th[t].curr)

(* freq_ctr_remain_period() and next_event_delay_period() on a total       *)
Remain(total, freq) ==
  LET avg == total \div Period IN freq - (IF avg > freq THEN freq ELSE avg)

NextEventDelayRoundedDown(total, freq) ==
  IF total < freq * Period THEN 0
  ELSE (total - freq * Period) \div (IF freq = 0 THEN 1 ELSE freq)

NextEventDelay(total, freq) ==
  LET wait == (total - freq * Period) \div (IF freq = 0 THEN 1 ELSE freq)
  IN IF total < freq * Period THEN 0 ELSE IF wait > 1 THEN wait ELSE 1

(* what freq_ctr_overshoot_period() computes from a stable reading         *)
Overshoot(tick, curr, freq) ==
  LET age == SSub(global_now_ms, tick)
      linear == (age * freq) \div Period
  IN IF \/ curr = 0 /\ tick = 0
        \/ age < 0 \/ age > Period
        \/ curr < linear
     THEN 0 ELSE curr - linear

-----------------------------------------------------------------------------
Init ==
  /\ curr_tick = 0 /\ curr_ctr = 0 /\ prev_ctr = 0
  /\ global_now_ms = Boot
  /\ pc = [t \in Threads |-> "idle"]
  /\ th = [t \in Threads |-> Idle]
  /\ elapsed = 0
  /\ retired = 0
  /\ born = [e \in 0 .. (MaxTicks + 1) |-> 0]

Next ==
  \/ Tick
  \/ \E t \in Threads :
       \/ \E inc \in Incs : update_freq_ctr_period(t, inc)
       \/ \E kind \in Kinds \ {"none"} : ReadStart(t, kind)
       \/ Update(t)
       \/ Read(t)

Spec == Init /\ [][Next]_vars

(* A running thread keeps executing the function it is in.                 *)
FairSpec == Spec /\ \A t \in Threads : WF_vars(Update(t))

-----------------------------------------------------------------------------
(* Every variable keeps its type; the date is never 0 (TICK_ETERNITY).     *)
TypeOK ==
  /\ curr_tick \in 0 .. (Wrap - 1)
  /\ curr_ctr \in Nat /\ prev_ctr \in Nat
  /\ global_now_ms \in 1 .. (Wrap - 1)
  /\ pc \in [Threads -> {"idle"} \cup UpdatePc \cup RotatePc \cup ReadPc]
  /\ th \in [Threads -> Local]
  /\ elapsed \in Nat /\ retired \in Nat
  /\ born \in [0 .. (MaxTicks + 1) -> Nat]

(* "without losing any potential concurrent update": every event added is  *)
(* in the current period or was in a period that a rotation closed.        *)
NoEventLost == curr_ctr + retired = Total(born)

(* A reading accepted by the double-read loop of freq_ctr_total() or       *)
(* freq_ctr_overshoot_period() is one the counter really went through, not *)
(* a mix of two periods, whatever rotations and updates ran meanwhile.     *)
(* The tick 0 is left out: a reader that sleeps from before the first      *)
(* event until the date wraps may take the zeroed tick for that date.      *)
SnapshotConsistent ==
  \A t \in Threads :
    pc[t] = "r_now" /\ th[t].kind # "estimate" /\ th[t].tick # 0 =>
      /\ th[t].tick = th[t].seen.tick
      /\ th[t].curr = th[t].seen.curr
      /\ th[t].kind = "total" => th[t].past = th[t].seen.past

(* The number of events that are at most n ticks old; the date may have    *)
(* moved by one more tick for the thread that added them.                  *)
Recent(n) == Total([e \in {d \in DOMAIN born : d >= elapsed - n - 1} |-> born[e]])

(* The rate is never overestimated: whenever the date is finally loaded,   *)
(* what is reported was really seen over the last two periods.  For the    *)
(* estimate this is the comment's "it may return a low value", never a     *)
(* high one; only the zeroed tick of an unused counter escapes it.  The    *)
(* overshoot is no more than what the last period really brought.          *)
NeverOvercounts ==
  \A t \in Threads : pc[t] = "r_now" =>
    /\ \/ th[t].kind = "total"
       \/ th[t].kind = "estimate" /\ th[t].tick # 0
       => \A pend \in {-1, 0} : ReadTotal(t, pend) <= Period * Recent(2 * Period)
    /\ th[t].kind = "overshoot" =>
         \A freq \in Freqs : Overshoot(th[t].tick, th[t].curr, freq) <= Recent(Period)

(* A counter that holds events never looks as if its period started in the *)
(* future, even across the wrap of the date and from a zeroed area, but    *)
(* for the one tick by which the thread that fed it may be ahead; the tick *)
(* and the date stay in their ranges.                                      *)
PeriodNotAhead ==
  /\ TypeOK
  /\ ~Rotating(curr_tick) /\ curr_ctr + prev_ctr > 0 => SSub(global_now_ms, curr_tick) >= -1

(* freq_ctr_remain_period() and next_event_delay_period() agree: a caller  *)
(* told that nothing remains is always given a non-null delay, so that it  *)
(* does not loop on a timer that has already expired.                      *)
NoRoomMeansWait ==
  \A t \in Threads, freq \in Freqs :
    pc[t] = "r_now" /\ th[t].kind = "total" =>
      (Remain(ReadTotal(t, 0), freq) = 0 <=> NextEventDelay(ReadTotal(t, 0), freq) > 0)

(* An update spins only while another thread rotates: it always ends.      *)
UpdateEnds ==
  \A t \in Threads :
    pc[t] \in UpdatePc \cup RotatePc ~> pc[t] = "idle"
=============================================================================
