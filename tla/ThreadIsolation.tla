-------------------------- MODULE ThreadIsolation ---------------------------
(***************************************************************************)
(* Thread isolation (thread.c, thread.h): a thread that must be alone asks *)
(* for a rendezvous and waits until every other thread has declared itself *)
(* harmless (not touching shared data) or, for thread_isolate_full(), also *)
(* idle (in the poller, outside of any handler).                           *)
(*                                                                         *)
(* A step is one access to a shared word, and a bit mask is a set of       *)
(* threads. Two loads are part of the step that follows them: the one of   *)
(* threads_enabled, which only loses bits, and the one of isolated_thread  *)
(* before its compare-and-swap.                                            *)
(***************************************************************************)
EXTENDS Integers, FiniteSets

CONSTANTS Threads,       \* all threads
          Groups,        \* number of thread groups
          Group,         \* the group of each thread
          MayIsolate,    \* the calls a thread makes: "plain", "full" or both
          MaxCalls,      \* bound on the number of isolations
          NONE           \* isolated_thread when nobody is isolated (~0)

ASSUME IsolationAssumption ==
  /\ IsFiniteSet(Threads)
  /\ NONE \notin Threads
  /\ Groups \in Nat \ {0}
  /\ Group \in [Threads -> 1 .. Groups]
  /\ MayIsolate \in [Threads -> SUBSET {"plain", "full"}]
  /\ MaxCalls \in Nat

VARIABLES threads_enabled,   \* threads that have not ended
          threads_harmless,  \* threads that touch no shared data
          threads_idle,      \* threads outside of any handler
          rdv_requests,      \* number of threads requesting a rendezvous
          isolated_thread,   \* the isolated thread, or the next one, or NONE
          pc,                \* the next step of each thread
          full,              \* whether the last call was thread_isolate_full()
          grp,               \* the group the thread scans
          calls              \* isolations asked for so far

vars == <<threads_enabled, threads_harmless, threads_idle, rdv_requests,
          isolated_thread, pc, full, grp, calls>>

(* Threads are born harmless and idle, and start as if they left poll(). *)
Init ==
  /\ threads_enabled = Threads
  /\ threads_harmless = Threads
  /\ threads_idle = Threads
  /\ rdv_requests = 0
  /\ isolated_thread = NONE
  /\ pc = [t \in Threads |-> "poll"]
  /\ full = [t \in Threads |-> FALSE]
  /\ grp = [t \in Threads |-> 1]
  /\ calls = 0

Goto(t, l) == pc' = [pc EXCEPT ![t] = l]

-----------------------------------------------------------------------------
(* The poller: thread_idle_now(), thread_harmless_now(), poll() and, when  *)
(* it returns, thread_harmless_end(), thread_idle_end().                   *)

thread_idle_now(t) ==
  /\ pc[t] = "run"
  /\ threads_idle' = threads_idle \cup {t}
  /\ Goto(t, "harmless_now")
  /\ UNCHANGED <<threads_enabled, threads_harmless, rdv_requests,
                 isolated_thread, full, grp, calls>>

thread_harmless_now(t) ==
  /\ pc[t] = "harmless_now"
  /\ threads_harmless' = threads_harmless \cup {t}
  /\ Goto(t, "poll")
  /\ UNCHANGED <<threads_enabled, threads_idle, rdv_requests,
                 isolated_thread, full, grp, calls>>

(* thread_harmless_end(): drop the bit first, then look for a rendezvous. *)
thread_harmless_end(t) ==
  /\ pc[t] = "poll"
  /\ threads_harmless' = threads_harmless \ {t}
  /\ Goto(t, "check")
  /\ UNCHANGED <<threads_enabled, threads_idle, rdv_requests,
                 isolated_thread, full, grp, calls>>

CheckRendezvous(t) ==
  /\ pc[t] = "check"
  /\ Goto(t, IF rdv_requests = 0 THEN "idle_end" ELSE "back")
  /\ UNCHANGED <<threads_enabled, threads_harmless, threads_idle, rdv_requests,
                 isolated_thread, full, grp, calls>>

(* thread_harmless_till_end(): harmless again until nobody requests a      *)
(* rendezvous, then thread_harmless_end() starts over.                     *)
thread_harmless_till_end(t) ==
  /\ pc[t] = "back"
  /\ threads_harmless' = threads_harmless \cup {t}
  /\ Goto(t, "till_end")
  /\ UNCHANGED <<threads_enabled, threads_idle, rdv_requests,
                 isolated_thread, full, grp, calls>>

EndOfRendezvous(t) ==
  /\ pc[t] = "till_end"
  /\ rdv_requests = 0
  /\ Goto(t, "poll")
  /\ UNCHANGED <<threads_enabled, threads_harmless, threads_idle, rdv_requests,
                 isolated_thread, full, grp, calls>>

thread_idle_end(t) ==
  /\ pc[t] = "idle_end"
  /\ threads_idle' = threads_idle \ {t}
  /\ Goto(t, "run")
  /\ UNCHANGED <<threads_enabled, threads_harmless, rdv_requests,
                 isolated_thread, full, grp, calls>>

(* The end of run_thread_poll_loop(). *)
ThreadExit(t) ==
  /\ pc[t] = "run"
  /\ threads_enabled' = threads_enabled \ {t}
  /\ Goto(t, "gone")
  /\ UNCHANGED <<threads_harmless, threads_idle, rdv_requests,
                 isolated_thread, full, grp, calls>>

-----------------------------------------------------------------------------
(* thread_isolate() and thread_isolate_full(), called by a handler. *)

thread_isolate(t) ==
  /\ pc[t] = "run" /\ "plain" \in MayIsolate[t] /\ calls < MaxCalls
  /\ calls' = calls + 1
  /\ full' = [full EXCEPT ![t] = FALSE]
  /\ threads_harmless' = threads_harmless \cup {t}
  /\ Goto(t, "request")
  /\ UNCHANGED <<threads_enabled, threads_idle, rdv_requests,
                 isolated_thread, grp>>

thread_isolate_full(t) ==
  /\ pc[t] = "run" /\ "full" \in MayIsolate[t] /\ calls < MaxCalls
  /\ calls' = calls + 1
  /\ full' = [full EXCEPT ![t] = TRUE]
  /\ threads_idle' = threads_idle \cup {t}
  /\ Goto(t, "full_harmless")
  /\ UNCHANGED <<threads_enabled, threads_harmless, rdv_requests,
                 isolated_thread, grp>>

FullHarmless(t) ==
  /\ pc[t] = "full_harmless"
  /\ threads_harmless' = threads_harmless \cup {t}
  /\ Goto(t, "request")
  /\ UNCHANGED <<threads_enabled, threads_idle, rdv_requests,
                 isolated_thread, full, grp, calls>>

Request(t) ==
  /\ pc[t] = "request"
  /\ rdv_requests' = rdv_requests + 1
  /\ grp' = [grp EXCEPT ![t] = 1]
  /\ Goto(t, "scan")
  /\ UNCHANGED <<threads_enabled, threads_harmless, threads_idle,
                 isolated_thread, full, calls>>

(* The next group once this one has no thread that prevents isolation. *)
NextGroup(t) ==
  IF grp[t] = Groups
  THEN Goto(t, "grab") /\ UNCHANGED grp
  ELSE Goto(t, "scan") /\ grp' = [grp EXCEPT ![t] = @ + 1]

Enabled(g) == {u \in threads_enabled : Group[u] = g}

ScanHarmless(t) ==
  /\ pc[t] = "scan"
  /\ Enabled(grp[t]) \subseteq threads_harmless
  /\ IF full[t] THEN Goto(t, "scan_idle") /\ UNCHANGED grp ELSE NextGroup(t)
  /\ UNCHANGED <<threads_enabled, threads_harmless, threads_idle, rdv_requests,
                 isolated_thread, full, calls>>

(* Only the harmless bits are looked at. *)
ScanIdleSkipped(t) ==
  /\ pc[t] = "scan_idle"
  /\ NextGroup(t)
  /\ UNCHANGED <<threads_enabled, threads_harmless, threads_idle, rdv_requests,
                 isolated_thread, full, calls>>

ScanIdle(t) ==
  /\ pc[t] = "scan_idle"
  /\ IF Enabled(grp[t]) \subseteq threads_idle
     THEN NextGroup(t)
     ELSE Goto(t, "scan") /\ UNCHANGED grp
  /\ UNCHANGED <<threads_enabled, threads_harmless, threads_idle, rdv_requests,
                 isolated_thread, full, calls>>

(* isolated_thread is taken from whoever has it. *)
GrabSteal(t) ==
  /\ pc[t] = "grab"
  /\ isolated_thread' = t
  /\ IF isolated_thread = t
     THEN Goto(t, IF full[t] THEN "drop_idle" ELSE "drop") /\ UNCHANGED grp
     ELSE Goto(t, "scan") /\ grp' = [grp EXCEPT ![t] = 1]
  /\ UNCHANGED <<threads_enabled, threads_harmless, threads_idle, rdv_requests,
                 full, calls>>

(* Everyone was seen harmless. The winner of isolated_thread scans once    *)
(* more: a thread isolated in between has dropped its bit.                 *)
Grab(t) ==
  /\ pc[t] = "grab"
  /\ IF isolated_thread = t
     THEN /\ Goto(t, IF full[t] THEN "drop_idle" ELSE "drop")
          /\ UNCHANGED <<isolated_thread, grp>>
     ELSE /\ isolated_thread' = IF isolated_thread = NONE THEN t ELSE isolated_thread
          /\ grp' = [grp EXCEPT ![t] = 1]
          /\ Goto(t, "scan")
  /\ UNCHANGED <<threads_enabled, threads_harmless, threads_idle, rdv_requests,
                 full, calls>>

DropIdle(t) ==
  /\ pc[t] = "drop_idle"
  /\ threads_idle' = threads_idle \ {t}
  /\ Goto(t, "drop")
  /\ UNCHANGED <<threads_enabled, threads_harmless, rdv_requests,
                 isolated_thread, full, grp, calls>>

DropHarmless(t) ==
  /\ pc[t] = "drop"
  /\ threads_harmless' = threads_harmless \ {t}
  /\ Goto(t, "isolated")
  /\ UNCHANGED <<threads_enabled, threads_idle, rdv_requests,
                 isolated_thread, full, grp, calls>>


thread_release(t) ==
  /\ pc[t] = "isolated"
  /\ isolated_thread' = NONE
  /\ Goto(t, "released")
  /\ UNCHANGED <<threads_enabled, threads_harmless, threads_idle, rdv_requests,
                 full, grp, calls>>

EndRequest(t) ==
  /\ pc[t] = "released"
  /\ rdv_requests' = rdv_requests - 1
  /\ Goto(t, "run")
  /\ UNCHANGED <<threads_enabled, threads_harmless, threads_idle,
                 isolated_thread, full, grp, calls>>

Poller(t) ==
  \/ thread_idle_now(t) \/ thread_harmless_now(t) \/ thread_harmless_end(t)
  \/ CheckRendezvous(t) \/ thread_harmless_till_end(t) \/ EndOfRendezvous(t)
  \/ thread_idle_end(t)

Isolating(t) ==
  \/ FullHarmless(t) \/ Request(t) \/ ScanHarmless(t) \/ ScanIdle(t) \/ Grab(t)
  \/ DropIdle(t) \/ DropHarmless(t) \/ thread_release(t) \/ EndRequest(t)

Thread(t) ==
  Poller(t) \/ thread_isolate(t) \/ thread_isolate_full(t) \/ Isolating(t) \/ ThreadExit(t)

Next == \E t \in Threads : Thread(t)

Spec == Init /\ [][Next]_vars

(* Threads are not starved and handlers return to the poller. *)
FairSpec == Spec /\ \A t \in Threads : WF_vars(Poller(t) \/ Isolating(t))

-----------------------------------------------------------------------------
(* Labels at which a thread may touch shared data. *)
Active == {"run", "harmless_now", "idle_end", "isolated", "released", "full_harmless"}
(* A thread seen harmless stays at these as long as it cannot pass. *)
Parked == {"poll", "check", "back", "till_end", "request", "scan", "scan_idle", "grab"}
Polling == {"poll", "check", "back", "till_end"}
Requesting == {"scan", "scan_idle", "grab", "drop_idle", "drop", "isolated", "released"}

TypeOK ==
  /\ threads_enabled \subseteq Threads
  /\ threads_harmless \subseteq Threads
  /\ threads_idle \subseteq Threads
  /\ rdv_requests \in Nat
  /\ isolated_thread \in Threads \cup {NONE}
  /\ pc \in [Threads -> Active \cup Parked \cup {"drop_idle", "drop", "gone"}]
  /\ full \in [Threads -> BOOLEAN]
  /\ grp \in [Threads -> 1 .. Groups]
  /\ calls \in 0 .. MaxCalls

(* A thread that returned from thread_isolate() is alone: no other thread  *)
(* may touch shared data before thread_release().                          *)
IsolatedAlone ==
  \A t, u \in Threads : pc[t] = "isolated" /\ u # t => pc[u] \notin Active

(* A thread that returned from thread_isolate_full() is sure that the      *)
(* others are in the poller, ended, or themselves about to be fully        *)
(* isolated: none of them stopped in the middle of a handler.              *)
FullIsolationMeansIdle ==
  \A t, u \in Threads :
    pc[t] = "isolated" /\ full[t] /\ u # t =>
      pc[u] \in Polling \cup {"gone"} \/ (pc[u] \in Parked /\ full[u])

(* What follows makes the two invariants above inductive. The words shared *)
(* by the threads say where each of them is.                               *)
WordsOK ==
  /\ threads_enabled = {t \in Threads : pc[t] # "gone"}
  /\ threads_harmless = {t \in Threads : pc[t] \in
       {"poll", "till_end", "request", "scan", "scan_idle", "grab", "drop_idle", "drop"}}
  /\ threads_idle = {t \in Threads :
       \/ pc[t] \in Polling \cup {"harmless_now", "idle_end"}
       \/ full[t] /\ pc[t] \in {"full_harmless", "request", "scan", "scan_idle",
                                "grab", "drop_idle"}}
  /\ \A t \in Threads : pc[t] \in {"scan_idle", "drop_idle"} => full[t]

RequestsOK == rdv_requests = Cardinality({t \in Threads : pc[t] \in Requesting})

OwnerOK == \A t \in Threads :
  /\ isolated_thread = t => pc[t] \in Requesting \ {"released"}
  /\ pc[t] \in {"drop_idle", "drop", "isolated"} => isolated_thread = t

Seen(t, u) == pc[t] \in {"scan", "scan_idle"} => Group[u] < grp[t]
SeenHarmless(t, u) == Seen(t, u) \/ (pc[t] = "scan_idle" /\ Group[u] = grp[t])
Stopped(u) == pc[u] \in Parked \cup {"gone"}
StoppedIdle(u) == pc[u] \in Polling \cup {"gone"} \/ (pc[u] \in Parked /\ full[u])

(* What the owner of isolated_thread has seen does not change any more. *)
SeenOK == \A t, u \in Threads :
  isolated_thread = t /\ u # t =>
    /\ SeenHarmless(t, u) => Stopped(u)
    /\ Seen(t, u) /\ full[t] => StoppedIdle(u)

(* The inductive invariant of the protocol. *)
IsoInv == TypeOK /\ WordsOK /\ RequestsOK /\ OwnerOK /\ SeenOK

(* What the protocol implements. *)
ActiveThreads == {t \in Threads : pc[t] \in Active}
IsolatedHolder == IF \E t \in Threads : pc[t] = "isolated" THEN isolated_thread ELSE NONE
Exclusive == INSTANCE Exclusion WITH active <- ActiveThreads, holder <- IsolatedHolder

(* Every step is a step of Exclusion, or none. *)
ImplementsExclusion == Exclusive!Spec


=============================================================================
