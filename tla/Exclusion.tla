----------------------------- MODULE Exclusion ------------------------------
(***************************************************************************)
(* What thread isolation promises (thread.c), without the protocol: a      *)
(* thread that isolates itself is alone. Active threads may touch shared   *)
(* data; the holder is active and nobody else is until it releases.        *)
(***************************************************************************)
CONSTANTS Threads, NONE

VARIABLES active, holder

Init == active = {} /\ holder = NONE

(* A thread leaves the poller and gets to work. *)
Resume(t) ==
  /\ holder = NONE
  /\ t \notin active
  /\ active' = active \cup {t}
  /\ UNCHANGED holder

(* A thread goes to the poller, waits for its own isolation, or ends. *)
Pause(t) ==
  /\ t \in active
  /\ t # holder
  /\ active' = active \ {t}
  /\ UNCHANGED holder

Isolate(t) ==
  /\ holder = NONE
  /\ active = {}
  /\ active' = {t}
  /\ holder' = t

Release(t) ==
  /\ holder = t
  /\ holder' = NONE
  /\ UNCHANGED active

Next == \E t \in Threads : Resume(t) \/ Pause(t) \/ Isolate(t) \/ Release(t)

Spec == Init /\ [][Next]_<<active, holder>>
=============================================================================
