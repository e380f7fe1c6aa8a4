------------------------------ MODULE RingLog -------------------------------
(***************************************************************************)
(* What a ring promises its users: messages are appended in groups to one  *)
(* log, and a reader, from the place where it was attached on, gets every  *)
(* message once, whole and in the order of the log.                        *)
(***************************************************************************)
EXTENDS Integers, Sequences, SequencesExt

CONSTANTS Readers, Messages

VARIABLES log,   \* messages the ring accepted
          from,  \* messages a reader did not want, or -1 before it is attached
          got    \* messages a reader was given

vars == <<log, from, got>>

Init ==
  /\ log = <<>>
  /\ from = [r \in Readers |-> -1]
  /\ got = [r \in Readers |-> <<>>]

(* Writers that met are served together: the order within a group is free. *)
Accept ==
  /\ \E group \in SetToAllKPermutations(Messages \ ToSet(log)) :
       group # <<>> /\ log' = log \o group
  /\ UNCHANGED <<from, got>>

Attach(r) ==
  /\ from[r] = -1
  /\ \E n \in 0 .. Len(log) : from' = [from EXCEPT ![r] = n]
  /\ UNCHANGED <<log, got>>

Deliver(r) ==
  /\ from[r] >= 0
  /\ from[r] + Len(got[r]) < Len(log)
  /\ got' = [got EXCEPT ![r] = Append(@, log[from[r] + Len(@) + 1])]
  /\ UNCHANGED <<log, from>>

Next == Accept \/ \E r \in Readers : Attach(r) \/ Deliver(r)

Spec == Init /\ [][Next]_vars
=============================================================================
