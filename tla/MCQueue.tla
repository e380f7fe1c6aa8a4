------------------------------ MODULE MCQueue ------------------------------
(* Small instances of Queue for TLC: up to three streams, two servers and  *)
(* two thread groups.                                                      *)
EXTENDS QueueInv, TLC

CONSTANTS s1, s2, s3, a, b

OneGroup == [p \in Procs |-> 1]
SameKey == [s \in Streams |-> 1]
TwoGroups == [p \in Procs |-> IF p = s3 THEN 2 ELSE 1]
ThreeKeys == [s \in Streams |-> IF s = s1 THEN 1 ELSE IF s = s2 THEN 0 ELSE 2]
OneSlot == [v \in Servers |-> 1]
OneWaiting == [v \in Servers |-> 1]
NoMaxQueue == [v \in Servers |-> 0]
Balanced == [s \in Streams |-> {NULL}]
Persistent == [s \in Streams |-> {a}]
Mixed == [s \in Streams |-> {a, NULL}]
OneBalanced == [s \in Streams |-> IF s = s1 THEN {NULL} ELSE {a}]
=============================================================================
