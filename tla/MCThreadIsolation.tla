------------------------- MODULE MCThreadIsolation --------------------------
(* Instances of ThreadIsolation: threads 1..N, the first alone in its group. *)
EXTENDS ThreadIsolation, TLC

FirstAlone == [t \in Threads |-> IF t = 1 THEN 1 ELSE 2]
AllCalls == [t \in Threads |-> {"plain", "full"}]
(* No thread makes both calls. *)
OneKind == [t \in Threads |-> IF t = 1 THEN {"plain"} ELSE {"full"}]
=============================================================================
