------------------------------ MODULE MCFdTab ------------------------------
EXTENDS FdTab

(* Two threads, in one group or in two. *)
TwoThreads == 1 .. 2
OneGroup == [t \in Threads |-> <<1, t>>]
TwoGroups == [t \in Threads |-> <<t, 1>>]
BothLayouts == {OneGroup, TwoGroups}
=============================================================================
