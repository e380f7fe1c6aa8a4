------------------------------ MODULE MCFdList -------------------------------
(* Instances of FdList for TLC. *)
EXTENDS FdList, TLC

CONSTANTS t1, t2
MCThreads2 == {t1, t2}

(* Two listeners that are enabled, disabled and closed from nothing; and   *)
(* three in the list, of which t2 has seen all but the first, enabled once *)
(* more: t1 removes the second while the first is updated again, or while  *)
(* t2 closes the third.                                                    *)
MCStarts ==
  {[fds |-> 2, masks |-> <<>>, updates |-> 2, stops |-> 1, closes |-> 1],
   [fds |-> 3, masks |-> <<{t1, t2}, {t1}, {t1}>>, updates |-> 1, stops |-> 1, closes |-> 0],
   [fds |-> 3, masks |-> <<{t1, t2}, {t1}, {t1}>>, updates |-> 0, stops |-> 0, closes |-> 1]}
=============================================================================
