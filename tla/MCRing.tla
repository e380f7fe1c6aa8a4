------------------------------- MODULE MCRing -------------------------------
EXTENDS Ring

OneQueue == [w \in 1 .. NbWriters |-> 1]
(* Two messages fit together, the third cannot fit, the fourth is longer. *)
OneTooLarge == [m \in 1 .. NbWriters * MaxMsgs |-> CASE m = 3 -> Size [] m = 4 -> 2 [] OTHER -> 1]
=============================================================================
