------------------------------ MODULE MCServers ------------------------------
(* Instances of Servers for TLC: sb tracks sa, sc tracks sb. *)
EXTENDS Servers, TLC

CONSTANTS sa, sb, sc, cli, dns
MCChain == [s \in {sa, sb, sc} |-> IF s = sa THEN NONE ELSE IF s = sb THEN sa ELSE sb]
=============================================================================
