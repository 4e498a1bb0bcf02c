----------------------------- MODULE MCEchoServer -----------------------------
(* Instances of EchoServer for TLC: server.c with its answers taken as a     *)
(* whole, and the presentation's server over a network that splits anything. *)
EXTENDS EchoServer

MCSetups == {<<FALSE, FALSE>>, <<TRUE, TRUE>>}
MCRace == {<<FALSE, FALSE>>}
=============================================================================
