---------------------------- MODULE MCLibcurlMain ----------------------------
(* Instances of LibcurlMain for TLC. *)
EXTENDS LibcurlMain
=============================================================================
