---------------------------- MODULE MCEchoServer ----------------------------
(* EchoServer for a few clients and bytes. *)
EXTENDS EchoServer, TLC
=============================================================================
