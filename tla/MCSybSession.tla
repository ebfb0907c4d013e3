---------------------------- MODULE MCSybSession ----------------------------
(* A small instance of SybSession for TLC.                                 *)
EXTENDS SybSession
=============================================================================
