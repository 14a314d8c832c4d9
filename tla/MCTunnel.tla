------------------------------- MODULE MCTunnel -------------------------------
(* Three starts: the callbacks of two earlier processes meet a third one.   *)
EXTENDS Tunnel
=============================================================================
