------------------------------- MODULE MCRoom -------------------------------
(* Two pages and an element.  The clocks let either page come first, and    *)
(* both at once.                                                            *)
EXTENDS Room, TLC

Clocks == (1 :> {2}) @@ (2 :> {1, 2})
=============================================================================
