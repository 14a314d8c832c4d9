----------------------------- MODULE MCOnlineCopy -----------------------------
(* The one who shares, and one who opens the link; an image and a shape. *)
EXTENDS OnlineCopy, TLC

CONSTANTS a, b, p, q, pic

TabNonces == (p :> {0}) @@ (q :> {1})
JustA == {{a}}
===============================================================================
