----------------------------- MODULE MCLiveScene -----------------------------
(* Two pages, and a board with one of two elements.  What one page draws at *)
(* random lies between the other's draws, so that ties go either way.       *)
EXTENDS LiveScene, TLC

CONSTANTS a, b, p, q

EngineNonces == (p :> {0}) @@ (q :> {1})
PageNonces == (p :> {2}) @@ (q :> {1})
JustA == {{a}}
=============================================================================
