------------------------------- MODULE MCDrafts -------------------------------
(* Two elements, one of them perhaps there from the start.                  *)
EXTENDS Drafts
CONSTANTS a, b
SomeOfA == {{}, {a}}
=============================================================================
