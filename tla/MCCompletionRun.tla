--------------------------- MODULE MCCompletionRun ---------------------------
(***************************************************************************)
(* A completion whose answer has at most two pieces of text, on paths that *)
(* are fresh or hold everything a complete earlier run left.               *)
(***************************************************************************)
EXTENDS CompletionRun

Pieces     == 2
FreshOrOld == {{}, Durable \cup {Receipt}}
Fresh      == {{}}
==============================================================================
