----------------------------- MODULE MCParsing -----------------------------
(***************************************************************************)
(* Names for Parsing.                                                      *)
(***************************************************************************)
EXTENDS Parsing

\* What follows a text that ended in the middle of something is shorter.
ShortWhenUnclean == clean \/ scripts = 1 \/ Len(items) <= 2
=============================================================================
