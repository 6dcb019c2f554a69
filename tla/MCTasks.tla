------------------------------ MODULE MCTasks ------------------------------
(***************************************************************************)
(* Threads and names for Tasks.                                            *)
(***************************************************************************)
EXTENDS Tasks

\* Nothing is claimed of what follows.
StopAtCareless == careful
=============================================================================
