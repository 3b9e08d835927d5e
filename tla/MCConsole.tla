----------------------------- MODULE MCConsole -----------------------------
(***************************************************************************)
(* The console for TLC.  Reading pages touches no state of the other       *)
(* requests, so pages are read only before there has been any.             *)
(***************************************************************************)
EXTENDS ConsoleControl, ConsolePages

AllVars == <<consoleVars, pageVars>>

MCInit == Init /\ PageInit
MCNext ==
  \/ limit = 0 /\ Next /\ UNCHANGED pageVars
  \/ Init /\ cookies = {} /\ PageNext /\ UNCHANGED consoleVars

MCSpec ==
  /\ MCInit /\ [][MCNext]_AllVars
  /\ Fairness
=============================================================================
