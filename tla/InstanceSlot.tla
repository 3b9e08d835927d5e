---------------------------- MODULE InstanceSlot ----------------------------
(***************************************************************************)
(* What the manager may rely on when it counts instances against           *)
(* MaxInstances: a worker holds a slot; an instance exists only in a slot  *)
(* that is held; the slot is given up for good, and only when no instance  *)
(* is left that could need it.                                             *)
(***************************************************************************)
VARIABLES held, exists

Init == held = TRUE /\ exists = FALSE

Appear == held /\ ~exists /\ exists' = TRUE /\ UNCHANGED held
Vanish == exists /\ exists' = FALSE /\ UNCHANGED held
GiveUp == held /\ ~exists /\ held' = FALSE /\ UNCHANGED exists

Next == Appear \/ Vanish \/ GiveUp
Spec == Init /\ [][Next]_<<held, exists>>
=============================================================================
