---------------------------- MODULE MCOutreach ----------------------------
(* Small instances of Outreach for TLC, two in one run: behaviours with    *)
(* check-ins only and behaviours with returns only, each with all the      *)
(* routes, a failed write and a kill.  Both kinds together are in MCEnds.  *)
EXTENDS Outreach, TLC

VARIABLE about

Asking == INSTANCE Outreach WITH Returns <- 0
Returning == INSTANCE Outreach WITH CheckIns <- 0

Asks == about = "check-ins" /\ Asking!Next /\ UNCHANGED about
Comes == about = "returns" /\ Returning!Next /\ UNCHANGED about

EitherSpec ==
    /\ \/ about = "check-ins" /\ Asking!Init
       \/ about = "returns" /\ Returning!Init
    /\ [][Asks \/ Comes]_<<vars, about>>

Symmetry == Permutations(Keys)
=============================================================================
