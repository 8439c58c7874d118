---------------------------- MODULE MCVutuWidgets ---------------------------
(***************************************************************************)
(* VutuWidgets for TLC, from a program with everything in place.           *)
(***************************************************************************)
EXTENDS MCVutuPlay, VutuWidgets

MCAllIntervals == {iv \in (0..4) \X (0..4) : iv[1] <= iv[2]}
MCMoves == {-3, 2}
MCGap == [size \in {1, 2} |-> 3 - size]

WidgetsSpec ==
    LoadedInit /\ WidgetsInit /\ [][WidgetsNext]_allVars /\ WidgetsFairness
=============================================================================
