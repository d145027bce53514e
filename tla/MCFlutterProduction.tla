------------------------ MODULE MCFlutterProduction ------------------------
(***************************************************************************)
(* Instances for TLC of the native side, FlutterProduction, under threads  *)
(* that call as they like, and of the Dart side, EditorWorkspace, which    *)
(* calls it from one.  A behaviour takes one of the two.                   *)
(***************************************************************************)
EXTENDS FlutterProduction, EditorWorkspace, TLC
CONSTANTS c1, c2, s1, s2
Symmetry == Permutations({c1, c2}) \cup Permutations({s1, s2})

BothInit == Init /\ EditorInit
BothNext == \/ EditorInit /\ ~ renderTarget /\ Next /\ UNCHANGED evars
            \/ Init /\ EditorNext /\ UNCHANGED vars
BothSpec == BothInit /\ [][BothNext]_<<vars, evars>>
=============================================================================
