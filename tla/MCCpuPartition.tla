--------------------------- MODULE MCCpuPartition ---------------------------
(***************************************************************************)
(* CpuPartition on every small job and image: what a reader of             *)
(* docs/CPU_MULTITHREADING.md expects of the cuts, checked against them.   *)
(***************************************************************************)
EXTENDS CpuPartition, FiniteSets

CONSTANTS MaxCount, MaxWorkers, MaxGrain, MaxSize, MaxHalo   \* bounds
ASSUME CutAssumption == {MaxCount, MaxWorkers, MaxGrain, MaxSize, MaxHalo} \subseteq Nat

VARIABLES span, workers, grain, edge, halo
cut == <<span, workers, grain, edge, halo>>

(* An axis of span pixels is cut into tiles with an edge of some length;   *)
(* span is the number of items of a job as well. *)
CutInit ==
  /\ span = 1
  /\ workers \in 1..MaxWorkers /\ grain \in 0..MaxGrain
  /\ edge \in 1..MaxSize /\ halo \in 0..MaxHalo

CutNext ==
  /\ span < MaxCount
  /\ span' = span + 1
  /\ UNCHANGED <<workers, grain, edge, halo>>

CutSpec == CutInit /\ [][CutNext]_cut

Owners(n, tasks, i) == {t \in 0..tasks - 1 : i \in TaskItems(n, tasks, t)}

(* "A pixel is written by exactly one task": an item of a job is in the    *)
(* range of exactly one task of parallel_for, and no task is empty.        *)
OneTaskPerItem ==
  LET tasks == TaskCount(workers, span, grain)
  IN /\ \A i \in 0..span - 1 : Cardinality(Owners(span, tasks, i)) = 1
     /\ \A t \in 0..tasks - 1 : TaskItems(span, tasks, t) # {}

(* A tile index of parallel_for_tiles for each tile, and each pixel of the *)
(* image (span wide, grain + 1 high) in the output of exactly one.        *)
OneTilePerPixel ==
  LET height == grain + 1
      tiles  == 0..Pieces(span, edge) * Pieces(height, edge) - 1
      Writes(n, x, y) ==
        LET tile == TileOf(span, edge, n)
        IN /\ x \in TileBegin(tile.x, edge) .. TileEnd(span, tile.x, edge) - 1
           /\ y \in TileBegin(tile.y, edge) .. TileEnd(height, tile.y, edge) - 1
  IN \A x \in 0..span - 1, y \in 0..height - 1 :
       Cardinality({n \in tiles : Writes(n, x, y)}) = 1

(* The read range of a tile is every pixel of the image no further than    *)
(* the halo from one it writes, and no other: a filter of that radius      *)
(* neither leaves the image nor misses a neighbour at a seam.              *)
HaloIsNeighbourhood ==
  \A t \in 0..Pieces(span, edge) - 1 :
    ReadBegin(t, edge, halo) .. ReadEnd(span, t, edge, halo) - 1
      = {x \in 0..span - 1 :
           \E w \in TileBegin(t, edge) .. TileEnd(span, t, edge) - 1 :
             x \in w - halo .. w + halo}

(* docs/CPU_PARALLEL_KERNEL_POLICY.md, "Each output element has exactly    *)
(* one writer": parallel_for and parallel_for_tiles cut jobs and images    *)
(* into parts that overlap nowhere and miss nothing, for sizes that do not *)
(* divide, and a tile may read all it needs and nothing outside the image. *)
CutsAreExact == OneTaskPerItem /\ OneTilePerPixel /\ HaloIsNeighbourhood
=============================================================================
