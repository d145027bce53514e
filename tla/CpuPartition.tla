---------------------------- MODULE CpuPartition ----------------------------
(***************************************************************************)
(* How CpuParallelExecutor (include/digitor/cpu_parallel_executor.hpp)     *)
(* cuts work: contiguous ranges of items for parallel_for, chunks for      *)
(* deterministic_reduce, and output tiles with read halos.                 *)
(***************************************************************************)
EXTENDS Integers

Least(a, b) == IF a < b THEN a ELSE b
Most(a, b)  == IF a > b THEN a ELSE b

(* Pieces of at most a given size that n items need. *)
Pieces(n, size) == (n + size - 1) \div size

(* The number of tasks parallel_for makes of count items. *)
TaskCount(workers, count, grain) == Least(workers, Pieces(count, Most(1, grain)))

(* Mutant: equal shares, rounded up. *)
BoundRoundedUp(count, tasks, t) == Least(count, Pieces(count, tasks) * t)

(* Task t of tasks owns the items from Bound(t) up to but not Bound(t + 1). *)
Bound(count, tasks, t) == (count * t) \div tasks
TaskItems(count, tasks, t) ==
  Bound(count, tasks, t) .. Bound(count, tasks, t + 1) - 1

(* Along one axis: the output range of tile t and the range it may read.   *)
TileBegin(t, size)          == t * size
TileEnd(extent, t, size)    == Least(extent, TileBegin(t, size) + size)
ReadBegin(t, size, halo) ==
  IF TileBegin(t, size) > halo THEN TileBegin(t, size) - halo ELSE 0
ReadEnd(extent, t, size, halo) == Least(extent, TileEnd(extent, t, size) + halo)

(* Tile index of parallel_for_tiles as its column and row. *)
TileOf(width, size, index) ==
  LET columns == Pieces(width, size)
  IN [x |-> index % columns, y |-> index \div columns]
=============================================================================
