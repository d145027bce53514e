-------------------------- MODULE ExecutionProofs --------------------------
(***************************************************************************)
(* How work is cut up, ordered and run.                                    *)
(* For every number of items and tasks and every image: the cuts of        *)
(* parallel_for and parallel_for_tiles are partitions, and the halo of a   *)
(* tile is its neighbourhood. For every number of workers and submitters:  *)
(* as long as all jobs of several tasks have the same number of them, no   *)
(* item is processed twice and what parallel_for tells its caller is true. *)
(* For every render graph: running it in the order and in the memory that  *)
(* compile() chooses gives the results of running it as it was declared.   *)
(***************************************************************************)
EXTENDS ParallelExecutor, MCCpuPartition, RenderGraph, FiniteSetTheorems,
        WellFoundedInduction, TLAPS

LEMMA Quotient ==
  ASSUME NEW n \in Nat, NEW d \in Nat \ {0}
  PROVE  /\ n \div d \in Nat
         /\ d * (n \div d) <= n
         /\ n < d * (n \div d) + d
BY Z3

LEMMA Multiple ==
  ASSUME NEW a \in Nat, NEW b \in Nat
  PROVE  a * b \in Nat
OBVIOUS

LEMMA MultiplesGrow ==
  ASSUME NEW a \in Nat, NEW b \in Nat, NEW c \in Nat, a <= b
  PROVE  c * a <= c * b
OBVIOUS

(* The quotient n \div d lies below, or above, what it can be compared with. *)
LEMMA QuotientBelow ==
  ASSUME NEW n \in Nat, NEW d \in Nat \ {0}, NEW k \in Nat, n < d * k
  PROVE  n \div d < k
<1>1. n \div d \in Nat /\ d * (n \div d) <= n
  BY Quotient
<1>2. SUFFICES ASSUME k <= n \div d PROVE FALSE
  BY <1>1
<1>3. d * k <= d * (n \div d)
  BY <1>1, <1>2, MultiplesGrow
<1>. DEFINE q == d * (n \div d)
<1>4. d * k \in Nat /\ q \in Nat
  BY <1>1, Multiple
<1>. QED
  BY <1>1, <1>3, <1>4

LEMMA QuotientAbove ==
  ASSUME NEW n \in Nat, NEW d \in Nat \ {0}, NEW k \in Nat, d * k <= n
  PROVE  k <= n \div d
<1>1. n \div d \in Nat /\ n < d * (n \div d) + d
  BY Quotient
<1>2. SUFFICES ASSUME n \div d + 1 <= k PROVE FALSE
  BY <1>1
<1>3. d * (n \div d + 1) <= d * k
  BY <1>1, <1>2, MultiplesGrow
<1>4. d * (n \div d + 1) = d * (n \div d) + d
  BY <1>1
<1>5. d * k \in Nat /\ d * (n \div d) \in Nat
  BY <1>1, Multiple
<1>. QED
  BY <1>1, <1>3, <1>4, <1>5

LEMMA BoundType ==
  ASSUME NEW total \in Nat, NEW tasks \in Nat \ {0}, NEW t \in Nat
  PROVE  Bound(total, tasks, t) \in Nat
<1>1. total * t \in Nat
  BY Multiple
<1>. QED
  BY <1>1, Quotient DEF Bound

(* The bounds of the tasks are in order. *)
LEMMA BoundMonotone ==
  ASSUME NEW total \in Nat, NEW tasks \in Nat \ {0}, NEW s \in Nat, NEW t \in Nat,
         s <= t
  PROVE  Bound(total, tasks, s) <= Bound(total, tasks, t)
<1>1. total * s \in Nat /\ total * t \in Nat
  BY Multiple
<1>2. total * s <= total * t
  BY MultiplesGrow
<1>3. Bound(total, tasks, s) \in Nat
  BY BoundType
<1>4. tasks * Bound(total, tasks, s) <= total * s
  BY <1>1, Quotient DEF Bound
<1>5. tasks * Bound(total, tasks, s) \in Nat
  BY <1>3, Multiple
<1>6. tasks * Bound(total, tasks, s) <= total * t
  BY <1>1, <1>2, <1>4, <1>5
<1>. QED
  BY <1>1, <1>3, <1>6, QuotientAbove DEF Bound

(* parallel_for with any number of items and tasks: an item belongs to one *)
(* task and to no other ("a pixel is written by exactly one task").        *)
THEOREM ItemHasOneTask ==
  ASSUME NEW total \in Nat \ {0}, NEW tasks \in Nat \ {0}, NEW i \in 0..total - 1
  PROVE  \E t \in 0..tasks - 1 :
           /\ i \in TaskItems(total, tasks, t)
           /\ \A u \in 0..tasks - 1 : i \in TaskItems(total, tasks, u) => u = t
<1>. DEFINE scaled == tasks * (i + 1)
            t == (scaled - 1) \div total
<1>1. scaled \in Nat \ {0}
  BY Multiple
<1>2. t \in Nat /\ total * t <= scaled - 1 /\ scaled - 1 < total * t + total
  BY <1>1, Quotient
<1>3. total * t \in Nat /\ total * (t + 1) \in Nat
  BY <1>2, Multiple
<1>4. total * (t + 1) = total * t + total
  BY <1>2
<1>. HIDE DEF scaled, t
<1>5. t < tasks
  <2>1. scaled <= tasks * total
    BY i + 1 <= total, MultiplesGrow DEF scaled
  <2>2. tasks * total = total * tasks /\ total * tasks \in Nat
    BY Multiple
  <2>3. scaled - 1 < total * tasks
    BY <1>1, <2>1, <2>2
  <2>. QED
    BY <1>1, <2>3, QuotientBelow DEF t
<1>6. Bound(total, tasks, t) <= i
  <2>1. total * t < tasks * (i + 1)
    BY <1>1, <1>2, <1>3 DEF scaled
  <2>2. i + 1 \in Nat
    OBVIOUS
  <2>3. (total * t) \div tasks < i + 1
    BY <1>3, <2>1, <2>2, QuotientBelow
  <2>. QED
    BY <1>2, <2>3, BoundType DEF Bound
<1>7. i < Bound(total, tasks, t + 1)
  <2>1. tasks * (i + 1) <= total * (t + 1)
    BY <1>1, <1>2, <1>3, <1>4 DEF scaled
  <2>2. i + 1 \in Nat /\ t + 1 \in Nat
    BY <1>2
  <2>3. i + 1 <= (total * (t + 1)) \div tasks
    BY <1>3, <2>1, <2>2, QuotientAbove, Zenon
  <2>4. i + 1 <= Bound(total, tasks, t + 1) /\ Bound(total, tasks, t + 1) \in Nat
    BY <2>2, <2>3, BoundType, Zenon DEF Bound
  <2>. QED
    BY <2>4
<1>8. i \in TaskItems(total, tasks, t)
  BY <1>2, <1>6, <1>7, BoundType DEF TaskItems
<1>9. ASSUME NEW u \in 0..tasks - 1, i \in TaskItems(total, tasks, u)
      PROVE  u = t
  <2>0. u \in Nat /\ u + 1 \in Nat /\ t + 1 \in Nat /\ total \in Nat
    BY <1>2
  <2>1. Bound(total, tasks, u) <= i /\ i < Bound(total, tasks, u + 1)
    BY <1>9, BoundType DEF TaskItems
  <2>2. CASE u < t
    <3>1. Bound(total, tasks, u + 1) <= Bound(total, tasks, t)
      BY <1>2, <2>2, BoundMonotone
    <3>2. Bound(total, tasks, u + 1) \in Nat /\ Bound(total, tasks, t) \in Nat
      BY <1>2, <2>0, BoundType
    <3>. QED
      BY <1>6, <2>1, <3>1, <3>2
  <2>3. CASE t < u
    <3>1. Bound(total, tasks, t + 1) <= Bound(total, tasks, u)
      BY <1>2, <2>3, BoundMonotone
    <3>2. Bound(total, tasks, t + 1) \in Nat /\ Bound(total, tasks, u) \in Nat
      BY <1>2, <2>0, BoundType
    <3>. QED
      BY <1>7, <2>1, <3>1, <3>2
  <2>. QED
    BY <1>2, <2>2, <2>3
<1>. QED
  BY <1>2, <1>5, <1>8, <1>9

(* No task of parallel_for is empty: it never makes more tasks than items. *)
THEOREM TasksAreNotEmpty ==
  ASSUME NEW total \in Nat \ {0}, NEW tasks \in 1..total, NEW t \in 0..tasks - 1
  PROVE  TaskItems(total, tasks, t) # {}
<1>1. /\ Bound(total, tasks, t) \in Nat
      /\ Bound(total, tasks, t + 1) \in Nat
  <2>1. /\ total \in Nat /\ tasks \in Nat \ {0}
        /\ t \in Nat /\ t + 1 \in Nat
    OBVIOUS
  <2>. QED
    BY <2>1, BoundType
<1>2. total * t \in Nat /\ total * (t + 1) \in Nat
  BY Multiple
<1>3. tasks * Bound(total, tasks, t) <= total * t
  BY <1>2, Quotient DEF Bound
<1>4. total * (t + 1) = total * t + total
  <2>1. t \in Nat /\ total \in Nat
    OBVIOUS
  <2>. QED
    BY <2>1
<1>5. tasks * (Bound(total, tasks, t) + 1) = tasks * Bound(total, tasks, t) + tasks
  BY <1>1
<1>6. tasks * Bound(total, tasks, t) \in Nat
  BY <1>1, Multiple
<1>7. tasks * (Bound(total, tasks, t) + 1) <= total * (t + 1)
  BY <1>2, <1>3, <1>4, <1>5, <1>6
<1>8. Bound(total, tasks, t) + 1 <= Bound(total, tasks, t + 1)
  BY <1>1, <1>2, <1>7, QuotientAbove DEF Bound
<1>9. Bound(total, tasks, t) \in TaskItems(total, tasks, t)
  BY <1>1, <1>8 DEF TaskItems
<1>. QED
  BY <1>9

-----------------------------------------------------------------------------
(* Tiles. *)

LEMMA Remainder ==
  ASSUME NEW n \in Nat, NEW d \in Nat \ {0}
  PROVE  n % d \in 0..d - 1 /\ n = d * (n \div d) + (n % d)
BY Z3

(* A tile of an axis begins inside it. *)
LEMMA TileInside ==
  ASSUME NEW extent \in Nat \ {0}, NEW side \in Nat \ {0}, NEW t \in 0..Pieces(extent, side) - 1
  PROVE  TileBegin(t, side) \in 0..extent - 1
<1>. DEFINE n == extent + side - 1
<1>1. n \in Nat
  OBVIOUS
<1>2. Pieces(extent, side) = n \div side
  BY DEF Pieces
<1>. HIDE DEF n
<1>3. n \div side \in Nat /\ side * (n \div side) <= n
  BY <1>1, Quotient
<1>4. t \in Nat /\ t + 1 <= n \div side
  BY <1>2, <1>3
<1>5. side * (t + 1) <= side * (n \div side)
  BY <1>3, <1>4, MultiplesGrow
<1>6. side * (t + 1) = t * side + side /\ t * side \in Nat /\ side * (n \div side) \in Nat
  BY <1>3, <1>4, Multiple
<1>7. t * side + side <= n
  BY <1>1, <1>3, <1>5, <1>6
<1>. QED
  BY <1>6, <1>7 DEF n, TileBegin

(* Along an axis each pixel is in one tile. *)
LEMMA PixelHasOneStrip ==
  ASSUME NEW extent \in Nat \ {0}, NEW side \in Nat \ {0}, NEW p \in 0..extent - 1
  PROVE  /\ p \div side \in 0..Pieces(extent, side) - 1
         /\ \A t \in Nat :
              p \in TileBegin(t, side) .. TileEnd(extent, t, side) - 1 <=> t = p \div side
<1>1. p \in Nat /\ p \div side \in Nat /\ side * (p \div side) <= p /\ p < side * (p \div side) + side
  BY Quotient
<1>2. side * (p \div side + 1) = side * (p \div side) + side /\ side * (p \div side) \in Nat
  BY <1>1, Multiple
<1>3. side * (p \div side + 1) <= extent + side - 1
  BY <1>1, <1>2
<1>4. p \div side + 1 <= Pieces(extent, side)
  BY <1>1, <1>3, QuotientAbove DEF Pieces
<1>5. Pieces(extent, side) \in Nat
  BY Quotient DEF Pieces
<1>6. ASSUME NEW t \in Nat
      PROVE  p \in TileBegin(t, side) .. TileEnd(extent, t, side) - 1 <=> t = p \div side
  <2>1. t * side \in Nat /\ side * t = t * side
    BY Multiple
  <2>2. p \in TileBegin(t, side) .. TileEnd(extent, t, side) - 1 <=>
          side * t <= p /\ p < side * t + side
    BY <1>1, <2>1 DEF TileBegin, TileEnd, Least
  <2>3. ASSUME side * t <= p, p < side * t + side PROVE t = p \div side
    <3>1. t <= p \div side
      BY <1>1, <2>3, QuotientAbove
    <3>2. side * (t + 1) = side * t + side
      OBVIOUS
    <3>3. p \div side < t + 1
      BY <1>1, <2>3, <3>2, QuotientBelow
    <3>. QED
      BY <1>1, <3>1, <3>3
  <2>4. t = p \div side => side * t <= p /\ p < side * t + side
    BY <1>1
  <2>. QED
    BY <2>2, <2>3, <2>4
<1>. QED
  BY <1>1, <1>4, <1>5, <1>6

(* Column and row of a tile and its index determine each other. *)
LEMMA IndexOfTile ==
  ASSUME NEW columns \in Nat \ {0}, NEW rows \in Nat, NEW x \in 0..columns - 1, NEW y \in 0..rows - 1
  PROVE  /\ columns * y + x \in 0..columns * rows - 1
         /\ \A n \in Nat : n % columns = x /\ n \div columns = y <=> n = columns * y + x
<1>1. x \in Nat /\ y \in Nat /\ columns * y \in Nat /\ columns * rows \in Nat /\ y + 1 <= rows
  BY Multiple
<1>2. columns * (y + 1) = columns * y + columns /\ columns * (y + 1) <= columns * rows
  BY <1>1, MultiplesGrow
<1>3. columns * y + x \in 0..columns * rows - 1
  BY <1>1, <1>2
<1>4. \A n \in Nat : n % columns = x /\ n \div columns = y => n = columns * y + x
  BY Remainder
<1>5. ASSUME NEW n \in Nat, n = columns * y + x PROVE n % columns = x /\ n \div columns = y
  <2>1. /\ n \div columns \in Nat /\ n % columns \in 0..columns - 1
        /\ n = columns * (n \div columns) + (n % columns)
    BY Quotient, Remainder
  <2>2. n \div columns < y + 1
    BY <1>1, <1>2, <1>5, QuotientBelow
  <2>3. y <= n \div columns
    BY <1>1, <1>5, QuotientAbove
  <2>4. n \div columns = y
    BY <1>1, <2>1, <2>2, <2>3
  <2>. QED
    BY <1>1, <1>5, <2>1, <2>4
<1>. QED
  BY <1>3, <1>4, <1>5

\* The tile indices of an image.
TileIndices(width, height, side) == 0..Pieces(width, side) * Pieces(height, side) - 1

\* The tile with index n of an image writes the pixel in column x and row y.
TileWrites(width, height, side, n, x, y) ==
  /\ x \in TileBegin(TileOf(width, side, n).x, side)
             .. TileEnd(width, TileOf(width, side, n).x, side) - 1
  /\ y \in TileBegin(TileOf(width, side, n).y, side)
             .. TileEnd(height, TileOf(width, side, n).y, side) - 1

(* parallel_for_tiles on any image: each pixel is written by exactly one of *)
(* the tile indices that it hands out.                                      *)
THEOREM PixelHasOneTile ==
  ASSUME NEW width \in Nat \ {0}, NEW height \in Nat \ {0}, NEW side \in Nat \ {0},
         NEW x \in 0..width - 1, NEW y \in 0..height - 1
  PROVE  \E n \in TileIndices(width, height, side) :
           \A m \in Nat : TileWrites(width, height, side, m, x, y) <=> m = n
<1>. DEFINE columns == Pieces(width, side)
            rows == Pieces(height, side)
            n == columns * (y \div side) + (x \div side)
<1>1. x \div side \in 0..columns - 1 /\ y \div side \in 0..rows - 1
  BY PixelHasOneStrip
<1>2. columns \in Nat /\ rows \in Nat
  BY Quotient DEF Pieces
<1>3. columns # 0
  BY <1>1, <1>2
<1>4. \A m \in Nat : TileOf(width, side, m).x = m % columns /\ TileOf(width, side, m).y = m \div columns
  BY DEF TileOf
<1>. HIDE DEF columns, rows
<1>5. ASSUME NEW m \in Nat PROVE m % columns \in Nat /\ m \div columns \in Nat
  <2>1. m % columns \in 0..columns - 1
    BY <1>2, <1>3, Remainder
  <2>2. m \div columns \in Nat
    BY <1>2, <1>3, Quotient
  <2>. QED
    BY <1>2, <2>1, <2>2
<1>6. /\ n \in 0..columns * rows - 1
      /\ \A m \in Nat : m % columns = x \div side /\ m \div columns = y \div side <=> m = n
  <2>. DEFINE column == x \div side
              row == y \div side
  <2>1. column \in 0..columns - 1 /\ row \in 0..rows - 1
    BY <1>1
  <2>2. n = columns * row + column
    OBVIOUS
  <2>. HIDE DEF column, row, n
  <2>3. /\ columns * row + column \in 0..columns * rows - 1
        /\ \A m \in Nat : m % columns = column /\ m \div columns = row <=> m = columns * row + column
    BY <1>2, <1>3, <2>1, IndexOfTile
  <2>. QED
    BY <2>2, <2>3 DEF column, row
<1>7. ASSUME NEW m \in Nat
      PROVE  TileWrites(width, height, side, m, x, y) <=> m = n
  <2>1. x \in TileBegin(m % columns, side) .. TileEnd(width, m % columns, side) - 1
          <=> m % columns = x \div side
    BY <1>5, PixelHasOneStrip
  <2>2. y \in TileBegin(m \div columns, side) .. TileEnd(height, m \div columns, side) - 1
          <=> m \div columns = y \div side
    BY <1>5, PixelHasOneStrip
  <2>. HIDE DEF n
  <2>. QED
    BY <1>4, <1>6, <2>1, <2>2 DEF TileWrites
<1>. QED
  BY <1>6, <1>7 DEF columns, rows, TileIndices

(* What a tile may read is every pixel of the axis no further than the reach *)
(* from one it writes, and nothing else.                                    *)
THEOREM HaloIsTheNeighbourhood ==
  ASSUME NEW extent \in Nat \ {0}, NEW side \in Nat \ {0}, NEW reach \in Nat,
         NEW t \in 0..Pieces(extent, side) - 1
  PROVE  ReadBegin(t, side, reach) .. ReadEnd(extent, t, side, reach) - 1
           = {p \in 0..extent - 1 :
                \E w \in TileBegin(t, side) .. TileEnd(extent, t, side) - 1 :
                  p \in w - reach .. w + reach}
<1>. DEFINE begin == TileBegin(t, side)
            end == TileEnd(extent, t, side)
<1>1. begin \in 0..extent - 1
  BY TileInside
<1>2. end = Least(extent, begin + side)
  BY DEF TileEnd
<1>. HIDE DEF begin, end
<1>3. end \in Int /\ begin < end /\ end <= extent
  BY <1>1, <1>2 DEF Least
<1>4. /\ ReadBegin(t, side, reach) = IF begin > reach THEN begin - reach ELSE 0
      /\ ReadEnd(extent, t, side, reach) = Least(extent, end + reach)
  BY DEF begin, end, ReadBegin, ReadEnd
<1>5. ASSUME NEW p \in Int
      PROVE  p \in ReadBegin(t, side, reach) .. ReadEnd(extent, t, side, reach) - 1 <=>
               /\ 0 <= p /\ p < extent /\ begin - reach <= p /\ p < end + reach
  BY <1>1, <1>3, <1>4 DEF Least
<1>6. ASSUME NEW p \in Int
      PROVE  (\E w \in begin .. end - 1 : p \in w - reach .. w + reach) <=>
               begin - reach <= p /\ p < end + reach
  <2>1. ASSUME begin - reach <= p, p < end + reach
        PROVE  \E w \in begin .. end - 1 : p \in w - reach .. w + reach
    <3>1. CASE p < begin
      BY <1>1, <1>3, <2>1, <3>1
    <3>2. CASE begin <= p /\ p < end
      BY <1>1, <1>3, <2>1, <3>2
    <3>3. CASE end <= p
      <4>1. end - 1 \in begin .. end - 1
        BY <1>1, <1>3
      <4>2. p \in (end - 1) - reach .. (end - 1) + reach
        BY <1>1, <1>3, <2>1, <3>3
      <4>. QED
        BY <4>1, <4>2
    <3>. QED
      BY <1>1, <1>3, <3>1, <3>2, <3>3
  <2>2. ASSUME NEW w \in begin .. end - 1, p \in w - reach .. w + reach
        PROVE  begin - reach <= p /\ p < end + reach
    BY <1>1, <1>3, <2>2
  <2>. QED
    BY <2>1, <2>2
<1>7. ReadBegin(t, side, reach) \in Int /\ ReadEnd(extent, t, side, reach) \in Int
  BY <1>1, <1>3, <1>4 DEF Least
<1>8. \A p : p \in ReadBegin(t, side, reach) .. ReadEnd(extent, t, side, reach) - 1 <=>
               /\ p \in 0..extent - 1
               /\ \E w \in begin .. end - 1 : p \in w - reach .. w + reach
  <2>1. \A p : p \in ReadBegin(t, side, reach) .. ReadEnd(extent, t, side, reach) - 1 => p \in Int
    BY <1>7
  <2>2. \A p : p \in 0..extent - 1 <=> p \in Int /\ 0 <= p /\ p < extent
    OBVIOUS
  <2>. QED
    BY <1>5, <1>6, <2>1, <2>2
<1>. QED
  BY <1>8 DEF begin, end

-----------------------------------------------------------------------------
(* The cuts as MCCpuPartition states them. *)

LEMMA OnlyElement ==
  ASSUME NEW S, NEW x \in S, \A y \in S : y = x
  PROVE  Cardinality(S) = 1
<1>1. S = {x}
  OBVIOUS
<1>. QED
  BY <1>1, FS_Singleton

LEMMA PiecesType ==
  ASSUME NEW n \in Nat \ {0}, NEW side \in Nat \ {0}
  PROVE  Pieces(n, side) \in Nat \ {0}
<1>1. n + side - 1 \in Nat /\ side * 1 <= n + side - 1
  OBVIOUS
<1>2. 1 <= (n + side - 1) \div side
  BY <1>1, QuotientAbove
<1>. QED
  BY <1>1, <1>2, Quotient DEF Pieces

(* Pieces of at least one item are not more than the items. *)
LEMMA PiecesBound ==
  ASSUME NEW n \in Nat \ {0}, NEW side \in Nat \ {0}
  PROVE  Pieces(n, side) <= n
<1>1. n * 1 <= n * side /\ side * n = n * side /\ n * side \in Nat
  BY MultiplesGrow, Multiple
<1>2. side * (n + 1) = side * n + side
  OBVIOUS
<1>3. n + side - 1 \in Nat /\ n + side - 1 < side * (n + 1)
  BY <1>1, <1>2
<1>4. Pieces(n, side) < n + 1
  BY <1>3, QuotientBelow DEF Pieces
<1>. QED
  BY <1>4, PiecesType

LEMMA TaskCountBounds ==
  ASSUME NEW w \in Nat \ {0}, NEW n \in Nat \ {0}, NEW g \in Nat
  PROVE  TaskCount(w, n, g) \in 1..n /\ TaskCount(w, n, g) <= w
<1>1. Most(1, g) \in Nat \ {0}
  BY DEF Most
<1>2. Pieces(n, Most(1, g)) \in Nat \ {0} /\ Pieces(n, Most(1, g)) <= n
  BY <1>1, PiecesType, PiecesBound
<1>. QED
  BY <1>2 DEF TaskCount, Least

CutTyped ==
  /\ span \in Nat \ {0} /\ workers \in Nat \ {0} /\ grain \in Nat
  /\ edge \in Nat \ {0} /\ halo \in Nat

LEMMA TasksPartition == ASSUME CutTyped PROVE OneTaskPerItem
<1>. DEFINE cuts == TaskCount(workers, span, grain)
<1>1. cuts \in 1..span /\ cuts \in Nat \ {0} /\ span \in Nat \ {0}
  BY TaskCountBounds DEF CutTyped
<1>. HIDE DEF cuts
<1>2. ASSUME NEW i \in 0..span - 1 PROVE Cardinality(Owners(span, cuts, i)) = 1
  <2>1. PICK t \in 0..cuts - 1 :
          /\ i \in TaskItems(span, cuts, t)
          /\ \A u \in 0..cuts - 1 : i \in TaskItems(span, cuts, u) => u = t
    BY <1>1, ItemHasOneTask
  <2>. QED
    BY <2>1, OnlyElement DEF Owners
<1>3. \A t \in 0..cuts - 1 : TaskItems(span, cuts, t) # {}
  BY <1>1, TasksAreNotEmpty
<1>. QED
  BY <1>2, <1>3 DEF OneTaskPerItem, cuts

LEMMA PixelHasOneIndex ==
  ASSUME NEW width \in Nat \ {0}, NEW height \in Nat \ {0}, NEW side \in Nat \ {0},
         NEW x \in 0..width - 1, NEW y \in 0..height - 1
  PROVE  Cardinality({n \in 0..Pieces(width, side) * Pieces(height, side) - 1 :
            /\ x \in TileBegin(TileOf(width, side, n).x, side)
                       .. TileEnd(width, TileOf(width, side, n).x, side) - 1
            /\ y \in TileBegin(TileOf(width, side, n).y, side)
                       .. TileEnd(height, TileOf(width, side, n).y, side) - 1}) = 1
<1>1. PICK n \in TileIndices(width, height, side) :
        \A m \in Nat : TileWrites(width, height, side, m, x, y) <=> m = n
  BY PixelHasOneTile
<1>. DEFINE tiles == TileIndices(width, height, side)
            Writes(m) == TileWrites(width, height, side, m, x, y)
<1>2. \A m \in tiles : m \in Nat
  BY PiecesType, Multiple DEF TileIndices
<1>3. n \in tiles /\ \A m \in Nat : Writes(m) <=> m = n
  BY <1>1
<1>. HIDE DEF Writes, tiles
<1>. DEFINE writers == {m \in tiles : Writes(m)}
<1>4. n \in writers /\ \A m \in writers : m = n
  BY <1>2, <1>3
<1>5. Cardinality(writers) = 1
  <2>. HIDE DEF writers
  <2>. QED
    BY <1>4, OnlyElement
<1>. QED
  BY <1>5 DEF Writes, tiles, TileWrites, TileIndices

LEMMA TilesPartition == ASSUME CutTyped PROVE OneTilePerPixel
<1>1. span \in Nat \ {0} /\ grain + 1 \in Nat \ {0} /\ edge \in Nat \ {0}
  BY DEF CutTyped
<1>. QED
  BY <1>1, PixelHasOneIndex DEF OneTilePerPixel

LEMMA HalosFit == ASSUME CutTyped PROVE HaloIsNeighbourhood
<1>1. span \in Nat \ {0} /\ edge \in Nat \ {0} /\ halo \in Nat
  BY DEF CutTyped
<1>. QED
  BY <1>1, HaloIsTheNeighbourhood DEF HaloIsNeighbourhood

(* Every cut of every job and image, whatever the bounds of the instance:  *)
(* one task for an item, one tile for a pixel, and halos that neither leave *)
(* the image nor miss a neighbour (parallel_for, parallel_for_tiles).      *)
THEOREM EveryCutIsExact == CutSpec => []CutsAreExact
<1>1. CutInit => CutTyped
  BY CutAssumption DEF CutInit, CutTyped
<1>2. CutTyped /\ [CutNext]_cut => CutTyped'
  BY DEF CutTyped, CutNext, cut
<1>3. CutTyped => CutsAreExact
  BY TasksPartition, TilesPartition, HalosFit DEF CutsAreExact
<1>. QED
  BY <1>1, <1>2, <1>3, PTL DEF CutSpec

-----------------------------------------------------------------------------
(* Types of the executor. *)

\* The number of tasks that parallel_for makes of n items.
Tasks(n) == TaskCount(Cardinality(Workers), n, 1)

LEMMA Sizes ==
  /\ Cardinality(Workers) \in Nat \ {0}
  /\ \A n \in Counts : Tasks(n) \in 1..Cardinality(Workers) /\ Tasks(n) \in 1..n
  /\ Wrap \in Nat /\ Cardinality(Workers) \in 0..Wrap - 1
<1>1. Cardinality(Workers) \in Nat \ {0}
  BY ExecutorAssumption, FS_CardinalityType, FS_EmptySet
<1>2. \A n \in Counts : TaskCount(Cardinality(Workers), n, 1) \in 1..n
                        /\ TaskCount(Cardinality(Workers), n, 1) <= Cardinality(Workers)
  BY <1>1, ExecutorAssumption, TaskCountBounds
<1>3. Wrap \in Nat /\ Wrap > Cardinality(Workers)
  BY ExecutorAssumption
<1>. HIDE DEF TaskCount
<1>. QED
  BY <1>1, <1>2, <1>3, ExecutorAssumption DEF Tasks

LEMMA ItemsOfTask ==
  ASSUME NEW n \in Nat \ {0}, NEW tasks \in Nat \ {0}, NEW k \in Nat, k < tasks
  PROVE  TaskItems(n, tasks, k) \subseteq 0..n - 1
<1>1. Bound(n, tasks, k) \in Nat /\ Bound(n, tasks, k + 1) \in Nat
  BY k + 1 \in Nat, BoundType
<1>2. n * (k + 1) <= tasks * n /\ n * (k + 1) \in Nat
  <2>1. PICK l \in Nat : l = k + 1
    OBVIOUS
  <2>2. l <= tasks
    BY <2>1
  <2>3. n * l <= n * tasks /\ n * tasks = tasks * n /\ n * l \in Nat
    BY <2>2, MultiplesGrow, Multiple
  <2>. QED
    BY <2>1, <2>3
<1>3. tasks * (n + 1) = tasks * n + tasks /\ tasks * n \in Nat
  BY Multiple
<1>4. n * (k + 1) < tasks * (n + 1)
  BY <1>2, <1>3
<1>5. Bound(n, tasks, k + 1) < n + 1
  BY <1>2, <1>4, QuotientBelow DEF Bound
<1>. QED
  BY <1>1, <1>5 DEF TaskItems

(* The items of a job are among those that the history counts. *)
LEMMA ItemsOf ==
  ASSUME NEW n \in Counts
  PROVE  /\ 0..n - 1 \subseteq Items
         /\ \A tasks \in Nat \ {0}, k \in Nat : k < tasks => TaskItems(n, tasks, k) \subseteq Items
<1>. DEFINE m == CHOOSE l \in Counts : \A k \in Counts : k <= l
<1>1. m \in Counts /\ n <= m /\ m \in Nat /\ n \in Nat \ {0}
  BY ExecutorAssumption
<1>2. Items = 0..m
  BY DEF Items
<1>. HIDE DEF m
<1>3. 0..n - 1 \subseteq Items
  BY <1>1, <1>2
<1>. QED
  BY <1>1, <1>3, ItemsOfTask

-----------------------------------------------------------------------------
(* The invariant. *)

\* All jobs of several tasks have the same number of them.
SameTasks == \A m, n \in Counts : Tasks(m) > 1 /\ Tasks(n) > 1 => Tasks(m) = Tasks(n)

HolderPCs == {"publish", "publishNext", "publishRemaining", "testDone", "block", "blocked",
              "collect"} \cup TaskPCs

\* From the reset of next_task_ to the end of the call that holds submission_mutex_.
UnderWay == submission # None /\ pc[submission] \notin {"publish", "publishNext"}
Holds(t) == pc[t] \in {"compare", "run", "catch", "subtract"}

Untouched(j) == j \notin thrown /\ \A i \in Items : ran[j][i] = 0

\* Each call under way has a job of its own; its function runs when its turn comes.
Caller(s) ==
  /\ pc[s] \in HolderPCs <=> submission = s
  /\ pc[s] # "idle" => /\ mine[s] \in Jobs /\ result[mine[s]] = "open"
                       /\ size[mine[s]] \in Counts
  /\ pc[s] \notin {"idle", "serial"} => Tasks(size[mine[s]]) > 1
  /\ pc[s] \in {"serial", "lockSubmission", "publish", "publishNext"} => Untouched(mine[s])
Callers ==
  /\ \A s \in Submitters : Caller(s)
  /\ \A s, r \in Submitters : s # r /\ pc[s] # "idle" /\ pc[r] # "idle" => mine[s] # mine[r]
  /\ \A j \in Jobs : result[j] = None => Untouched(j)

Published ==
  submission # None /\ pc[submission] # "publish" =>
    job = mine[submission] /\ count = size[job] /\ taskCount = Tasks(count)

\* Between jobs a straggler finds a number past the end, whichever job comes next.
Asleep == \A w \in Workers :
            pc[w] \in {"wait", "gone"} /\ (stopping \/ observed[w] = generation)
SameCount == \A n \in Counts : Tasks(n) > 1 => taskCount \in {0, Tasks(n)}
Stale == \A t \in Threads : Holds(t) => pc[t] = "compare" /\ task[t] >= taskCount
Between == ~ UnderWay => (Asleep \/ (nextTask >= taskCount /\ taskCount > 0)) /\ Stale

\* In a job each number below task_count_ is fetched once.
Numbered == UnderWay =>
  /\ \A t \in Threads : Holds(t) /\ task[t] < taskCount => task[t] < nextTask
  /\ \A t \in Threads : Holds(t) /\ pc[t] # "compare" => task[t] < taskCount
  /\ \A t, u \in Threads :
       t # u /\ Holds(t) /\ Holds(u) /\ task[t] = task[u] => task[t] >= taskCount

RunsTask == \A t \in Threads :
  running[t] = IF pc[t] = "run"
               THEN [job |-> job, items |-> TaskItems(count, taskCount, task[t])] ELSE Idle

\* The items of a task are untouched until it has run, and processed from then on.
Pending(k) == k >= nextTask \/ \E t \in Threads : pc[t] \in {"compare", "run"} /\ task[t] = k
Written == UnderWay => \A k \in 0..taskCount - 1 :
  /\ Pending(k) => \A i \in TaskItems(count, taskCount, k) : ran[job][i] = 0
  /\ ~ Pending(k) => job \in thrown \/ \A i \in TaskItems(count, taskCount, k) : ran[job][i] # 0

Recorded == job \in thrown <=> exception \/ \E t \in Threads : pc[t] = "catch"
Caught ==
  /\ UnderWay => Recorded
  /\ submission # None /\ pc[submission] = "publishNext" => ~ exception

\* The counter never falls below the tasks that are not done: steps that are lost
\* because remaining_ is stored late only make the call wait.
Unfinished == {k \in 0..taskCount - 1 : k >= nextTask \/ \E t \in Threads : Holds(t) /\ task[t] = k}
Counted ==
  /\ UnderWay /\ pc[submission] # "publishRemaining" => Cardinality(Unfinished) <= remaining
  /\ submission # None /\ pc[submission] = "collect" => remaining = 0

Phases == Callers /\ Published /\ SameCount /\ Between /\ Numbered
IInv   == TypeOK /\ Phases /\ RunsTask /\ Written /\ Caught /\ Counted /\ OneOwner /\ ReturnIsTrue

LEMMA InitEstablishes == Init => IInv
<1>. SUFFICES ASSUME Init PROVE IInv
  OBVIOUS
<1>. USE ExecutorAssumption DEF Init
<1>1. TypeOK
  <2>1. 0 \in 0..Cardinality(Workers) /\ 0 \in 0..Wrap - 1 /\ 0 \in 0..MaxJobs /\ MaxJobs \in Nat
    BY Sizes
  <2>2. Idle \in [job : 0..MaxJobs, items : SUBSET Int]
    BY <2>1 DEF Idle
  <2>3. pc \in [Threads -> SubmitterPCs \cup WorkerPCs \cup TaskPCs]
    BY DEF SubmitterPCs, WorkerPCs
  <2>4. running \in [Threads -> [job : 0..MaxJobs, items : SUBSET Int]] /\ task \in [Threads -> Nat]
    BY <2>2
  <2>5. observed \in [Workers -> Nat] /\ mine \in [Submitters -> 0..MaxJobs]
        /\ size \in [Jobs -> Counts \cup {0}] /\ ran \in [Jobs -> [Items -> Nat]]
        /\ result \in [Jobs -> {None, "open", "ok", "error"}]
    BY <2>1
  <2>. QED
    BY <2>1, <2>3, <2>4, <2>5 DEF TypeOK
<1>2. ~ UnderWay /\ submission = None
  BY DEF UnderWay
<1>3. \A t \in Threads : pc[t] \in {"wait", "idle"} /\ (t \in Workers => pc[t] = "wait")
                         /\ (t \in Submitters => pc[t] = "idle")
  BY DEF Threads
<1>4. Callers
  BY <1>2, <1>3 DEF Callers, Caller, HolderPCs, TaskPCs, Untouched, None, Threads
<1>5. Published /\ SameCount /\ Numbered /\ Written /\ Caught /\ Counted
  BY <1>2 DEF Published, SameCount, Numbered, Written, Caught, Counted
<1>6. Between
  BY <1>3 DEF Between, Asleep, Stale, Holds, Threads
<1>7. RunsTask
  BY <1>3 DEF RunsTask
<1>8. OneOwner /\ ReturnIsTrue
  BY DEF OneOwner, ReturnIsTrue, CompleteOnReturn, ExceptionsReachCaller, None
<1>. QED
  BY <1>1, <1>4, <1>5, <1>6, <1>7, <1>8 DEF IInv, Phases

-----------------------------------------------------------------------------
(* What a step does to the program counters. *)

Known == SubmitterPCs \cup WorkerPCs \cup TaskPCs

LEMMA Went ==
  ASSUME TypeOK, NEW t \in Threads, NEW where \in Known, Goto(t, where)
  PROVE  /\ pc' \in [Threads -> Known] /\ pc'[t] = where
         /\ \A u \in Threads : u # t => pc'[u] = pc[u]
BY DEF Goto, TypeOK, Known

LEMMA RanTyped ==
  ASSUME TypeOK, NEW j \in Jobs, NEW items
  PROVE  /\ RanOnce(j, items) \in [Jobs -> [Items -> Nat]]
         /\ \A k \in Jobs : k # j => RanOnce(j, items)[k] = ran[k]
         /\ \A i \in Items : RanOnce(j, items)[j][i] = IF i \in items THEN ran[j][i] + 1 ELSE ran[j][i]
<1>1. ran \in [Jobs -> [Items -> Nat]]
  BY DEF TypeOK
<1>2. [i \in Items |-> IF i \in items THEN ran[j][i] + 1 ELSE ran[j][i]] \in [Items -> Nat]
  BY <1>1
<1>. QED
  BY <1>1, <1>2 DEF RanOnce

-----------------------------------------------------------------------------
(* Calls that wait for their turn. *)

LEMMA Places ==
  /\ {"idle", "serial", "lockSubmission", "publish", "publishNext", "publishRemaining", "testDone",
      "block", "blocked", "collect", "wait", "gone", "fetch", "compare", "run", "catch",
      "subtract", "notify"} \subseteq Known
  /\ "idle" \notin HolderPCs /\ "serial" \notin HolderPCs /\ "lockSubmission" \notin HolderPCs
BY DEF Known, HolderPCs, SubmitterPCs, WorkerPCs, TaskPCs

\* What threads do outside of execute_tasks does not matter to the tasks.
SameHolders ==
  \A t \in Threads : \A p \in {"compare", "run", "catch", "subtract"} : pc'[t] = p <=> pc[t] = p

LEMMA TasksStay ==
  ASSUME SameHolders, UnderWay' <=> UnderWay,
         UNCHANGED <<count, taskCount, job, exception, nextTask, task, running>>,
         UnderWay => ran'[job] = ran[job] /\ (job \in thrown' <=> job \in thrown)
  PROVE  /\ Numbered => Numbered'
         /\ Written => Written'
         /\ RunsTask => RunsTask'
         /\ Stale => Stale'
         /\ UnderWay /\ Recorded => Recorded'
         /\ Unfinished' = Unfinished
<1>1. \A t \in Threads : /\ Holds(t)' <=> Holds(t)
                         /\ pc'[t] = "compare" <=> pc[t] = "compare"
                         /\ pc'[t] = "run" <=> pc[t] = "run"
                         /\ pc'[t] = "catch" <=> pc[t] = "catch"
                         /\ pc'[t] \in {"compare", "run"} <=> pc[t] \in {"compare", "run"}
  BY DEF SameHolders, Holds
<1>2. Numbered => Numbered'
  BY <1>1 DEF Numbered
<1>3. ASSUME NEW k PROVE Pending(k)' <=> Pending(k)
  BY <1>1 DEF Pending
<1>4. Written => Written'
  BY <1>3 DEF Written
<1>5. RunsTask => RunsTask'
  BY <1>1 DEF RunsTask
<1>6. (Stale => Stale') /\ (UnderWay /\ Recorded => Recorded')
  BY <1>1 DEF Stale, Recorded
<1>7. \A k \in 0..taskCount - 1 :
        (\E t \in Threads : Holds(t)' /\ task[t] = k) <=> (\E t \in Threads : Holds(t) /\ task[t] = k)
  BY <1>1
<1>8. Unfinished' = Unfinished
  BY <1>7 DEF Unfinished
<1>. QED
  BY <1>2, <1>4, <1>5, <1>6, <1>8

(* Calls keep their jobs while a thread t works on job j. *)
LEMMA CallersStay ==
  ASSUME Callers, NEW t \in Threads, NEW j, UNCHANGED <<mine, size>>,
         \A u \in Threads : u # t => pc'[u] = pc[u] \/ (pc[u] = "blocked" /\ pc'[u] = "testDone"),
         \A r \in Submitters : r # t => (submission' = r <=> submission = r),
         \A k \in Jobs : k # j => ran'[k] = ran[k] /\ (k \in thrown' <=> k \in thrown)
                                  /\ result'[k] = result[k],
         j \in Jobs => result'[j] # None,
         t \in Submitters => Caller(t)' /\ (pc[t] = "idle" => pc'[t] = "idle"),
         \A r \in Submitters : r # t /\ pc[r] # "idle" /\ mine[r] = j =>
           pc[r] \notin {"serial", "lockSubmission", "publish", "publishNext"} /\ result'[j] = "open"
  PROVE  Callers'
<1>1. ASSUME NEW r \in Submitters, r # t
      PROVE  Caller(r)' /\ (pc[r] = "idle" => pc'[r] = "idle")
  <2>1. Caller(r) /\ r \in Threads
    BY DEF Callers, Threads
  <2>2. pc'[r] = pc[r] \/ (pc[r] = "blocked" /\ pc'[r] = "testDone")
    BY <1>1, <2>1
  <2>3. "blocked" \in HolderPCs /\ "testDone" \in HolderPCs
    BY DEF HolderPCs
  <2>4. pc'[r] \in HolderPCs <=> submission' = r
    BY <1>1, <2>1, <2>2, <2>3 DEF Caller
  <2>5. CASE mine[r] = j
    BY <1>1, <2>1, <2>2, <2>4, <2>5 DEF Caller
  <2>6. CASE mine[r] # j
    BY <1>1, <2>1, <2>2, <2>4, <2>6 DEF Caller, Untouched
  <2>. QED
    BY <2>2, <2>5, <2>6
<1>2. \A r \in Submitters : Caller(r)' /\ (pc[r] = "idle" => pc'[r] = "idle")
  BY <1>1
<1>3. \A r, q \in Submitters : r # q /\ pc'[r] # "idle" /\ pc'[q] # "idle" => mine'[r] # mine'[q]
  BY <1>2 DEF Callers
<1>4. \A k \in Jobs : result'[k] = None => Untouched(k)'
  BY DEF Callers, Untouched
<1>. QED
  BY <1>2, <1>3, <1>4 DEF Callers

(* The job that a thread is inside of. *)
LEMMA RunningJob ==
  ASSUME RunsTask, NEW t \in Threads
  PROVE  running[t].job = IF pc[t] = "run" THEN job ELSE 0
<1>. DEFINE tasks == [job |-> job, items |-> TaskItems(count, taskCount, task[t])]
<1>1. tasks.job = job /\ Idle.job = 0
  BY DEF Idle
<1>2. running[t] = IF pc[t] = "run" THEN tasks ELSE Idle
  BY DEF RunsTask
<1>. QED
  BY <1>1, <1>2

(* The job that is under way. *)
LEMMA JobUnderWay ==
  ASSUME TypeOK, Callers, Published, submission # None, pc[submission] # "publish"
  PROVE  /\ submission \in Submitters /\ submission \in Threads /\ pc[submission] \in HolderPCs
         /\ job = mine[submission] /\ job \in Jobs /\ job # 0 /\ result[job] = "open"
         /\ count = size[job] /\ count \in Counts /\ count \in Nat \ {0}
         /\ taskCount = Tasks(count) /\ taskCount \in Nat \ {0} /\ taskCount > 1
         /\ \A r \in Submitters :
              /\ r # submission /\ pc[r] # "idle" => mine[r] # job
              /\ pc[r] \in {"serial", "lockSubmission"} => mine[r] # job
<1>1. submission \in Submitters /\ submission \in Threads
  BY DEF TypeOK, Threads
<1>2. Caller(submission)
  BY <1>1 DEF Callers
<1>3. pc[submission] \in HolderPCs
  BY <1>1, <1>2 DEF Caller
<1>4. pc[submission] # "idle" /\ pc[submission] \notin {"idle", "serial"} /\ job = mine[submission] /\ count = size[job]
      /\ taskCount = Tasks(count)
  BY <1>3, Places DEF Published
<1>5. job \in Jobs /\ result[job] = "open" /\ count \in Counts /\ taskCount > 1
  BY <1>2, <1>4 DEF Caller
<1>6. job # 0 /\ count \in Nat \ {0}
  BY <1>5, ExecutorAssumption DEF Jobs
<1>7. taskCount \in Nat \ {0}
  BY <1>4, <1>5, Sizes
<1>8. \A r \in Submitters : r # submission /\ pc[r] # "idle" => mine[r] # job
  BY <1>1, <1>4 DEF Callers
<1>9. \A r \in Submitters : pc[r] \in {"serial", "lockSubmission"} => r # submission
  BY <1>3, Places
<1>. QED
  BY <1>1, <1>3, <1>4, <1>5, <1>6, <1>7, <1>8, <1>9

LEMMA SubmitKeeps == ASSUME IInv, NEW s \in Submitters, NEW n \in Counts, Submit(s, n) PROVE IInv'
<1>. USE DEF IInv, Phases
<1>1. PICK j \in Jobs :
        /\ result[j] = None /\ mine' = [mine EXCEPT ![s] = j]
        /\ size' = [size EXCEPT ![j] = n] /\ result' = [result EXCEPT ![j] = "open"]
  BY DEF Submit
<1>2. /\ pc[s] = "idle" /\ UNCHANGED <<count, taskCount, job, exception, nextTask, remaining,
           generation, stopping, mutex, submission, task, running, observed, ran, thrown>>
      /\ Goto(s, IF Tasks(n) <= 1 THEN "serial" ELSE "lockSubmission")
  BY DEF Submit, sharedVars, Tasks
<1>3. PICK where \in {"serial", "lockSubmission"} :
        /\ Goto(s, where) /\ where \in Known
        /\ where = "lockSubmission" => Tasks(n) > 1
  <2>1. Tasks(n) \in Nat
    BY Sizes
  <2>. QED
    BY <1>2, <2>1, Places
<1>4. pc' \in [Threads -> Known] /\ pc'[s] = where /\ \A u \in Threads : u # s => pc'[u] = pc[u]
  <2>1. s \in Threads /\ where \in Known /\ Goto(s, where)
    BY <1>3 DEF Threads
  <2>. QED
    BY <2>1, Went
<1>5. /\ j \in 0..MaxJobs /\ mine'[s] = j /\ size'[j] = n /\ result'[j] = "open"
      /\ \A r \in Submitters : r # s => mine'[r] = mine[r]
      /\ \A k \in Jobs : k # j => size'[k] = size[k] /\ result'[k] = result[k]
  BY <1>1, ExecutorAssumption DEF TypeOK, Jobs
<1>6. TypeOK'
  BY <1>1, <1>2, <1>4, <1>5 DEF TypeOK, Known
<1>7. submission # s
  BY <1>2, Places DEF Callers, Caller
<1>8. UnderWay' <=> UnderWay
  BY <1>2, <1>4, <1>7 DEF UnderWay, TypeOK, Threads
<1>9. SameHolders
  BY <1>2, <1>3, <1>4 DEF SameHolders
<1>10. \A r \in Submitters : r # s /\ pc[r] # "idle" => mine[r] # j
  BY <1>1 DEF Callers, Caller, None
<1>11. Callers'
  <2>1. ASSUME NEW r \in Submitters, r # s
        PROVE  pc'[r] = pc[r] /\ mine'[r] = mine[r]
    BY <1>4, <1>5, <2>1 DEF Threads
  <2>2. Untouched(j)
    BY <1>1 DEF Callers
  <2>3. Caller(s)'
    BY <1>2, <1>3, <1>4, <1>5, <1>7, <2>2, Places DEF Caller, Untouched, Tasks
  <2>4. ASSUME NEW r \in Submitters, r # s
        PROVE  Caller(r)'
    <3>1. Caller(r) /\ pc'[r] = pc[r] /\ mine'[r] = mine[r]
      BY <2>1, <2>4 DEF Callers
    <3>2. pc[r] # "idle" => size'[mine[r]] = size[mine[r]] /\ result'[mine[r]] = result[mine[r]]
      BY <1>5, <1>10, <2>4, <3>1 DEF Caller
    <3>. QED
      BY <1>2, <3>1, <3>2 DEF Caller, Untouched, Tasks
  <2>5. \A r, q \in Submitters : r # q /\ pc'[r] # "idle" /\ pc'[q] # "idle" => mine'[r] # mine'[q]
    BY <1>5, <1>10, <2>1 DEF Callers
  <2>6. \A k \in Jobs : result'[k] = None => Untouched(k)'
    BY <1>2, <1>5 DEF Callers, Untouched, None
  <2>. QED
    BY <2>3, <2>4, <2>5, <2>6 DEF Callers
<1>12. submission # None => /\ submission \in Submitters /\ pc[submission] # "idle"
                            /\ mine'[submission] = mine[submission] /\ mine[submission] # j
                            /\ pc'[submission] = pc[submission]
  BY <1>2, <1>4, <1>5, <1>7, <1>10, Places DEF Callers, Caller, TypeOK, Threads
<1>13. Published'
  BY <1>2, <1>5, <1>12 DEF Published, Callers, Caller, Tasks
<1>14. SameCount' /\ Between' /\ Numbered' /\ Written' /\ RunsTask'
  <2>1. SameCount'
    BY <1>2 DEF SameCount, Tasks
  <2>2. Asleep => Asleep'
    BY <1>2, <1>3, <1>4, ExecutorAssumption DEF Asleep, Threads
  <2>. QED
    BY <1>2, <1>8, <1>9, <2>1, <2>2, TasksStay DEF Between
<1>15. Caught' /\ Counted'
  <2>1. UnderWay /\ Recorded => Recorded'
    BY <1>2, <1>8, <1>9, TasksStay
  <2>2. Unfinished' = Unfinished
    BY <1>2, <1>8, <1>9, TasksStay
  <2>3. Caught'
    BY <1>2, <1>8, <1>12, <2>1 DEF Caught
  <2>4. Counted'
    BY <1>2, <1>8, <1>12, <2>2 DEF Counted, UnderWay
  <2>. QED
    BY <2>3, <2>4
<1>16. OneOwner' /\ ReturnIsTrue'
  BY <1>1, <1>2, <1>5 DEF OneOwner, ReturnIsTrue, CompleteOnReturn, ExceptionsReachCaller
<1>. QED
  BY <1>6, <1>11, <1>13, <1>14, <1>15, <1>16

LEMMA SerialKeeps == ASSUME IInv, NEW s \in Submitters, Serial(s) PROVE IInv'
<1>. USE DEF IInv, Phases
<1>. DEFINE j == mine[s]
            items == 0..size[j] - 1
<1>1. /\ pc[s] = "serial" /\ Goto(s, "idle") /\ s \in Threads
      /\ UNCHANGED <<count, taskCount, job, exception, nextTask, remaining, generation, stopping,
                     mutex, submission, task, running, observed, mine, size>>
      /\ ran' = RanOnce(j, Processed(items))
  BY DEF Serial, sharedVars, threadVars, Threads
<1>2. \/ /\ Throwing \cap items = {} /\ thrown' = thrown
         /\ result' = [result EXCEPT ![j] = "ok"]
      \/ /\ Throwing \cap items # {} /\ thrown' = thrown \cup {j}
         /\ result' = [result EXCEPT ![j] = "error"]
  BY DEF Serial
<1>3. j \in Jobs /\ size[j] \in Counts /\ result[j] = "open" /\ Untouched(j) /\ submission # s
  BY <1>1, Places DEF Callers, Caller
<1>4. pc' \in [Threads -> Known] /\ pc'[s] = "idle" /\ \A u \in Threads : u # s => pc'[u] = pc[u]
  BY <1>1, Went, Places
<1>5. Processed(items) \subseteq items /\ items \subseteq Items
      /\ (Throwing \cap items = {} => Processed(items) = items)
  <2>1. items \subseteq Items
    BY <1>3, ItemsOf
  <2>. HIDE DEF items
  <2>. QED
    BY <2>1 DEF Processed
<1>6. /\ ran' \in [Jobs -> [Items -> Nat]] /\ \A k \in Jobs : k # j => ran'[k] = ran[k]
      /\ \A i \in Items : ran'[j][i] = IF i \in Processed(items) THEN ran[j][i] + 1 ELSE ran[j][i]
  BY <1>1, <1>3, RanTyped
<1>7. /\ result' \in [Jobs -> {None, "open", "ok", "error"}] /\ result'[j] \in {"ok", "error"}
      /\ \A k \in Jobs : k # j => result'[k] = result[k] /\ (k \in thrown' <=> k \in thrown)
      /\ thrown' \subseteq Jobs /\ (result'[j] = "error" <=> j \in thrown')
      /\ (j \notin thrown' => Throwing \cap items = {})
  BY <1>2, <1>3 DEF TypeOK, Untouched
<1>. HIDE DEF j, items
<1>8. TypeOK'
  BY <1>1, <1>4, <1>6, <1>7 DEF TypeOK, Known
<1>9. UnderWay' <=> UnderWay
  BY <1>1, <1>3, <1>4 DEF UnderWay, TypeOK, Threads
<1>10. SameHolders
  BY <1>1, <1>4 DEF SameHolders
<1>11. submission # None =>
         /\ pc'[submission] = pc[submission]
         /\ pc[submission] # "publish" => j # job
  <2>1. submission # None => pc'[submission] = pc[submission]
    BY <1>3, <1>4 DEF TypeOK, Threads
  <2>. QED
    BY <1>1, <2>1, JobUnderWay DEF j
<1>12. UnderWay => ran'[job] = ran[job] /\ (job \in thrown' <=> job \in thrown)
  BY <1>6, <1>7, <1>11, JobUnderWay DEF UnderWay
<1>13. Callers'
  <2>1. Caller(s)'
    BY <1>1, <1>3, <1>4, Places DEF Caller
  <2>2. \A r \in Submitters : r # s /\ pc[r] # "idle" => mine[r] # j
    BY <1>1 DEF Callers, j
  <2>. QED
    BY <1>1, <1>3, <1>4, <1>6, <1>7, <2>1, <2>2, CallersStay DEF None
<1>14. Published' /\ SameCount'
  BY <1>1, <1>11 DEF Published, SameCount, Tasks
<1>15. Between' /\ Numbered' /\ Written' /\ RunsTask'
  <2>1. Asleep => Asleep'
    BY <1>1, <1>4, ExecutorAssumption DEF Asleep, Threads
  <2>. QED
    BY <1>1, <1>9, <1>10, <1>12, <2>1, TasksStay DEF Between
<1>16. Caught'
  <2>1. UnderWay /\ Recorded => Recorded'
    BY <1>1, <1>9, <1>10, <1>12, TasksStay
  <2>. QED
    BY <1>1, <1>9, <1>11, <2>1 DEF Caught
<1>17. Counted'
  <2>1. Unfinished' = Unfinished
    BY <1>1, <1>9, <1>10, <1>12, TasksStay
  <2>. QED
    BY <1>1, <1>9, <1>11, <2>1 DEF Counted, UnderWay
<1>18. OneOwner'
  BY <1>3, <1>5, <1>6 DEF OneOwner, Untouched
<1>19. ReturnIsTrue'
  <2>1. ASSUME NEW t \in Threads PROVE running[t].job # j
    <3>1. CASE pc[t] = "run"
      <4>1. submission # None /\ pc[submission] # "publish"
        BY <3>1 DEF Between, Stale, Holds, UnderWay
      <4>. QED
        BY <1>11, <3>1, <4>1, RunningJob
    <3>2. CASE pc[t] # "run"
      <4>1. j # 0
        BY <1>3, ExecutorAssumption DEF Jobs
      <4>. QED
        BY <3>2, <4>1, RunningJob
    <3>. QED
      BY <3>1, <3>2
  <2>2. ASSUME j \notin thrown' PROVE \A i \in 0..size[j] - 1 : ran'[j][i] # 0
    <3>1. \A i \in items : i \in Items /\ i \in Processed(items) /\ ran[j][i] = 0
      BY <1>3, <1>5, <1>7, <2>2 DEF Untouched
    <3>2. \A i \in items : ran'[j][i] # 0
      BY <1>6, <3>1
    <3>. QED
      BY <3>2 DEF items
  <2>3. CompleteOnReturn'
    BY <1>1, <1>6, <1>7, <2>1, <2>2 DEF ReturnIsTrue, CompleteOnReturn
  <2>4. ExceptionsReachCaller'
    BY <1>7 DEF ReturnIsTrue, ExceptionsReachCaller
  <2>. QED
    BY <2>3, <2>4 DEF ReturnIsTrue
<1>. QED
  BY <1>8, <1>13, <1>14, <1>15, <1>16, <1>17, <1>18, <1>19

LEMMA LockSubmissionKeeps ==
  ASSUME IInv, NEW s \in Submitters, LockSubmission(s) PROVE IInv'
<1>. USE DEF IInv, Phases
<1>1. /\ pc[s] = "lockSubmission" /\ submission = None /\ submission' = s /\ Goto(s, "publish")
      /\ UNCHANGED <<count, taskCount, job, exception, nextTask, remaining, generation, stopping,
                     mutex, task, running, observed, mine, size, ran, thrown, result>>
      /\ s \in Threads /\ s # None
  BY ExecutorAssumption DEF LockSubmission, sharedVars, threadVars, historyVars, Threads
<1>2. pc' \in [Threads -> Known] /\ pc'[s] = "publish" /\ \A u \in Threads : u # s => pc'[u] = pc[u]
  BY <1>1, Went, Places
<1>3. TypeOK'
  BY <1>1, <1>2 DEF TypeOK, Known
<1>4. ~ UnderWay /\ ~ UnderWay' /\ submission' # None /\ pc'[submission'] = "publish"
  BY <1>1, <1>2 DEF UnderWay
<1>5. SameHolders
  BY <1>1, <1>2 DEF SameHolders
<1>6. Callers'
  <2>1. Caller(s)'
    <3>1. Caller(s) /\ "publish" \in HolderPCs
      BY DEF Callers, HolderPCs
    <3>. QED
      BY <1>1, <1>2, <3>1 DEF Caller, Untouched, Tasks
  <2>2. 0 \notin Jobs /\ \A r \in Submitters : pc[r] # "idle" => mine[r] # 0
    BY ExecutorAssumption DEF Jobs, Callers, Caller
  <2>. QED
    BY <1>1, <1>2, <2>1, <2>2, CallersStay, ExecutorAssumption
<1>7. Published' /\ SameCount'
  BY <1>1, <1>4 DEF Published, SameCount, Tasks
<1>8. Between' /\ Numbered' /\ Written' /\ RunsTask'
  <2>1. Asleep => Asleep'
    BY <1>1, <1>2, ExecutorAssumption DEF Asleep, Threads
  <2>. QED
    BY <1>1, <1>4, <1>5, <2>1, TasksStay DEF Between
<1>9. Caught' /\ Counted'
  BY <1>4 DEF Caught, Counted
<1>10. OneOwner' /\ ReturnIsTrue'
  BY <1>1 DEF OneOwner, ReturnIsTrue, CompleteOnReturn, ExceptionsReachCaller
<1>. QED
  BY <1>3, <1>6, <1>7, <1>8, <1>9, <1>10

-----------------------------------------------------------------------------
(* A call publishes its job. *)

(* A call that holds submission_mutex_ moves on. *)
LEMMA HolderMoves ==
  ASSUME IInv, NEW s \in Submitters, NEW where \in HolderPCs, Goto(s, where),
         pc[s] \in HolderPCs, pc[s] # "publish", where \notin {"publish", "publishNext"},
         UNCHANGED <<count, taskCount, job, submission, mine, size, ran, thrown, result>>
  PROVE  /\ pc' \in [Threads -> Known] /\ pc'[s] = where
         /\ \A u \in Threads : u # s => pc'[u] = pc[u]
         /\ submission = s /\ s # None /\ s \in Threads
         /\ Callers' /\ Published' /\ SameCount' /\ OneOwner'
<1>. USE DEF IInv, Phases
<1>1. s \in Threads /\ submission = s /\ s # None
  BY ExecutorAssumption DEF Threads, Callers, Caller
<1>2. where \in Known
  BY DEF HolderPCs, Known, SubmitterPCs, TaskPCs
<1>3. pc' \in [Threads -> Known] /\ pc'[s] = where /\ \A u \in Threads : u # s => pc'[u] = pc[u]
  BY <1>1, <1>2, Went
<1>4. Callers'
  <2>1. Caller(s)'
    BY <1>1, <1>3, Places DEF Caller, Callers, Untouched, Tasks
  <2>2. 0 \notin Jobs /\ \A r \in Submitters : pc[r] # "idle" => mine[r] # 0
    BY ExecutorAssumption DEF Jobs, Callers, Caller
  <2>3. pc[s] # "idle"
    BY Places
  <2>. QED
    BY <1>1, <1>3, <2>1, <2>2, <2>3, CallersStay
<1>5. Published'
  BY <1>1 DEF Published, Tasks
<1>6. SameCount' /\ OneOwner'
  BY DEF SameCount, OneOwner, Tasks
<1>. QED
  BY <1>1, <1>3, <1>4, <1>5, <1>6

LEMMA PublishKeeps ==
  ASSUME IInv, SameTasks, NEW s \in Submitters, Publish(s) PROVE IInv'
<1>. USE DEF IInv, Phases
<1>. DEFINE n == size[mine[s]]
<1>1. /\ pc[s] = "publish" /\ mutex' = s /\ Goto(s, "publishNext") /\ s \in Threads
      /\ count' = n /\ taskCount' = Tasks(n) /\ job' = mine[s] /\ exception' = FALSE
      /\ UNCHANGED <<nextTask, remaining, generation, stopping, submission, task, running, observed,
                     mine, size, ran, thrown, result>>
  BY DEF Publish, publishFrame, threadVars, historyVars, Tasks, Threads
<1>2. "publish" \in HolderPCs /\ "publishNext" \in HolderPCs
  BY DEF HolderPCs
<1>3. pc' \in [Threads -> Known] /\ pc'[s] = "publishNext" /\ \A u \in Threads : u # s => pc'[u] = pc[u]
  BY <1>1, Went, Places
<1>4. Caller(s) /\ submission = s /\ s # None
  BY <1>1, <1>2, ExecutorAssumption DEF Callers, Caller
<1>5. /\ n \in Counts /\ n \in Nat /\ mine[s] \in Jobs /\ mine[s] \in 0..MaxJobs
      /\ Tasks(n) > 1 /\ Tasks(n) \in 0..Cardinality(Workers)
  <2>1. mine[s] \in Jobs /\ n \in Counts /\ Tasks(n) > 1
    BY <1>1, <1>4 DEF Caller
  <2>. HIDE DEF n
  <2>. QED
    BY <2>1, Sizes, ExecutorAssumption DEF Jobs
<1>. HIDE DEF n
<1>6. TypeOK'
  BY <1>1, <1>3, <1>5 DEF TypeOK, Known
<1>7. ~ UnderWay /\ ~ UnderWay'
  BY <1>1, <1>3, <1>4 DEF UnderWay
<1>8. Callers'
  <2>1. Caller(s)'
    BY <1>1, <1>2, <1>3, <1>4 DEF Caller, Untouched, Tasks
  <2>2. 0 \notin Jobs /\ \A r \in Submitters : pc[r] # "idle" => mine[r] # 0
    BY ExecutorAssumption DEF Jobs, Callers, Caller
  <2>. QED
    BY <1>1, <1>3, <2>1, <2>2, CallersStay
<1>9. Published'
  BY <1>1, <1>4 DEF Published, Tasks, n
<1>10. \A m \in Counts : Tasks(m) > 1 => Tasks(m) = Tasks(n)
  BY <1>5 DEF SameTasks
<1>11. SameCount'
  BY <1>1, <1>10 DEF SameCount, Tasks
<1>12. \A t \in Threads : Holds(t)' <=> Holds(t)
  BY <1>1, <1>3 DEF Holds
<1>13. Between'
  <2>1. CASE Asleep
    <3>1. Asleep'
      BY <1>1, <1>3, <2>1, ExecutorAssumption DEF Asleep, Threads
    <3>2. \A t \in Threads : ~ Holds(t)
      <4>1. ASSUME NEW w \in Workers PROVE ~ Holds(w)
        BY <2>1 DEF Asleep, Holds
      <4>2. ASSUME NEW r \in Submitters PROVE ~ Holds(r)
        BY <1>1, <1>4 DEF Holds, Callers, Caller, HolderPCs, TaskPCs
      <4>. QED
        BY <4>1, <4>2 DEF Threads
    <3>3. Stale'
      BY <1>12, <3>2 DEF Stale
    <3>. QED
      BY <3>1, <3>3 DEF Between
  <2>2. CASE ~ Asleep
    <3>1. nextTask >= taskCount /\ taskCount > 0 /\ Stale
      BY <1>7, <2>2 DEF Between
    <3>2. taskCount' = taskCount
      BY <1>1, <1>5, <3>1 DEF SameCount
    <3>3. Stale'
      BY <1>1, <1>3, <1>12, <3>1, <3>2 DEF Stale, Holds
    <3>. QED
      BY <1>1, <3>1, <3>2, <3>3 DEF Between
  <2>. QED
    BY <2>1, <2>2
<1>14. RunsTask'
  BY <1>1, <1>3, <1>7 DEF RunsTask, Between, Stale, Holds
<1>15. Numbered' /\ Written' /\ Caught' /\ Counted'
  BY <1>1, <1>3, <1>4, <1>7 DEF Numbered, Written, Caught, Counted
<1>16. OneOwner' /\ ReturnIsTrue'
  BY <1>1 DEF OneOwner, ReturnIsTrue, CompleteOnReturn, ExceptionsReachCaller
<1>. QED
  BY <1>6, <1>8, <1>9, <1>11, <1>13, <1>14, <1>15, <1>16

LEMMA PublishNextKeeps == ASSUME IInv, NEW s \in Submitters, PublishNext(s) PROVE IInv'
<1>. USE DEF IInv, Phases
<1>1. /\ pc[s] = "publishNext" /\ nextTask' = 0 /\ Goto(s, "publishRemaining")
      /\ UNCHANGED <<count, taskCount, job, exception, remaining, generation, mutex, stopping,
                     submission, task, running, observed, mine, size, ran, thrown, result>>
  BY DEF PublishNext, publishFrame, threadVars, historyVars
<1>2. "publishNext" \in HolderPCs /\ "publishRemaining" \in HolderPCs
  BY DEF HolderPCs
<1>3. /\ pc' \in [Threads -> Known] /\ pc'[s] = "publishRemaining"
      /\ \A u \in Threads : u # s => pc'[u] = pc[u]
      /\ submission = s /\ s # None /\ s \in Threads
      /\ Callers' /\ Published' /\ SameCount' /\ OneOwner'
  BY <1>1, <1>2, HolderMoves
<1>4. TypeOK'
  BY <1>1, <1>3 DEF TypeOK, Known
<1>5. ~ UnderWay /\ UnderWay'
  BY <1>1, <1>3 DEF UnderWay
<1>6. /\ job \in Jobs /\ job = mine[s] /\ count \in Counts /\ taskCount \in Nat \ {0}
      /\ Untouched(job)
  BY <1>1, <1>3, JobUnderWay DEF Callers, Caller
<1>7. \A t \in Threads : /\ Holds(t)' <=> Holds(t)
                         /\ Holds(t) => pc[t] = "compare" /\ task[t] >= taskCount
                         /\ pc'[t] # "catch" /\ pc'[t] # "run"
  BY <1>1, <1>3, <1>5 DEF Holds, Between, Stale
<1>8. Numbered'
  BY <1>1, <1>3, <1>7 DEF Numbered, TypeOK, Holds
<1>9. RunsTask'
  BY <1>1, <1>3, <1>7 DEF RunsTask
<1>10. Written'
  <2>1. \A k \in 0..taskCount - 1 : Pending(k)'
    BY <1>1 DEF Pending
  <2>2. \A k \in 0..taskCount - 1 : TaskItems(count, taskCount, k) \subseteq Items
    BY <1>6, ItemsOf
  <2>3. \A k \in 0..taskCount - 1 : \A i \in TaskItems(count, taskCount, k) : ran[job][i] = 0
    BY <1>6, <2>2 DEF Untouched
  <2>. QED
    BY <1>1, <2>1, <2>3 DEF Written
<1>11. Caught'
  BY <1>1, <1>3, <1>6, <1>7 DEF Caught, Recorded, Untouched
<1>12. Counted' /\ Between'
  BY <1>1, <1>3, <1>5 DEF Counted, Between
<1>13. ReturnIsTrue'
  BY <1>1 DEF ReturnIsTrue, CompleteOnReturn, ExceptionsReachCaller
<1>. QED
  BY <1>3, <1>4, <1>8, <1>9, <1>10, <1>11, <1>12, <1>13

LEMMA PublishRemainingKeeps == ASSUME IInv, NEW s \in Submitters, PublishRemaining(s) PROVE IInv'
<1>. USE DEF IInv, Phases
<1>1. /\ pc[s] = "publishRemaining" /\ remaining' = taskCount /\ generation' = generation + 1
      /\ mutex' = None /\ Goto(s, "fetch")
      /\ UNCHANGED <<count, taskCount, job, exception, nextTask, stopping,
                     submission, task, running, observed, mine, size, ran, thrown, result>>
  BY DEF PublishRemaining, publishFrame, threadVars, historyVars
<1>2. "publishRemaining" \in HolderPCs /\ "fetch" \in HolderPCs
  BY DEF HolderPCs, TaskPCs
<1>3. /\ pc' \in [Threads -> Known] /\ pc'[s] = "fetch" /\ \A u \in Threads : u # s => pc'[u] = pc[u]
      /\ submission = s /\ s # None /\ s \in Threads
      /\ Callers' /\ Published' /\ SameCount' /\ OneOwner'
  BY <1>1, <1>2, HolderMoves
<1>4. taskCount \in Nat /\ taskCount \in 0..Wrap - 1
  BY Sizes DEF TypeOK
<1>5. TypeOK'
  BY <1>1, <1>3, <1>4 DEF TypeOK, Known
<1>6. UnderWay /\ UnderWay' /\ SameHolders
  BY <1>1, <1>3 DEF UnderWay, SameHolders
<1>7. Numbered' /\ Written' /\ RunsTask' /\ Recorded' /\ Unfinished' = Unfinished
  BY <1>1, <1>6, TasksStay DEF Caught
<1>8. Counted'
  <2>1. Unfinished \subseteq 0..taskCount - 1
    BY DEF Unfinished
  <2>2. IsFiniteSet(0..taskCount - 1) /\ Cardinality(0..taskCount - 1) = taskCount
    <3>1. PICK last \in Int : last = taskCount - 1
      BY <1>4
    <3>2. IsFiniteSet(0..last) /\ Cardinality(0..last) = IF 0 > last THEN 0 ELSE last - 0 + 1
      BY FS_Interval
    <3>. QED
      BY <1>4, <3>1, <3>2
  <2>3. Cardinality(Unfinished) <= taskCount
    BY <2>1, <2>2, FS_Subset
  <2>. QED
    BY <1>1, <1>3, <1>7, <2>3 DEF Counted
<1>9. Caught' /\ Between'
  BY <1>1, <1>3, <1>6, <1>7 DEF Caught, Between
<1>10. ReturnIsTrue'
  BY <1>1 DEF ReturnIsTrue, CompleteOnReturn, ExceptionsReachCaller
<1>. QED
  BY <1>3, <1>5, <1>7, <1>8, <1>9, <1>10

-----------------------------------------------------------------------------
(* Workers sleep, and everyone executes tasks. *)

(* A worker, or the call in its turn, moves on while the job stays as it is. *)
LEMMA ThreadMoves ==
  ASSUME IInv, NEW t \in Threads, NEW where \in Known, Goto(t, where),
         where \notin {"publish", "publishNext", "publishRemaining"},
         t \in Submitters => /\ pc[t] \in HolderPCs /\ where \in HolderPCs
                             /\ pc[t] \notin {"publish", "publishNext", "publishRemaining"},
         UNCHANGED <<count, taskCount, job, submission, mine, size, result>>,
         UnderWay \/ UNCHANGED <<ran, thrown>>,
         \A k \in Jobs : k # job => ran'[k] = ran[k] /\ (k \in thrown' <=> k \in thrown)
  PROVE  /\ pc' \in [Threads -> Known] /\ pc'[t] = where
         /\ \A u \in Threads : u # t => pc'[u] = pc[u]
         /\ (UnderWay' <=> UnderWay) /\ Callers' /\ Published' /\ SameCount'
         /\ t \in Submitters => submission = t
         /\ submission # None /\ submission # t => pc'[submission] = pc[submission]
<1>. USE DEF IInv, Phases
<1>1. pc' \in [Threads -> Known] /\ pc'[t] = where /\ \A u \in Threads : u # t => pc'[u] = pc[u]
  BY Went
<1>2. t \in Submitters => submission = t
  BY DEF Callers, Caller
<1>3. submission # None => submission \in Submitters /\ submission \in Threads
  BY DEF TypeOK, Threads
<1>4. submission # None /\ submission # t => pc'[submission] = pc[submission]
  BY <1>1, <1>3
<1>5. submission = t /\ submission # None => t \in Submitters
  BY <1>3
<1>6. UnderWay' <=> UnderWay
  BY <1>1, <1>4, <1>5 DEF UnderWay
<1>7. Callers'
  <2>1. t \in Submitters => Caller(t)' /\ pc[t] # "idle"
    <3>. SUFFICES ASSUME t \in Submitters PROVE Caller(t)' /\ pc[t] # "idle"
      OBVIOUS
    <3>1. where \notin {"idle", "serial", "lockSubmission", "publish", "publishNext"} /\ pc[t] \notin {"idle", "serial"}
      BY Places
    <3>2. Caller(t)
      BY DEF Callers
    <3>. QED
      BY <1>1, <3>1, <3>2 DEF Caller, Tasks
  <2>2. CASE UnderWay
    <3>1. /\ result[job] = "open"
          /\ \A r \in Submitters :
              /\ r # submission /\ pc[r] # "idle" => mine[r] # job
              /\ pc[r] \in {"serial", "lockSubmission"} => mine[r] # job
      BY <2>2, JobUnderWay DEF UnderWay
    <3>2. \A r \in Submitters : r # t /\ pc[r] # "idle" /\ mine[r] = job =>
            pc[r] \notin {"serial", "lockSubmission", "publish", "publishNext"} /\ result'[job] = "open"
      BY <2>2, <3>1 DEF UnderWay
    <3>. QED
      BY <1>1, <2>1, <3>1, <3>2, CallersStay DEF None
  <2>3. CASE ~ UnderWay
    <3>1. 0 \notin Jobs /\ \A r \in Submitters : pc[r] # "idle" => mine[r] # 0
      BY ExecutorAssumption DEF Jobs, Callers, Caller
    <3>. QED
      BY <1>1, <2>1, <2>3, <3>1, CallersStay
  <2>. QED
    BY <2>2, <2>3
<1>8. Published'
  BY <1>1, <1>4, <1>5 DEF Published, Tasks
<1>9. SameCount'
  BY DEF SameCount, Tasks
<1>. QED
  BY <1>1, <1>2, <1>4, <1>6, <1>7, <1>8, <1>9

LEMMA WorkerWakeKeeps == ASSUME IInv, NEW w \in Workers, WorkerWake(w) PROVE IInv'
<1>. USE DEF IInv, Phases
<1>1. /\ pc[w] = "wait" /\ ~ stopping /\ generation # observed[w]
      /\ observed' = [observed EXCEPT ![w] = generation] /\ Goto(w, "fetch")
      /\ UNCHANGED <<count, taskCount, job, exception, nextTask, remaining, generation, stopping,
                     mutex, submission, task, running, mine, size, ran, thrown, result>>
      /\ w \in Threads /\ w \notin Submitters /\ "fetch" \in Known
  BY ExecutorAssumption, Places DEF WorkerWake, sharedVars, historyVars, Threads
<1>2. /\ pc' \in [Threads -> Known] /\ pc'[w] = "fetch"
      /\ \A u \in Threads : u # w => pc'[u] = pc[u]
      /\ (UnderWay' <=> UnderWay) /\ Callers' /\ Published' /\ SameCount'
      /\ submission # None /\ submission # w => pc'[submission] = pc[submission]
  BY <1>1, ThreadMoves
<1>3. submission # None => pc'[submission] = pc[submission]
  BY <1>1, <1>2 DEF TypeOK
<1>4. TypeOK'
  BY <1>1, <1>2 DEF TypeOK, Known
<1>5. SameHolders
  BY <1>1, <1>2 DEF SameHolders
<1>6. Numbered' /\ Written' /\ RunsTask' /\ (Stale => Stale') /\ (UnderWay /\ Recorded => Recorded')
      /\ Unfinished' = Unfinished
  BY <1>1, <1>2, <1>5, TasksStay
<1>7. Between'
  <2>1. ~ Asleep
    BY <1>1 DEF Asleep
  <2>. QED
    BY <1>1, <1>2, <1>6, <2>1 DEF Between
<1>8. Caught' /\ Counted'
  <2>1. Caught'
    BY <1>1, <1>2, <1>3, <1>6 DEF Caught
  <2>2. Counted'
    BY <1>1, <1>2, <1>3, <1>6 DEF Counted, UnderWay
  <2>. QED
    BY <2>1, <2>2
<1>9. OneOwner' /\ ReturnIsTrue'
  BY <1>1 DEF OneOwner, ReturnIsTrue, CompleteOnReturn, ExceptionsReachCaller
<1>. QED
  BY <1>2, <1>4, <1>6, <1>7, <1>8, <1>9

LEMMA WorkerLeaveKeeps == ASSUME IInv, NEW w \in Workers, WorkerLeave(w) PROVE IInv'
<1>. USE DEF IInv, Phases
<1>1. /\ pc[w] = "wait" /\ stopping /\ Goto(w, "gone")
      /\ UNCHANGED <<count, taskCount, job, exception, nextTask, remaining, generation, stopping,
                     mutex, submission, task, running, observed, mine, size, ran, thrown, result>>
      /\ w \in Threads /\ w \notin Submitters /\ "gone" \in Known
  BY ExecutorAssumption, Places DEF WorkerLeave, sharedVars, threadVars, historyVars, Threads
<1>2. /\ pc' \in [Threads -> Known] /\ pc'[w] = "gone"
      /\ \A u \in Threads : u # w => pc'[u] = pc[u]
      /\ (UnderWay' <=> UnderWay) /\ Callers' /\ Published' /\ SameCount'
      /\ submission # None /\ submission # w => pc'[submission] = pc[submission]
  BY <1>1, ThreadMoves
<1>3. submission # None => pc'[submission] = pc[submission]
  BY <1>1, <1>2 DEF TypeOK
<1>4. TypeOK'
  BY <1>1, <1>2 DEF TypeOK, Known
<1>5. SameHolders
  BY <1>1, <1>2 DEF SameHolders
<1>6. Numbered' /\ Written' /\ RunsTask' /\ (Stale => Stale') /\ (UnderWay /\ Recorded => Recorded')
      /\ Unfinished' = Unfinished
  BY <1>1, <1>2, <1>5, TasksStay
<1>7. Between'
  <2>1. Asleep => Asleep'
    BY <1>1, <1>2 DEF Asleep, Threads
  <2>. QED
    BY <1>1, <1>2, <1>6, <2>1 DEF Between
<1>8. Caught' /\ Counted'
  <2>1. Caught'
    BY <1>1, <1>2, <1>3, <1>6 DEF Caught
  <2>2. Counted'
    BY <1>1, <1>2, <1>3, <1>6 DEF Counted, UnderWay
  <2>. QED
    BY <2>1, <2>2
<1>9. OneOwner' /\ ReturnIsTrue'
  BY <1>1 DEF OneOwner, ReturnIsTrue, CompleteOnReturn, ExceptionsReachCaller
<1>. QED
  BY <1>2, <1>4, <1>6, <1>7, <1>8, <1>9

(* The thread that executes tasks works for the call in its turn, or is a   *)
(* straggler that finds nothing.                                           *)
LEMMA Executes ==
  ASSUME IInv, NEW t \in Threads, pc[t] \in TaskPCs
  PROVE  /\ t \in Submitters => submission = t /\ UnderWay
         /\ pc[t] \in {"run", "catch", "subtract"} => UnderWay
         /\ pc[t] = "compare" /\ task[t] < taskCount => UnderWay
         /\ ~ UnderWay => t \in Workers /\ nextTask >= taskCount /\ taskCount > 0
<1>. USE DEF IInv, Phases
<1>1. ASSUME t \in Submitters PROVE submission = t /\ UnderWay
  <2>1. Caller(t) /\ pc[t] \in HolderPCs /\ t # None
    BY <1>1, ExecutorAssumption DEF Callers, HolderPCs
  <2>. QED
    BY <2>1 DEF Caller, UnderWay, TaskPCs
<1>2. ASSUME ~ UnderWay PROVE t \in Workers /\ nextTask >= taskCount /\ taskCount > 0
  <2>1. t \in Workers
    BY <1>1, <1>2 DEF Threads
  <2>2. ~ Asleep
    BY <2>1 DEF Asleep, TaskPCs
  <2>. QED
    BY <1>2, <2>1, <2>2 DEF Between
<1>3. (pc[t] \in {"run", "catch", "subtract"} => UnderWay) /\ (pc[t] = "compare" /\ task[t] < taskCount => UnderWay)
  BY DEF Between, Stale, Holds, TypeOK
<1>. QED
  BY <1>1, <1>2, <1>3

LEMMA TaskMoves ==
  ASSUME IInv, NEW t \in Threads, pc[t] \in TaskPCs, NEW where \in TaskPCs \cup {"wait", "testDone"},
         t \in Submitters => where # "wait", Goto(t, where), UNCHANGED taskFrame,
         UnderWay \/ UNCHANGED <<ran, thrown>>,
         \A k \in Jobs : k # job => ran'[k] = ran[k] /\ (k \in thrown' <=> k \in thrown)
  PROVE  /\ pc' \in [Threads -> Known] /\ pc'[t] = where
         /\ \A u \in Threads : u # t => pc'[u] = pc[u]
         /\ (UnderWay' <=> UnderWay) /\ Callers' /\ Published' /\ SameCount'
         /\ submission # None => \A p \in {"publish", "publishNext", "publishRemaining", "collect"} :
                                   pc'[submission] = p <=> pc[submission] = p
<1>1. /\ where \in Known /\ where \notin {"publish", "publishNext", "publishRemaining", "collect"}
      /\ pc[t] \notin {"publish", "publishNext", "publishRemaining", "collect"}
      /\ pc[t] \in HolderPCs /\ (where # "wait" => where \in HolderPCs)
  BY DEF Known, HolderPCs, SubmitterPCs, WorkerPCs, TaskPCs
<1>2. UNCHANGED <<count, taskCount, job, submission, mine, size, result>>
  BY DEF taskFrame
<1>3. /\ pc' \in [Threads -> Known] /\ pc'[t] = where
      /\ \A u \in Threads : u # t => pc'[u] = pc[u]
      /\ (UnderWay' <=> UnderWay) /\ Callers' /\ Published' /\ SameCount'
      /\ submission # None /\ submission # t => pc'[submission] = pc[submission]
  BY <1>1, <1>2, ThreadMoves
<1>. QED
  BY <1>1, <1>3

LEMMA FetchKeeps == ASSUME IInv, NEW t \in Threads, Fetch(t) PROVE IInv'
<1>. USE DEF IInv, Phases
<1>1. /\ pc[t] = "fetch" /\ task' = [task EXCEPT ![t] = nextTask] /\ nextTask' = nextTask + 1
      /\ Goto(t, "compare") /\ UNCHANGED taskFrame
      /\ UNCHANGED <<count, taskCount, job, exception, remaining, generation, stopping, mutex,
                     submission, running, observed, mine, size, ran, thrown, result>>
  BY DEF Fetch, taskFrame
<1>2. pc[t] \in TaskPCs /\ "compare" \in TaskPCs
  BY <1>1 DEF TaskPCs
<1>3. /\ pc' \in [Threads -> Known] /\ pc'[t] = "compare"
      /\ \A u \in Threads : u # t => pc'[u] = pc[u]
      /\ (UnderWay' <=> UnderWay) /\ Callers' /\ Published' /\ SameCount'
      /\ submission # None => \A p \in {"publish", "publishNext", "publishRemaining", "collect"} :
                                pc'[submission] = p <=> pc[submission] = p
  BY <1>1, <1>2, TaskMoves
<1>4. /\ task \in [Threads -> Nat] /\ nextTask \in Nat /\ taskCount \in Nat
      /\ task' \in [Threads -> Nat] /\ task'[t] = nextTask
      /\ \A u \in Threads : u # t => task'[u] = task[u]
  BY <1>1, Sizes DEF TypeOK
<1>5. TypeOK'
  BY <1>1, <1>3, <1>4 DEF TypeOK, Known
<1>6. /\ Holds(t)' /\ ~ Holds(t)
      /\ \A u \in Threads : u # t => (Holds(u)' <=> Holds(u))
  BY <1>1, <1>3 DEF Holds
<1>7. Between'
  <2>. SUFFICES ASSUME ~ UnderWay' PROVE (Asleep' \/ (nextTask' >= taskCount' /\ taskCount' > 0)) /\ Stale'
    BY DEF Between
  <2>1. ~ UnderWay /\ nextTask >= taskCount /\ taskCount > 0 /\ Stale
    BY <1>2, <1>3, Executes DEF Between
  <2>2. Stale'
    BY <1>1, <1>3, <1>4, <1>6, <2>1 DEF Stale
  <2>. QED
    BY <1>1, <1>4, <2>1, <2>2
<1>8. Numbered'
  <2>. SUFFICES ASSUME UnderWay' PROVE
         /\ \A u \in Threads : Holds(u)' /\ task'[u] < taskCount => task'[u] < nextTask'
         /\ \A u \in Threads : Holds(u)' /\ pc'[u] # "compare" => task'[u] < taskCount
         /\ \A u, v \in Threads :
              u # v /\ Holds(u)' /\ Holds(v)' /\ task'[u] = task'[v] => task'[u] >= taskCount
    BY <1>1 DEF Numbered
  <2>1. /\ \A u \in Threads : Holds(u) /\ task[u] < taskCount => task[u] < nextTask
        /\ \A u \in Threads : Holds(u) /\ pc[u] # "compare" => task[u] < taskCount
        /\ \A u, v \in Threads :
             u # v /\ Holds(u) /\ Holds(v) /\ task[u] = task[v] => task[u] >= taskCount
    BY <1>3 DEF Numbered
  <2>2. \A u \in Threads : Holds(u)' /\ task'[u] < taskCount => task'[u] < nextTask'
    BY <1>1, <1>4, <1>6, <2>1
  <2>3. \A u \in Threads : Holds(u)' /\ pc'[u] # "compare" => task'[u] < taskCount
    BY <1>3, <1>4, <1>6, <2>1
  <2>4. ASSUME NEW u \in Threads, NEW v \in Threads, u # v, Holds(u)', Holds(v)', task'[u] = task'[v]
        PROVE  task'[u] >= taskCount
    BY <1>4, <1>6, <2>1, <2>4
  <2>. QED
    BY <2>2, <2>3, <2>4
<1>9. \A k \in Nat : Pending(k)' <=> Pending(k)
  <2>. SUFFICES ASSUME NEW k \in Nat PROVE Pending(k)' <=> Pending(k)
    OBVIOUS
  <2>1. CASE k = nextTask
    BY <1>1, <1>3, <1>4, <2>1 DEF Pending
  <2>2. CASE k # nextTask
    <3>1. k >= nextTask' <=> k >= nextTask
      BY <1>1, <1>4, <2>2
    <3>2. \A u \in Threads : pc'[u] \in {"compare", "run"} /\ task'[u] = k <=>
                             pc[u] \in {"compare", "run"} /\ task[u] = k
      BY <1>1, <1>3, <1>4, <2>2
    <3>. QED
      BY <3>1, <3>2 DEF Pending
  <2>. QED
    BY <2>1, <2>2
<1>10. Written'
  BY <1>1, <1>3, <1>4, <1>9 DEF Written
<1>11. Unfinished' = Unfinished
  <2>1. ASSUME NEW k \in 0..taskCount - 1
        PROVE  (k >= nextTask' \/ \E u \in Threads : Holds(u)' /\ task'[u] = k) <=>
               (k >= nextTask \/ \E u \in Threads : Holds(u) /\ task[u] = k)
    <3>1. CASE k = nextTask
      BY <1>1, <1>4, <1>6, <3>1
    <3>2. CASE k # nextTask
      <4>1. k >= nextTask' <=> k >= nextTask
        BY <1>1, <1>4, <3>2
      <4>2. \A u \in Threads : Holds(u)' /\ task'[u] = k <=> Holds(u) /\ task[u] = k
        BY <1>4, <1>6, <3>2
      <4>. QED
        BY <4>1, <4>2
    <3>. QED
      BY <3>1, <3>2
  <2>. QED
    BY <1>1, <2>1 DEF Unfinished
<1>12. RunsTask'
  BY <1>1, <1>3, <1>4 DEF RunsTask
<1>13. Caught'
  BY <1>1, <1>3 DEF Caught, Recorded
<1>14. Counted'
  BY <1>1, <1>3, <1>11 DEF Counted, UnderWay
<1>15. OneOwner' /\ ReturnIsTrue'
  BY <1>1 DEF OneOwner, ReturnIsTrue, CompleteOnReturn, ExceptionsReachCaller
<1>. QED
  BY <1>3, <1>5, <1>7, <1>8, <1>10, <1>12, <1>13, <1>14, <1>15

(* A thread that leaves the loop, or stays in it without a change of tasks. *)
LEMMA TasksCarry ==
  ASSUME UnderWay' <=> UnderWay, UNCHANGED <<count, taskCount, job, ran, thrown>>,
         \A k \in 0..taskCount - 1 : Pending(k)' <=> Pending(k)
  PROVE  Written => Written'
BY DEF Written

LEMMA CompareKeeps == ASSUME IInv, NEW t \in Threads, Compare(t) PROVE IInv'
<1>. USE DEF IInv, Phases
<1>. DEFINE work == [job |-> job, items |-> TaskItems(count, taskCount, task[t])]
<1>1. /\ pc[t] = "compare" /\ UNCHANGED taskFrame
      /\ UNCHANGED <<count, taskCount, job, exception, nextTask, remaining, generation, stopping,
                     mutex, submission, task, observed, mine, size, ran, thrown, result>>
  BY DEF Compare, taskFrame
<1>2. PICK where \in {"wait", "testDone", "run"} :
        /\ Goto(t, where) /\ (t \in Submitters => where # "wait")
        /\ \/ where # "run" /\ task[t] >= taskCount /\ running' = running
           \/ where = "run" /\ task[t] < taskCount /\ running' = [running EXCEPT ![t] = work]
  <2>1. CASE /\ task[t] >= taskCount /\ running' = running
             /\ Goto(t, IF t \in Workers THEN "wait" ELSE "testDone")
    BY <2>1, ExecutorAssumption
  <2>2. CASE task[t] < taskCount /\ running' = [running EXCEPT ![t] = work] /\ Goto(t, "run")
    BY <2>2
  <2>. QED
    BY <2>1, <2>2 DEF Compare
<1>3. pc[t] \in TaskPCs /\ where \in TaskPCs \cup {"wait", "testDone"}
  BY <1>1 DEF TaskPCs
<1>4. /\ pc' \in [Threads -> Known] /\ pc'[t] = where
      /\ \A u \in Threads : u # t => pc'[u] = pc[u]
      /\ (UnderWay' <=> UnderWay) /\ Callers' /\ Published' /\ SameCount'
      /\ submission # None => \A p \in {"publish", "publishNext", "publishRemaining", "collect"} :
                                pc'[submission] = p <=> pc[submission] = p
  BY <1>1, <1>2, <1>3, TaskMoves
<1>5. task \in [Threads -> Nat] /\ nextTask \in Nat /\ taskCount \in Nat
  BY Sizes DEF TypeOK
<1>6. where = "run" => UnderWay
  BY <1>1, <1>2, <1>3, Executes
<1>7. where = "run" => work \in [job : 0..MaxJobs, items : SUBSET Int] /\ job \in Jobs /\ result[job] = "open"
  <2>. SUFFICES ASSUME where = "run"
                PROVE  work \in [job : 0..MaxJobs, items : SUBSET Int] /\ job \in Jobs /\ result[job] = "open"
    OBVIOUS
  <2>1. job \in Jobs /\ result[job] = "open"
    BY <1>6, JobUnderWay DEF UnderWay
  <2>2. TaskItems(count, taskCount, task[t]) \subseteq Int
    BY DEF TaskItems
  <2>. QED
    BY <2>1, <2>2 DEF TypeOK
<1>. HIDE DEF work
<1>8. TypeOK'
  BY <1>1, <1>2, <1>4, <1>7 DEF TypeOK, Known
<1>9. /\ \A u \in Threads : u # t => (Holds(u)' <=> Holds(u))
      /\ Holds(t) /\ (Holds(t)' <=> where = "run")
  BY <1>1, <1>4 DEF Holds
<1>10. Between'
  <2>. SUFFICES ASSUME ~ UnderWay' PROVE (Asleep' \/ (nextTask' >= taskCount' /\ taskCount' > 0)) /\ Stale'
    BY DEF Between
  <2>1. ~ UnderWay /\ nextTask >= taskCount /\ taskCount > 0 /\ Stale
    BY <1>3, <1>4, Executes DEF Between
  <2>2. Stale'
    BY <1>1, <1>4, <1>6, <1>9, <2>1 DEF Stale
  <2>. QED
    BY <1>1, <2>1, <2>2
<1>11. Numbered'
  <2>. SUFFICES ASSUME UnderWay' PROVE
         /\ \A u \in Threads : Holds(u)' /\ task[u] < taskCount => task[u] < nextTask
         /\ \A u \in Threads : Holds(u)' /\ pc'[u] # "compare" => task[u] < taskCount
         /\ \A u, v \in Threads :
              u # v /\ Holds(u)' /\ Holds(v)' /\ task[u] = task[v] => task[u] >= taskCount
    BY <1>1 DEF Numbered
  <2>. QED
    BY <1>2, <1>4, <1>9 DEF Numbered
<1>12. ASSUME NEW k \in 0..taskCount - 1 PROVE Pending(k)' <=> Pending(k)
  <2>1. \A u \in Threads : pc'[u] \in {"compare", "run"} /\ task'[u] = k <=>
                           pc[u] \in {"compare", "run"} /\ task[u] = k
    BY <1>1, <1>2, <1>4, <1>5
  <2>. QED
    BY <1>1, <2>1 DEF Pending
<1>13. Written'
  BY <1>1, <1>4, <1>12, TasksCarry
<1>14. Unfinished' = Unfinished
  <2>1. ASSUME NEW k \in 0..taskCount - 1
        PROVE  \A u \in Threads : Holds(u)' /\ task'[u] = k <=> Holds(u) /\ task[u] = k
    BY <1>1, <1>2, <1>5, <1>9
  <2>. QED
    BY <1>1, <2>1 DEF Unfinished
<1>15. RunsTask'
  <2>1. ASSUME NEW u \in Threads, u # t PROVE running'[u] = running[u] /\ pc'[u] = pc[u]
    BY <1>2, <1>4, <2>1 DEF TypeOK
  <2>2. running'[t] = IF pc'[t] = "run" THEN work ELSE Idle
    BY <1>1, <1>2, <1>4 DEF RunsTask, TypeOK
  <2>. QED
    BY <1>1, <2>1, <2>2 DEF RunsTask, work
<1>16. Caught'
  BY <1>1, <1>2, <1>4 DEF Caught, Recorded
<1>17. Counted'
  BY <1>1, <1>4, <1>14 DEF Counted, UnderWay
<1>18. OneOwner'
  BY <1>1 DEF OneOwner
<1>19. ReturnIsTrue'
  <2>1. \A u \in Threads : running'[u].job = running[u].job \/ (where = "run" /\ running'[u].job = job)
    BY <1>2 DEF TypeOK, work
  <2>. QED
    BY <1>1, <1>7, <2>1 DEF ReturnIsTrue, CompleteOnReturn, ExceptionsReachCaller
<1>. QED
  BY <1>4, <1>8, <1>10, <1>11, <1>13, <1>15, <1>16, <1>17, <1>18, <1>19

LEMMA CatchKeeps == ASSUME IInv, NEW t \in Threads, Catch(t) PROVE IInv'
<1>. USE DEF IInv, Phases
<1>1. /\ pc[t] = "catch" /\ exception' = TRUE /\ Goto(t, "subtract") /\ UNCHANGED taskFrame
      /\ UNCHANGED <<count, taskCount, job, nextTask, remaining, generation, stopping,
                     mutex, submission, task, running, observed, mine, size, ran, thrown, result>>
  BY DEF Catch, taskFrame
<1>2. pc[t] \in TaskPCs /\ "subtract" \in TaskPCs
  BY <1>1 DEF TaskPCs
<1>3. /\ pc' \in [Threads -> Known] /\ pc'[t] = "subtract"
      /\ \A u \in Threads : u # t => pc'[u] = pc[u]
      /\ (UnderWay' <=> UnderWay) /\ Callers' /\ Published' /\ SameCount'
      /\ submission # None => \A p \in {"publish", "publishNext", "publishRemaining", "collect"} :
                                pc'[submission] = p <=> pc[submission] = p
  BY <1>1, <1>2, TaskMoves
<1>4. UnderWay
  BY <1>1, <1>2, Executes
<1>5. TypeOK'
  BY <1>1, <1>3 DEF TypeOK, Known
<1>6. \A u \in Threads : /\ Holds(u)' <=> Holds(u)
                         /\ pc'[u] = "compare" <=> pc[u] = "compare"
                         /\ pc'[u] = "run" <=> pc[u] = "run"
  BY <1>1, <1>3 DEF Holds
<1>7. Numbered' /\ Between' /\ RunsTask'
  BY <1>1, <1>3, <1>4, <1>6 DEF Numbered, Between, RunsTask
<1>8. Written'
  <2>1. \A k \in 0..taskCount - 1 : Pending(k)' <=> Pending(k)
    BY <1>1, <1>6 DEF Pending
  <2>. QED
    BY <1>1, <1>3, <2>1, TasksCarry
<1>9. Unfinished' = Unfinished
  BY <1>1, <1>6 DEF Unfinished
<1>10. Caught'
  <2>1. job \in thrown
    BY <1>1, <1>4 DEF Caught, Recorded
  <2>. QED
    BY <1>1, <1>3, <1>4, <2>1 DEF Caught, Recorded, UnderWay
<1>11. Counted'
  BY <1>1, <1>3, <1>9 DEF Counted, UnderWay
<1>12. OneOwner' /\ ReturnIsTrue'
  BY <1>1 DEF OneOwner, ReturnIsTrue, CompleteOnReturn, ExceptionsReachCaller
<1>. QED
  BY <1>3, <1>5, <1>7, <1>8, <1>10, <1>11, <1>12

LEMMA RunKeeps == ASSUME IInv, NEW t \in Threads, Run(t) PROVE IInv'
<1>. USE DEF IInv, Phases
<1>. DEFINE items == TaskItems(count, taskCount, task[t])
<1>1. /\ pc[t] = "run" /\ UNCHANGED taskFrame /\ running' = [running EXCEPT ![t] = Idle]
      /\ UNCHANGED <<count, taskCount, job, exception, nextTask, remaining, generation, stopping,
                     mutex, submission, task, observed, mine, size, result>>
  BY DEF Run, taskFrame
<1>2. pc[t] \in TaskPCs /\ "subtract" \in TaskPCs /\ "catch" \in TaskPCs
  BY <1>1 DEF TaskPCs
<1>3. UnderWay
  BY <1>1, <1>2, Executes
<1>4. /\ submission # None /\ job \in Jobs /\ job # 0 /\ result[job] = "open"
      /\ count \in Counts /\ count \in Nat \ {0} /\ taskCount \in Nat \ {0}
  BY <1>3, JobUnderWay DEF UnderWay
<1>5. task \in [Threads -> Nat] /\ nextTask \in Nat /\ task[t] < taskCount /\ task[t] \in 0..taskCount - 1
  BY <1>1, <1>3, <1>4 DEF TypeOK, Numbered, Holds
<1>6. running[t].job = job /\ running[t].items = items
  <2>1. running[t] = [job |-> job, items |-> items]
    BY <1>1 DEF RunsTask
  <2>. HIDE DEF items
  <2>. QED
    BY <2>1
<1>7. items \subseteq Items
  BY <1>4, <1>5, ItemsOf
<1>. HIDE DEF items
<1>8. PICK done \in SUBSET items, where \in {"subtract", "catch"} :
        /\ ran' = RanOnce(job, done) /\ Goto(t, where)
        /\ \/ where = "subtract" /\ done = items /\ thrown' = thrown
           \/ where = "catch" /\ thrown' = thrown \cup {job}
  <2>1. Processed(items) \in SUBSET items
    BY DEF Processed
  <2>2. CASE Throwing \cap items = {} /\ ran' = RanOnce(job, items) /\ Goto(t, "subtract") /\ thrown' = thrown
    BY <2>2
  <2>3. CASE /\ Throwing \cap items # {} /\ ran' = RanOnce(job, Processed(items))
             /\ thrown' = thrown \cup {job} /\ Goto(t, "catch")
    BY <2>1, <2>3
  <2>. QED
    BY <1>4, <1>6, <2>2, <2>3 DEF Run
<1>9. /\ ran' \in [Jobs -> [Items -> Nat]] /\ \A k \in Jobs : k # job => ran'[k] = ran[k]
      /\ \A i \in Items : ran'[job][i] = IF i \in done THEN ran[job][i] + 1 ELSE ran[job][i]
      /\ ran \in [Jobs -> [Items -> Nat]]
  BY <1>4, <1>8, RanTyped DEF TypeOK
<1>10. /\ thrown' \subseteq Jobs /\ \A k \in Jobs : k # job => (k \in thrown' <=> k \in thrown)
       /\ thrown \subseteq thrown'
  BY <1>4, <1>8 DEF TypeOK
<1>11. /\ pc' \in [Threads -> Known] /\ pc'[t] = where
       /\ \A u \in Threads : u # t => pc'[u] = pc[u]
       /\ (UnderWay' <=> UnderWay) /\ Callers' /\ Published' /\ SameCount'
       /\ submission # None => \A p \in {"publish", "publishNext", "publishRemaining", "collect"} :
                                 pc'[submission] = p <=> pc[submission] = p
  <2>1. where \in TaskPCs \cup {"wait", "testDone"} /\ where # "wait"
    BY <1>2, <1>8
  <2>2. \A k \in Jobs : k # job => ran'[k] = ran[k] /\ (k \in thrown' <=> k \in thrown)
    BY <1>9, <1>10
  <2>. QED
    BY <1>1, <1>2, <1>3, <1>8, <2>1, <2>2, TaskMoves
<1>12. TypeOK'
  <2>1. Idle \in [job : 0..MaxJobs, items : SUBSET Int]
    BY ExecutorAssumption DEF Idle
  <2>2. running' \in [Threads -> [job : 0..MaxJobs, items : SUBSET Int]]
    BY <1>1, <2>1 DEF TypeOK
  <2>. QED
    BY <1>1, <1>9, <1>10, <1>11, <2>2 DEF TypeOK, Known
<1>13. \A u \in Threads : /\ Holds(u)' <=> Holds(u)
                          /\ pc'[u] = "compare" <=> pc[u] = "compare"
                          /\ u # t => (pc'[u] = "run" <=> pc[u] = "run")
  BY <1>1, <1>8, <1>11 DEF Holds
<1>14. Numbered' /\ Between'
  BY <1>1, <1>3, <1>11, <1>13 DEF Numbered, Between
<1>15. \A u \in Threads : u # t /\ Holds(u) => task[u] # task[t]
  BY <1>1, <1>3, <1>4, <1>5 DEF Numbered, Holds
<1>16. Pending(task[t]) /\ ~ Pending(task[t])'
  <2>1. Pending(task[t])
    BY <1>1 DEF Pending
  <2>2. task[t] < nextTask
    BY <1>1, <1>3, <1>5 DEF Numbered, Holds
  <2>3. ASSUME NEW u \in Threads, pc'[u] \in {"compare", "run"}, task[u] = task[t] PROVE FALSE
    <3>1. u # t /\ pc[u] \in {"compare", "run"}
      BY <1>8, <1>11, <2>3
    <3>. QED
      BY <1>15, <2>3, <3>1 DEF Holds
  <2>. QED
    BY <1>1, <1>5, <2>1, <2>2, <2>3 DEF Pending
<1>17. \A k \in 0..taskCount - 1 : k # task[t] => (Pending(k)' <=> Pending(k))
  BY <1>1, <1>13 DEF Pending
<1>18. \A i \in items : ran[job][i] = 0
  BY <1>3, <1>5, <1>16 DEF Written, items
<1>19. ASSUME NEW k \in 0..taskCount - 1, k # task[t], NEW i \in TaskItems(count, taskCount, k)
       PROVE  i \in Items /\ i \notin items
  <2>1. i \in Items
    BY <1>4, <1>19, ItemsOf
  <2>2. i \in 0..count - 1
    BY <1>4, <1>19, ItemsOfTask
  <2>. QED
    BY <1>4, <1>5, <1>19, <2>1, <2>2, ItemHasOneTask DEF items
<1>20. Written'
  <2>1. ASSUME NEW k \in 0..taskCount - 1
        PROVE  /\ Pending(k)' => \A i \in TaskItems(count, taskCount, k) : ran'[job][i] = 0
               /\ ~ Pending(k)' => \/ job \in thrown'
                                   \/ \A i \in TaskItems(count, taskCount, k) : ran'[job][i] # 0
    <3>1. CASE k = task[t]
      <4>1. ~ Pending(k)'
        BY <1>1, <1>16, <3>1
      <4>2. CASE where = "catch"
        BY <1>8, <4>1, <4>2
      <4>3. CASE where = "subtract"
        <5>1. \A i \in items : ran'[job][i] # 0
          BY <1>7, <1>8, <1>9, <1>18, <4>3
        <5>. QED
          BY <3>1, <4>1, <5>1 DEF items
      <4>. QED
        BY <4>2, <4>3
    <3>2. CASE k # task[t]
      <4>1. \A i \in TaskItems(count, taskCount, k) : ran'[job][i] = ran[job][i]
        BY <1>8, <1>9, <1>19, <3>2
      <4>2. /\ Pending(k) => \A i \in TaskItems(count, taskCount, k) : ran[job][i] = 0
            /\ ~ Pending(k) => \/ job \in thrown
                               \/ \A i \in TaskItems(count, taskCount, k) : ran[job][i] # 0
        BY <1>3 DEF Written
      <4>. QED
        BY <1>10, <1>17, <3>2, <4>1, <4>2
    <3>. QED
      BY <3>1, <3>2
  <2>. QED
    BY <1>1, <2>1 DEF Written
<1>21. RunsTask'
  <2>1. ASSUME NEW u \in Threads, u # t PROVE running'[u] = running[u] /\ pc'[u] = pc[u]
    BY <1>1, <1>11, <2>1 DEF TypeOK
  <2>2. running'[t] = Idle /\ pc'[t] # "run"
    BY <1>1, <1>8, <1>11 DEF TypeOK
  <2>. QED
    BY <1>1, <2>1, <2>2 DEF RunsTask
<1>22. Caught'
  <2>1. Recorded
    BY <1>3 DEF Caught
  <2>2. \A u \in Threads : u # t => (pc'[u] = "catch" <=> pc[u] = "catch")
    BY <1>11
  <2>3. Recorded'
    BY <1>1, <1>8, <1>11, <2>1, <2>2 DEF Recorded
  <2>. QED
    BY <1>1, <1>11, <2>3 DEF Caught
<1>23. Unfinished' = Unfinished
  BY <1>1, <1>13 DEF Unfinished
<1>24. Counted'
  BY <1>1, <1>11, <1>23 DEF Counted, UnderWay
<1>25. OneOwner'
  BY <1>7, <1>8, <1>9, <1>18 DEF OneOwner
<1>26. ReturnIsTrue'
  <2>1. \A u \in Threads : running'[u].job = running[u].job \/ running'[u].job = 0
    BY <1>1 DEF TypeOK, Idle
  <2>2. 0 \notin Jobs
    BY ExecutorAssumption DEF Jobs
  <2>3. CompleteOnReturn'
    <3>1. ASSUME NEW k \in Jobs, result[k] \in {"ok", "error"}
          PROVE  /\ \A u \in Threads : running[u].job # k
                 /\ k \notin thrown => \A i \in 0..size[k] - 1 : ran[k][i] # 0
                 /\ k # job
      BY <1>4, <3>1 DEF ReturnIsTrue, CompleteOnReturn
    <3>2. ASSUME NEW k \in Jobs, result[k] \in {"ok", "error"}
          PROVE  /\ \A u \in Threads : running'[u].job # k
                 /\ k \notin thrown' => \A i \in 0..size[k] - 1 : ran'[k][i] # 0
      BY <1>9, <1>10, <2>1, <2>2, <3>1, <3>2
    <3>. QED
      BY <1>1, <3>2 DEF CompleteOnReturn
  <2>4. ExceptionsReachCaller'
    BY <1>1, <1>4, <1>10 DEF ReturnIsTrue, ExceptionsReachCaller
  <2>. QED
    BY <2>3, <2>4 DEF ReturnIsTrue
<1>. QED
  BY <1>11, <1>12, <1>14, <1>20, <1>21, <1>22, <1>24, <1>25, <1>26

LEMMA CounterTyped ==
  ASSUME NEW r \in 0..Wrap - 1
  PROVE  (r - 1) % Wrap \in 0..Wrap - 1 /\ (r >= 1 => (r - 1) % Wrap = r - 1)
<1>1. Wrap \in Nat \ {0}
  BY Sizes
<1>. QED
  BY <1>1, Z3

LEMMA SubtractKeeps == ASSUME IInv, NEW t \in Threads, Subtract(t) PROVE IInv'
<1>. USE DEF IInv, Phases
<1>1. /\ pc[t] = "subtract" /\ remaining' = (remaining - 1) % Wrap /\ UNCHANGED taskFrame
      /\ UNCHANGED <<count, taskCount, job, exception, nextTask, generation, stopping, mutex,
                     submission, task, running, observed, mine, size, ran, thrown, result>>
  BY DEF Subtract, taskFrame
<1>2. PICK where \in {"notify", "fetch"} : Goto(t, where)
  BY DEF Subtract
<1>3. pc[t] \in TaskPCs /\ where \in TaskPCs \cup {"wait", "testDone"} /\ where # "wait"
  BY <1>1 DEF TaskPCs
<1>4. /\ pc' \in [Threads -> Known] /\ pc'[t] = where
      /\ \A u \in Threads : u # t => pc'[u] = pc[u]
      /\ (UnderWay' <=> UnderWay) /\ Callers' /\ Published' /\ SameCount'
      /\ submission # None => \A p \in {"publish", "publishNext", "publishRemaining", "collect"} :
                                pc'[submission] = p <=> pc[submission] = p
  BY <1>1, <1>2, <1>3, TaskMoves
<1>5. UnderWay
  BY <1>1, <1>3, Executes
<1>6. remaining \in 0..Wrap - 1 /\ remaining' \in 0..Wrap - 1 /\ (remaining >= 1 => remaining' = remaining - 1)
  BY <1>1, CounterTyped DEF TypeOK
<1>7. TypeOK'
  BY <1>1, <1>4, <1>6 DEF TypeOK, Known
<1>8. taskCount \in Nat /\ task \in [Threads -> Nat] /\ task[t] \in 0..taskCount - 1
  BY <1>1, <1>5, Sizes DEF TypeOK, Numbered, Holds
<1>9. /\ Holds(t) /\ ~ Holds(t)'
      /\ \A u \in Threads : u # t => (Holds(u)' <=> Holds(u))
  BY <1>1, <1>4 DEF Holds
<1>10. \A u \in Threads : /\ pc'[u] = "compare" <=> pc[u] = "compare"
                          /\ pc'[u] = "run" <=> pc[u] = "run"
                          /\ pc'[u] = "catch" <=> pc[u] = "catch"
                          /\ pc'[u] \in {"compare", "run"} <=> pc[u] \in {"compare", "run"}
  BY <1>1, <1>4
<1>11. Numbered' /\ Between' /\ RunsTask'
  BY <1>1, <1>4, <1>5, <1>9, <1>10 DEF Numbered, Between, RunsTask
<1>12. Written' /\ Caught'
  <2>1. \A k \in 0..taskCount - 1 : Pending(k)' <=> Pending(k)
    BY <1>1, <1>10 DEF Pending
  <2>2. Written'
    BY <1>1, <1>4, <2>1, TasksCarry
  <2>3. Caught'
    BY <1>1, <1>4, <1>10 DEF Caught, Recorded
  <2>. QED
    BY <2>2, <2>3
<1>13. task[t] \in Unfinished /\ Unfinished' = Unfinished \ {task[t]}
  <2>1. task[t] \in Unfinished
    BY <1>8, <1>9 DEF Unfinished
  <2>2. task[t] < nextTask
    BY <1>5, <1>8, <1>9 DEF Numbered
  <2>3. \A u \in Threads : u # t /\ Holds(u) => task[u] # task[t]
    BY <1>5, <1>8, <1>9 DEF Numbered
  <2>4. ASSUME NEW k \in 0..taskCount - 1
        PROVE  (k >= nextTask \/ \E u \in Threads : Holds(u)' /\ task[u] = k) <=>
               (k >= nextTask \/ \E u \in Threads : Holds(u) /\ task[u] = k) /\ k # task[t]
    <3>1. CASE k = task[t]
      BY <1>8, <1>9, <2>2, <2>3, <3>1 DEF TypeOK
    <3>2. CASE k # task[t]
      BY <1>9, <3>2
    <3>. QED
      BY <3>1, <3>2
  <2>. QED
    BY <1>1, <2>1, <2>4 DEF Unfinished
<1>14. IsFiniteSet(Unfinished) /\ Cardinality(Unfinished) \in Nat /\ Cardinality(Unfinished) >= 1
       /\ Cardinality(Unfinished \ {task[t]}) = Cardinality(Unfinished) - 1
  <2>1. IsFiniteSet(Unfinished)
    <3>1. PICK last \in Int : last = taskCount - 1
      BY <1>8
    <3>2. IsFiniteSet(0..last)
      BY FS_Interval
    <3>. QED
      BY <3>1, <3>2, FS_Subset DEF Unfinished
  <2>2. Cardinality(Unfinished) \in Nat /\ Cardinality(Unfinished) # 0
    BY <1>13, <2>1, FS_CardinalityType, FS_EmptySet
  <2>3. Cardinality(Unfinished \ {task[t]}) = Cardinality(Unfinished) - 1
    BY <1>13, <2>1, FS_RemoveElement
  <2>. QED
    BY <2>1, <2>2, <2>3
<1>15. Counted'
  <2>1. pc[submission] # "publishRemaining" => Cardinality(Unfinished') <= remaining'
    BY <1>5, <1>6, <1>13, <1>14 DEF Counted
  <2>2. pc[submission] # "collect"
    BY <1>5, <1>14 DEF Counted, UnderWay
  <2>. QED
    BY <1>1, <1>4, <1>5, <2>1, <2>2 DEF Counted, UnderWay
<1>16. OneOwner' /\ ReturnIsTrue'
  BY <1>1 DEF OneOwner, ReturnIsTrue, CompleteOnReturn, ExceptionsReachCaller
<1>. QED
  BY <1>4, <1>7, <1>11, <1>12, <1>15, <1>16

LEMMA NotifyKeeps == ASSUME IInv, NEW t \in Threads, Notify(t) PROVE IInv'
<1>. USE DEF IInv, Phases
<1>1. /\ pc[t] = "notify"
      /\ pc' = [u \in Threads |->
                  IF u = t THEN "fetch" ELSE IF pc[u] = "blocked" THEN "testDone" ELSE pc[u]]
      /\ UNCHANGED <<count, taskCount, job, exception, nextTask, remaining, generation, stopping, mutex,
                     submission, task, running, observed, mine, size, ran, thrown, result>>
  BY DEF Notify, taskFrame
<1>2. /\ pc' \in [Threads -> Known] /\ pc'[t] = "fetch"
      /\ \A u \in Threads : u # t => pc'[u] = pc[u] \/ (pc[u] = "blocked" /\ pc'[u] = "testDone")
  BY <1>1, Places DEF TypeOK, Known
<1>3. TypeOK'
  BY <1>1, <1>2 DEF TypeOK, Known
<1>4. submission # None => submission \in Submitters /\ submission \in Threads
  BY DEF TypeOK, Threads
<1>5. submission # None => \A p \in {"publish", "publishNext", "publishRemaining", "collect"} :
                             pc'[submission] = p <=> pc[submission] = p
  BY <1>1, <1>2, <1>4
<1>6. UnderWay' <=> UnderWay
  BY <1>1, <1>5 DEF UnderWay
<1>7. SameHolders
  BY <1>1, <1>2 DEF SameHolders
<1>8. Callers'
  <2>1. t \in Submitters => Caller(t)'
    BY <1>1, <1>2 DEF Caller, Callers, HolderPCs, TaskPCs, Untouched, Tasks
  <2>2. 0 \notin Jobs /\ \A r \in Submitters : pc[r] # "idle" => mine[r] # 0
    BY ExecutorAssumption DEF Jobs, Callers, Caller
  <2>. QED
    BY <1>1, <1>2, <2>1, <2>2, CallersStay
<1>9. Published' /\ SameCount'
  BY <1>1, <1>5 DEF Published, SameCount, Tasks
<1>10. Numbered' /\ Written' /\ RunsTask' /\ (Stale => Stale') /\ (UnderWay /\ Recorded => Recorded')
       /\ Unfinished' = Unfinished
  BY <1>1, <1>6, <1>7, TasksStay
<1>11. Between'
  <2>1. Asleep => Asleep'
    BY <1>1, <1>2 DEF Asleep, Threads
  <2>. QED
    BY <1>1, <1>6, <1>10, <2>1 DEF Between
<1>12. Caught'
  BY <1>1, <1>5, <1>6, <1>10 DEF Caught
<1>13. Counted'
  BY <1>1, <1>5, <1>6, <1>10 DEF Counted, UnderWay
<1>14. OneOwner' /\ ReturnIsTrue'
  BY <1>1 DEF OneOwner, ReturnIsTrue, CompleteOnReturn, ExceptionsReachCaller
<1>. QED
  BY <1>3, <1>8, <1>9, <1>10, <1>11, <1>12, <1>13, <1>14

-----------------------------------------------------------------------------
(* A call waits for its tasks and returns; the executor is destroyed. *)

(* TestDone and Block: the call that holds submission_mutex_ waits. *)
LEMMA WaitKeeps ==
  ASSUME IInv, NEW s \in Submitters, NEW where \in {"collect", "block", "blocked"},
         Goto(s, where), pc[s] \in {"testDone", "block"},
         where = "collect" => remaining = 0,
         mutex' \in Submitters \cup {None},
         UNCHANGED <<count, taskCount, job, exception, nextTask, remaining, generation, stopping,
                     submission, task, running, observed, mine, size, ran, thrown, result>>
  PROVE  IInv'
<1>. USE DEF IInv, Phases
<1>1. pc[s] \in HolderPCs /\ where \in HolderPCs
  BY DEF HolderPCs
<1>2. /\ pc' \in [Threads -> Known] /\ pc'[s] = where /\ \A u \in Threads : u # s => pc'[u] = pc[u]
      /\ submission = s /\ s # None /\ s \in Threads
      /\ Callers' /\ Published' /\ SameCount' /\ OneOwner'
  BY <1>1, HolderMoves
<1>3. TypeOK'
  BY <1>2 DEF TypeOK, Known
<1>4. UnderWay /\ UnderWay' /\ SameHolders
  BY <1>2 DEF UnderWay, SameHolders
<1>5. Numbered' /\ Written' /\ RunsTask' /\ Recorded' /\ Unfinished' = Unfinished
  BY <1>4, TasksStay DEF Caught
<1>6. Caught' /\ Between'
  BY <1>2, <1>4, <1>5 DEF Caught, Between
<1>7. Counted'
  BY <1>2, <1>4, <1>5 DEF Counted
<1>8. ReturnIsTrue'
  BY DEF ReturnIsTrue, CompleteOnReturn, ExceptionsReachCaller
<1>. QED
  BY <1>2, <1>3, <1>5, <1>6, <1>7, <1>8

LEMMA CollectKeeps == ASSUME IInv, NEW s \in Submitters, Collect(s) PROVE IInv'
<1>. USE DEF IInv, Phases
<1>1. /\ pc[s] = "collect" /\ job' = 0 /\ mutex' = None /\ submission' = None /\ Goto(s, "idle")
      /\ result' = [result EXCEPT ![mine[s]] = IF exception THEN "error" ELSE "ok"]
      /\ UNCHANGED <<count, taskCount, exception, nextTask, remaining, generation, stopping,
                     task, running, observed, mine, size, ran, thrown>>
      /\ s \in Threads /\ s # None
  BY ExecutorAssumption DEF Collect, finishFrame, threadVars, historyVars, Threads
<1>2. pc' \in [Threads -> Known] /\ pc'[s] = "idle" /\ \A u \in Threads : u # s => pc'[u] = pc[u]
  BY <1>1, Went, Places
<1>3. submission = s
  BY <1>1 DEF Callers, Caller, HolderPCs
<1>4. UnderWay /\ ~ UnderWay'
  BY <1>1, <1>3 DEF UnderWay
<1>5. /\ job = mine[s] /\ job \in Jobs /\ job # 0 /\ result[job] = "open" /\ count = size[job]
      /\ count \in Nat \ {0} /\ taskCount \in Nat \ {0}
      /\ \A r \in Submitters : r # s /\ pc[r] # "idle" => mine[r] # job
  BY <1>1, <1>3, JobUnderWay
<1>6. /\ result' \in [Jobs -> {None, "open", "ok", "error"}]
      /\ result'[job] = (IF exception THEN "error" ELSE "ok")
      /\ \A k \in Jobs : k # job => result'[k] = result[k]
  BY <1>1, <1>5 DEF TypeOK
<1>7. TypeOK'
  BY <1>1, <1>2, <1>6, ExecutorAssumption DEF TypeOK, Known
<1>8. Unfinished = {}
  <2>1. IsFiniteSet(Unfinished)
    <3>1. PICK last \in Int : last = taskCount - 1
      BY <1>5
    <3>2. IsFiniteSet(0..last)
      BY FS_Interval
    <3>. QED
      BY <3>1, <3>2, FS_Subset DEF Unfinished
  <2>2. Cardinality(Unfinished) <= 0 /\ Cardinality(Unfinished) \in Nat
    BY <1>1, <1>3, <1>4, <2>1, FS_CardinalityType DEF Counted
  <2>. QED
    BY <2>1, <2>2, FS_EmptySet
<1>9. \A k \in 0..taskCount - 1 : k < nextTask /\ \A t \in Threads : Holds(t) => task[t] # k
  <2>. SUFFICES ASSUME NEW k \in 0..taskCount - 1
                PROVE  k < nextTask /\ \A t \in Threads : Holds(t) => task[t] # k
    OBVIOUS
  <2>1. ~ (k >= nextTask \/ \E t \in Threads : Holds(t) /\ task[t] = k)
    BY <1>8 DEF Unfinished
  <2>2. nextTask \in Nat /\ k \in Int
    BY <1>5 DEF TypeOK
  <2>. QED
    BY <2>1, <2>2
<1>10. nextTask >= taskCount /\ taskCount > 0
  <2>1. taskCount - 1 \in 0..taskCount - 1 /\ nextTask \in Nat
    BY <1>5 DEF TypeOK
  <2>2. taskCount - 1 < nextTask
    BY <1>9, <2>1
  <2>. QED
    BY <1>5, <2>1, <2>2
<1>11. \A t \in Threads : Holds(t) => pc[t] = "compare" /\ task[t] >= taskCount
  <2>. SUFFICES ASSUME NEW t \in Threads, Holds(t) PROVE pc[t] = "compare" /\ task[t] >= taskCount
    OBVIOUS
  <2>1. task[t] \in Nat /\ task[t] \notin 0..taskCount - 1
    BY <1>9 DEF TypeOK
  <2>2. task[t] >= taskCount
    BY <1>5, <2>1
  <2>. QED
    BY <1>4, <1>5, <2>1, <2>2 DEF Numbered
<1>12. \A t \in Threads : pc[t] \notin {"run", "catch"} /\ running[t] = Idle
  BY <1>11 DEF Holds, RunsTask
<1>13. Callers'
  <2>1. Caller(s)'
    BY <1>1, <1>2, Places DEF Caller
  <2>2. \A r \in Submitters : r # s => (submission' = r <=> submission = r)
    BY <1>1, <1>3, ExecutorAssumption
  <2>. QED
    BY <1>1, <1>2, <1>5, <1>6, <2>1, <2>2, CallersStay DEF None
<1>14. Published' /\ SameCount'
  BY <1>1 DEF Published, SameCount, Tasks
<1>15. Between'
  BY <1>1, <1>2, <1>10, <1>11 DEF Between, Stale, Holds
<1>16. RunsTask'
  BY <1>1, <1>2, <1>12 DEF RunsTask
<1>17. Numbered' /\ Written' /\ Caught' /\ Counted'
  BY <1>1, <1>4 DEF Numbered, Written, Caught, Counted
<1>18. OneOwner'
  BY <1>1 DEF OneOwner
<1>19. job \in thrown <=> exception
  BY <1>4, <1>12 DEF Caught, Recorded
<1>20. job \notin thrown => \A i \in 0..size[job] - 1 : ran[job][i] # 0
  <2>. SUFFICES ASSUME job \notin thrown, NEW i \in 0..count - 1 PROVE ran[job][i] # 0
    BY <1>5
  <2>1. PICK k \in 0..taskCount - 1 : i \in TaskItems(count, taskCount, k)
    BY <1>5, ItemHasOneTask
  <2>2. ~ Pending(k)
    BY <1>9, <2>1 DEF Pending, Holds, TypeOK
  <2>. QED
    BY <1>4, <2>1, <2>2 DEF Written
<1>21. ReturnIsTrue'
  <2>1. \A k \in Jobs, t \in Threads : running'[t].job # k
    BY <1>1, <1>12, ExecutorAssumption DEF Idle, Jobs
  <2>2. CompleteOnReturn'
    BY <1>1, <1>6, <1>20, <2>1 DEF ReturnIsTrue, CompleteOnReturn
  <2>3. ExceptionsReachCaller'
    BY <1>1, <1>6, <1>19 DEF ReturnIsTrue, ExceptionsReachCaller
  <2>. QED
    BY <2>2, <2>3 DEF ReturnIsTrue
<1>. QED
  BY <1>7, <1>13, <1>14, <1>15, <1>16, <1>17, <1>18, <1>21

LEMMA DestroyKeeps == ASSUME IInv, Destroy PROVE IInv'
<1>. USE DEF IInv, Phases
<1>1. /\ \A s \in Submitters : pc[s] = "idle"
      /\ stopping' = TRUE /\ generation' = generation + 1
      /\ UNCHANGED <<count, taskCount, job, exception, nextTask, remaining, mutex, submission, pc,
                     task, running, observed, mine, size, ran, thrown, result>>
  BY DEF Destroy, threadVars, historyVars
<1>2. submission = None
  BY <1>1, Places DEF TypeOK, Callers, Caller
<1>3. TypeOK'
  BY <1>1 DEF TypeOK
<1>4. ~ UnderWay /\ ~ UnderWay'
  BY <1>1, <1>2 DEF UnderWay
<1>5. Callers'
  BY <1>1 DEF Callers, Caller, Untouched, Tasks
<1>6. Published' /\ SameCount' /\ Numbered' /\ Written' /\ Caught' /\ Counted'
  BY <1>1, <1>2, <1>4 DEF Published, SameCount, Numbered, Written, Caught, Counted, Tasks
<1>7. Between' /\ RunsTask'
  BY <1>1, <1>4 DEF Between, Asleep, Stale, Holds, RunsTask
<1>8. OneOwner' /\ ReturnIsTrue'
  BY <1>1 DEF OneOwner, ReturnIsTrue, CompleteOnReturn, ExceptionsReachCaller
<1>. QED
  BY <1>3, <1>5, <1>6, <1>7, <1>8

-----------------------------------------------------------------------------
LEMMA ExecuteKeeps == ASSUME IInv, NEW t \in Threads, Execute(t) PROVE IInv'
BY FetchKeeps, CompareKeeps, RunKeeps, CatchKeeps, SubtractKeeps, NotifyKeeps DEF Execute

LEMMA SubmitterStepKeeps ==
  ASSUME IInv, SameTasks, NEW s \in Submitters, SubmitterStep(s) PROVE IInv'
<1>1. CASE TestDone(s)
  <2>1. PICK where \in {"collect", "block"} : Goto(s, where) /\ (where = "collect" => remaining = 0)
    BY <1>1 DEF TestDone
  <2>. QED
    BY <1>1, <2>1, WaitKeeps DEF TestDone, finishFrame, threadVars, historyVars
<1>2. CASE Block(s)
  BY <1>2, WaitKeeps DEF Block, finishFrame, threadVars, historyVars
<1>3. CASE Execute(s)
  <2>1. s \in Threads
    BY DEF Threads
  <2>. QED
    BY <1>3, <2>1, ExecuteKeeps
<1>. QED
  BY <1>1, <1>2, <1>3, SerialKeeps, LockSubmissionKeeps, PublishKeeps, PublishNextKeeps,
     PublishRemainingKeeps, CollectKeeps DEF SubmitterStep

LEMMA StepKeeps == ASSUME SameTasks, IInv, [Next]_vars PROVE IInv'
<1>1. CASE UNCHANGED vars
  BY <1>1 DEF vars, sharedVars, threadVars, historyVars, IInv, Phases, TypeOK, RunsTask, Callers,
     Caller, Untouched, Published, SameCount, Between, UnderWay, Asleep, Stale, Holds, Numbered,
     Written, Pending, Caught, Recorded, Counted, Unfinished, OneOwner, ReturnIsTrue,
     CompleteOnReturn, ExceptionsReachCaller, Tasks
<1>2. ASSUME NEW w \in Workers, WorkerStep(w) PROVE IInv'
  <2>1. w \in Threads
    BY DEF Threads
  <2>. QED
    BY <1>2, <2>1, WorkerWakeKeeps, WorkerLeaveKeeps, ExecuteKeeps DEF WorkerStep
<1>. QED
  BY <1>1, <1>2, SubmitterStepKeeps, SubmitKeeps, DestroyKeeps DEF Next

LEMMA Invariance == ASSUME SameTasks PROVE Spec => []IInv
<1>1. Init => IInv
  BY InitEstablishes
<1>2. IInv /\ [Next]_vars => IInv'
  BY StepKeeps
<1>. QED
  BY <1>1, <1>2, PTL DEF Spec

(* Every variable keeps its type: no more tasks than workers, and the      *)
(* counter of remaining tasks within its width (cpu_parallel_executor.hpp).*)
THEOREM ExecutorTyped == ASSUME SameTasks PROVE Spec => []TypeOK
<1>1. IInv => TypeOK
  BY DEF IInv
<1>. QED
  BY <1>1, Invariance, PTL

(* No item is processed twice, for any number of workers, submitters and   *)
(* calls, when all jobs of several tasks have the same number of them: the *)
(* number that a straggler of an earlier job holds is past the end of the  *)
(* next job too.                                                           *)
THEOREM ItemsHaveOneOwner == ASSUME SameTasks PROVE Spec => []OneOwner
<1>1. IInv => OneOwner
  BY DEF IInv
<1>. QED
  BY <1>1, Invariance, PTL

(* When parallel_for returns, its items have been processed, nobody is     *)
(* still inside its function, and it throws if and only if one of its own  *)
(* tasks threw - under the same hypothesis.                                *)
THEOREM ReturnsAreTrue == ASSUME SameTasks PROVE Spec => []ReturnIsTrue
<1>1. IInv => ReturnIsTrue
  BY DEF IInv
<1>. QED
  BY <1>1, Invariance, PTL

(* The hypothesis of the theorems above holds of every use of the executor *)
(* in which a call has one item or at least as many as there are workers.  *)
THEOREM LargeJobsShareTasks ==
  ASSUME \A n \in Counts : n = 1 \/ n >= Cardinality(Workers)
  PROVE  SameTasks
<1>1. ASSUME NEW n \in Nat \ {0} PROVE Pieces(n, Most(1, 1)) = n
  <2>1. 1 * n <= n /\ n < 1 * (n + 1) /\ n + 1 \in Nat
    OBVIOUS
  <2>2. n \div 1 \in Nat /\ n <= n \div 1 /\ n \div 1 < n + 1
    BY <2>1, Quotient, QuotientAbove, QuotientBelow
  <2>. QED
    BY <2>2 DEF Pieces, Most
<1>2. \A n \in Counts : n \in Nat \ {0} /\ Tasks(n) = Least(Cardinality(Workers), n)
  BY <1>1, ExecutorAssumption DEF Tasks, TaskCount
<1>3. Cardinality(Workers) \in Nat \ {0}
  BY Sizes
<1>4. ASSUME NEW n \in Counts, Tasks(n) > 1 PROVE Tasks(n) = Cardinality(Workers)
  BY <1>2, <1>3, <1>4 DEF Least
<1>. QED
  BY <1>4 DEF SameTasks

-----------------------------------------------------------------------------
(* Render graphs: least and greatest passes.                               *)

LEMMA LeastNumber ==
  ASSUME NEW S \in SUBSET Nat, S # {}
  PROVE  \E m \in S : \A k \in S : m <= k
<1>1. PICK m \in S : \A k \in S : <<k, m>> \notin OpToRel(<, Nat)
  BY WFMin, NatLessThanWellFounded, Zenon
<1>2. \A k \in S : k \in Nat /\ m \in Nat /\ ~ (k < m)
  BY <1>1, Zenon DEF OpToRel
<1>3. \A k \in S : m <= k
  BY <1>2
<1> QED
  BY <1>3

LEMMA MinIs ==
  ASSUME NEW S \in SUBSET Nat, S # {}
  PROVE  Min(S) \in S /\ \A k \in S : Min(S) <= k
BY LeastNumber DEF Min

LEMMA MaxIs ==
  ASSUME NEW n \in Nat, NEW S \in SUBSET (0..n), S # {}
  PROVE  Max(S) \in S /\ \A k \in S : k <= Max(S)
<1> DEFINE R == {n - k : k \in S}
<1>1. R \in SUBSET Nat /\ R # {}
  <2>1. \A k \in S : k \in 0..n
    OBVIOUS
  <2>2. \A k \in S : n - k \in Nat
    BY <2>1
  <2> QED
    BY <2>2
<1>2. PICK m \in R : \A k \in R : m <= k
  <2> HIDE DEF R
  <2> QED
    BY <1>1, LeastNumber
<1>3. PICK x \in S : m = n - x
  BY <1>2
<1>4. ASSUME NEW y \in S PROVE x >= y
  <2>1. m <= n - y
    BY <1>2
  <2> QED
    BY <1>3, <2>1
<1>5. \E z \in S : \A y \in S : z >= y
  BY <1>4
<1>6. Max(S) \in S /\ \A y \in S : Max(S) >= y
  BY <1>5 DEF Max
<1> QED
  BY <1>6

\* What the builder's calls make of a graph.
WellFormed(g) ==
  /\ Len(g.passes) \in Nat /\ Len(g.resources) \in Nat
  /\ DOMAIN g.resources = 1..Len(g.resources)

\* The last writer before p, if any, writes r, and no later pass before p does.
LEMMA LastWriterIs ==
  ASSUME NEW g, NEW r, NEW p \in Nat \ {0}
  PROVE  \/ /\ LastWriter(g, r, p) = 0
            /\ \A q \in 1..p - 1 : r \notin g.passes[q].writes
         \/ /\ LastWriter(g, r, p) \in 1..p - 1
            /\ r \in g.passes[LastWriter(g, r, p)].writes
            /\ \A q \in 1..p - 1 : r \in g.passes[q].writes => q <= LastWriter(g, r, p)
<1> DEFINE W == {q \in 1..p - 1 : r \in g.passes[q].writes}
<1>1. LastWriter(g, r, p) = IF W = {} THEN 0 ELSE Max(W)
  BY DEF LastWriter, Latest
<1>2. W \in SUBSET (0..p) /\ p \in Nat
  OBVIOUS
<1>3. CASE W = {}
  BY <1>1, <1>3
<1>4. CASE W # {}
  <2>1. Max(W) \in W /\ \A k \in W : k <= Max(W)
    <3> HIDE DEF W
    <3> QED
      BY <1>2, <1>4, MaxIs
  <2> QED
    BY <1>1, <1>4, <2>1
<1> QED
  BY <1>3, <1>4

LEMMA BeforeAre ==
  ASSUME NEW g, WellFormed(g), NEW p \in Passes(g)
  PROVE  Before(g, p) \subseteq Passes(g)
<1> DEFINE N == Len(g.passes)
<1>1. N \in Nat /\ Passes(g) = 1..N /\ p \in 1..N
  BY DEF WellFormed, Passes
<1>2. ASSUME NEW r PROVE LastWriter(g, r, p) = 0 \/ LastWriter(g, r, p) \in 1..N
  <2>1. LastWriter(g, r, p) = 0 \/ LastWriter(g, r, p) \in 1..p - 1
    BY <1>1, LastWriterIs
  <2> QED
    BY <1>1, <2>1
<1>3. \A r : ReadersSince(g, r, p) \subseteq 1..N
  BY <1>1 DEF ReadersSince
<1>4. Inferred(g, p) \subseteq 1..N
  BY <1>2, <1>3 DEF Inferred
<1> QED
  BY <1>1, <1>4 DEF Before

LEMMA LiveIs ==
  ASSUME NEW g, WellFormed(g)
  PROVE  /\ Live(g) \subseteq Passes(g) /\ Roots(g) \subseteq Live(g)
         /\ \A p \in Live(g) : Before(g, p) \subseteq Live(g)
         /\ IsFiniteSet(Live(g)) /\ Cardinality(Live(g)) \in Nat
<1> DEFINE Closed(S) == Roots(g) \subseteq S /\ \A p \in S : Before(g, p) \subseteq S
<1>1. Live(g) = {p \in Passes(g) : \A S \in SUBSET Passes(g) : Closed(S) => p \in S}
  BY DEF Live
<1>2. Roots(g) \subseteq Passes(g)
  <2> DEFINE N == Len(g.passes)
  <2>1. N \in Nat /\ N + 1 \in Nat \ {0} /\ (N + 1) - 1 = N /\ Passes(g) = 1..N
    BY DEF WellFormed, Passes
  <2>2. ASSUME NEW r PROVE LastWriter(g, r, N + 1) = 0 \/ LastWriter(g, r, N + 1) \in 1..N
    BY <2>1, LastWriterIs
  <2> QED
    BY <2>1, <2>2 DEF Roots
<1>3. Roots(g) \subseteq Live(g)
  BY <1>1, <1>2
<1>4. ASSUME NEW p \in Live(g), NEW q \in Before(g, p) PROVE q \in Live(g)
  <2>1. q \in Passes(g)
    BY <1>1, BeforeAre
  <2>2. ASSUME NEW S \in SUBSET Passes(g), Closed(S) PROVE q \in S
    BY <1>1, <2>2
  <2> QED
    BY <1>1, <2>1, <2>2
<1>5. IsFiniteSet(Passes(g))
  BY FS_Interval DEF Passes, WellFormed
<1>6. IsFiniteSet(Live(g)) /\ Cardinality(Live(g)) \in Nat
  BY <1>1, <1>5, FS_Subset, FS_CardinalityType
<1> QED
  BY <1>1, <1>3, <1>4, <1>6

-----------------------------------------------------------------------------
(* The order: every pass once, after what it depends on.                   *)

\* What Kahn's sort has put in order.
Sorted(g, s) ==
  /\ s \in Seq(Live(g))
  /\ \A i, j \in 1..Len(s) : s[i] = s[j] => i = j
  /\ \A i \in 1..Len(s) : \A q \in Before(g, s[i]) \intersect Live(g) :
       \E j \in 1..i - 1 : s[j] = q

\* What Order sorts, pass by pass.
Sorting(g, f, m) ==
  f = [n \in 0..m |-> IF n = 0 THEN <<>>
                      ELSE IF Ready(g, Live(g), f[n - 1]) = {} THEN f[n - 1]
                      ELSE Append(f[n - 1], Min(Ready(g, Live(g), f[n - 1])))]

LEMMA SortingExists == ASSUME NEW g, NEW k \in Nat PROVE \E f : Sorting(g, f, k)
<1> DEFINE Bad == {m \in Nat : ~ \E f : Sorting(g, f, m)}
<1>1. SUFFICES ASSUME Bad # {} PROVE FALSE
  OBVIOUS
<1>2. PICK m \in Bad : \A n \in Bad : m <= n
  <2>1. Bad \in SUBSET Nat
    OBVIOUS
  <2> HIDE DEF Bad
  <2> QED
    BY <1>1, <2>1, LeastNumber
<1>3. CASE m = 0
  <2> DEFINE h == [n \in 0..0 |-> <<>>]
  <2>1. /\ h = [n \in 0..0 |-> h[n]] /\ \A n \in 0..0 : n = 0 /\ h[n] = <<>>
    OBVIOUS
  <2> HIDE DEF h
  <2>2. Sorting(g, h, 0)
    BY <2>1 DEF Sorting
  <2> QED
    BY <1>3, <2>2
<1>4. CASE m # 0
  <2>1. m \in Nat \ {0} /\ m - 1 \in Nat /\ m - 1 \notin Bad
    <3>1. m \in Nat /\ \A n \in Bad : m <= n
      BY <1>2
    <3> HIDE DEF Bad
    <3> QED
      BY <1>4, <3>1
  <2>2. PICK f : Sorting(g, f, m - 1)
    BY <2>1
  <2> DEFINE More(e) == IF Ready(g, Live(g), e) = {} THEN e
                        ELSE Append(e, Min(Ready(g, Live(g), e)))
             h == [n \in 0..m |-> IF n = m THEN More(f[m - 1]) ELSE f[n]]
  <2>3. \A n \in 0..m - 1 : f[n] = IF n = 0 THEN <<>> ELSE More(f[n - 1])
    <3>1. f = [n \in 0..m - 1 |-> IF n = 0 THEN <<>> ELSE More(f[n - 1])]
      BY <2>2 DEF Sorting
    <3> HIDE DEF More
    <3> QED
      BY <3>1
  <2> HIDE DEF More
  <2>4. ASSUME NEW n \in 0..m PROVE h[n] = IF n = 0 THEN <<>> ELSE More(h[n - 1])
    <3>1. CASE n = m
      <4>1. m - 1 \in 0..m /\ m - 1 # m /\ h[m - 1] = f[m - 1] /\ m # 0
        BY <2>1
      <4> QED
        BY <3>1, <4>1
    <3>2. CASE n # m
      <4>1. n \in 0..m - 1
        BY <2>1, <3>2
      <4>2. h[n] = f[n]
        BY <3>2
      <4>3. n # 0 => n - 1 \in 0..m /\ n - 1 # m /\ h[n - 1] = f[n - 1]
        BY <2>1, <4>1
      <4> QED
        BY <2>3, <4>1, <4>2, <4>3
    <3> QED
      BY <3>1, <3>2
  <2>5. h = [n \in 0..m |-> h[n]]
    OBVIOUS
  <2> HIDE DEF h
  <2>6. h = [n \in 0..m |-> IF n = 0 THEN <<>> ELSE More(h[n - 1])]
    BY <2>4, <2>5
  <2>7. Sorting(g, h, m)
    BY <2>6 DEF Sorting, More
  <2> QED
    BY <2>7
<1> QED
  BY <1>3, <1>4

LEMMA OrderIs ==
  ASSUME NEW g, WellFormed(g)
  PROVE  \E f : Sorting(g, f, Cardinality(Live(g))) /\ Order(g) = f[Cardinality(Live(g))]
<1>1. \E f : Sorting(g, f, Cardinality(Live(g)))
  BY LiveIs, SortingExists
<1>2. Order(g) = (CHOOSE f : Sorting(g, f, Cardinality(Live(g))))[Cardinality(Live(g))]
  BY DEF Order, Sorting
<1> QED
  BY <1>1, <1>2

LEMMA SortedGrows ==
  ASSUME NEW g, NEW s, Sorted(g, s), NEW p \in Ready(g, Live(g), s)
  PROVE  Sorted(g, Append(s, p))
<1> DEFINE t == Append(s, p)
<1>1. /\ p \in Live(g) /\ s \in Seq(Live(g)) /\ Len(s) \in Nat /\ DOMAIN s = 1..Len(s)
      /\ \A i \in 1..Len(s) : s[i] # p
      /\ \A q \in Before(g, p) \intersect Live(g) : \E j \in 1..Len(s) : s[j] = q
  BY DEF Ready, Sorted
<1>2. /\ t \in Seq(Live(g)) /\ Len(t) = Len(s) + 1 /\ t[Len(s) + 1] = p
      /\ \A i \in 1..Len(s) : t[i] = s[i]
  BY <1>1
<1>3. \A i \in 1..Len(t) : i \in 1..Len(s) \/ i = Len(s) + 1
  BY <1>1, <1>2
<1> HIDE DEF t
<1>4. ASSUME NEW i \in 1..Len(t), NEW j \in 1..Len(t), t[i] = t[j] PROVE i = j
  BY <1>1, <1>2, <1>3, <1>4 DEF Sorted
<1>5. ASSUME NEW i \in 1..Len(t), NEW q \in Before(g, t[i]) \intersect Live(g)
      PROVE  \E j \in 1..i - 1 : t[j] = q
  <2>1. CASE i \in 1..Len(s)
    <3>1. PICK j \in 1..i - 1 : s[j] = q
      BY <1>2, <1>5, <2>1 DEF Sorted
    <3>2. j \in 1..Len(s)
      BY <1>1, <2>1
    <3> QED
      BY <1>2, <3>1, <3>2
  <2>2. CASE i = Len(s) + 1
    <3>1. PICK j \in 1..Len(s) : s[j] = q
      BY <1>1, <1>2, <1>5, <2>2
    <3>2. j \in 1..i - 1
      BY <1>1, <2>2
    <3> QED
      BY <1>2, <3>1, <3>2
  <2> QED
    BY <1>3, <2>1, <2>2
<1> QED
  BY <1>2, <1>4, <1>5 DEF Sorted, t

LEMMA OrderIsSorted == ASSUME NEW g, WellFormed(g) PROVE Sorted(g, Order(g))
<1> DEFINE C == Cardinality(Live(g))
<1>1. PICK f : Sorting(g, f, C) /\ Order(g) = f[C]
  BY OrderIs
<1>2. C \in Nat /\ Live(g) \subseteq Nat
  BY LiveIs DEF Passes
<1>3. \A n \in 0..C : f[n] = IF n = 0 THEN <<>>
                             ELSE IF Ready(g, Live(g), f[n - 1]) = {} THEN f[n - 1]
                             ELSE Append(f[n - 1], Min(Ready(g, Live(g), f[n - 1])))
  <2> HIDE DEF C
  <2> QED
    BY <1>1 DEF Sorting
<1> HIDE DEF C
<1> DEFINE Bad == {n \in 0..C : ~ Sorted(g, f[n])}
<1>4. Bad = {}
  <2>1. SUFFICES ASSUME Bad # {} PROVE FALSE
    OBVIOUS
  <2>2. PICK n \in Bad : \A k \in Bad : n <= k
    <3>1. Bad \in SUBSET Nat
      BY <1>2
    <3> HIDE DEF Bad
    <3> QED
      BY <2>1, <3>1, LeastNumber
  <2>3. Sorted(g, <<>>)
    <3>1. <<>> \in Seq(Live(g)) /\ 1..Len(<<>>) = {}
      OBVIOUS
    <3> QED
      BY <3>1 DEF Sorted
  <2>4. n # 0 /\ n \in 0..C
    BY <1>3, <2>2, <2>3
  <2>5. n - 1 \in 0..C /\ ~ (n <= n - 1)
    BY <1>2, <2>4
  <2>6. Sorted(g, f[n - 1])
    BY <2>2, <2>5
  <2> DEFINE R == Ready(g, Live(g), f[n - 1])
  <2>7. R \subseteq Nat
    BY <1>2 DEF Ready
  <2>8. R # {} => Min(R) \in R
    <3> HIDE DEF R
    <3> QED
      BY <2>7, MinIs
  <2>9. R # {} => Sorted(g, Append(f[n - 1], Min(R)))
    BY <2>6, <2>8, SortedGrows
  <2>10. f[n] = IF R = {} THEN f[n - 1] ELSE Append(f[n - 1], Min(R))
    BY <1>3, <2>4
  <2>11. ~ Sorted(g, f[n])
    BY <2>2
  <2> HIDE DEF R
  <2> QED
    BY <2>6, <2>9, <2>10, <2>11
<1>5. C \in 0..C
  BY <1>2
<1> QED
  BY <1>1, <1>4, <1>5

\* A sort that is as long as there are live passes has them all.
LEMMA OrderIsWhole ==
  ASSUME NEW g, WellFormed(g), ~ Cyclic(g), NEW p \in Live(g)
  PROVE  \E i \in 1..Len(Order(g)) : Order(g)[i] = p
<1> DEFINE s == Order(g)
<1>1. /\ s \in Seq(Live(g)) /\ \A i, j \in 1..Len(s) : s[i] = s[j] => i = j
      /\ Len(s) = Cardinality(Live(g)) /\ IsFiniteSet(Live(g)) /\ Len(s) \in Nat
  BY OrderIsSorted, LiveIs DEF Sorted, Cyclic
<1> HIDE DEF s
<1>2. s \in [1..Len(s) -> Live(g)]
  BY <1>1
<1>3. s \in Injection(1..Len(s), Live(g))
  BY <1>1, <1>2 DEF Injection, IsInjective
<1>4. Cardinality(1..Len(s)) = Len(s)
  BY <1>1, FS_Interval
<1>5. s \in Surjection(1..Len(s), Live(g))
  BY <1>1, <1>3, <1>4, FS_Injection
<1> QED
  BY <1>5 DEF Surjection, s

-----------------------------------------------------------------------------
(* Passes that write a resource run in the order they were declared in, and *)
(* those that read it run before what overwrites it.                        *)

LEMMA WritesInOrder ==
  ASSUME NEW g, WellFormed(g), NEW s, Sorted(g, s), NEW r
  PROVE  \A i \in 1..Len(s) : r \in g.passes[s[i]].writes =>
           \A q \in 1..s[i] - 1 : r \in g.passes[q].writes => \E j \in 1..i - 1 : s[j] = q
<1> DEFINE Ran(i, q) == \E j \in 1..i - 1 : s[j] = q
           Wrong(i) == /\ r \in g.passes[s[i]].writes
                       /\ \E q \in 1..s[i] - 1 : r \in g.passes[q].writes /\ ~ Ran(i, q)
           Bad == {p \in Live(g) : \E i \in 1..Len(s) : s[i] = p /\ Wrong(i)}
<1>1. /\ s \in Seq(Live(g)) /\ Len(s) \in Nat /\ \A i \in 1..Len(s) : s[i] \in Live(g)
  BY DEF Sorted
<1>2. Live(g) \subseteq Nat \ {0} /\ \A p \in Live(g) : p \in Passes(g) /\ Before(g, p) \subseteq Live(g)
  BY LiveIs DEF Passes
<1>3. SUFFICES ASSUME Bad # {} PROVE FALSE
  BY <1>1
<1>4. PICK p \in Bad : \A k \in Bad : p <= k
  <2>1. Bad \in SUBSET Nat
    BY <1>2
  <2> HIDE DEF Bad
  <2> QED
    BY <1>3, <2>1, LeastNumber
<1>5. PICK i \in 1..Len(s) : s[i] = p /\ Wrong(i)
  BY <1>4
<1>6. PICK q \in 1..p - 1 : r \in g.passes[q].writes /\ ~ Ran(i, q)
  BY <1>5
<1>7. p \in Nat \ {0} /\ p \in Live(g) /\ r \in g.passes[p].writes
  BY <1>2, <1>4, <1>5
<1> DEFINE m == LastWriter(g, r, p)
<1>8. m \in 1..p - 1 /\ r \in g.passes[m].writes /\ q <= m /\ m # 0
  BY <1>6, <1>7, LastWriterIs
<1> HIDE DEF m
<1>9. m \in Before(g, p)
  <2>1. r \in Uses(g, p)
    BY <1>7 DEF Uses
  <2>2. m \in {LastWriter(g, w, p) : w \in Uses(g, p)} \ {0}
    BY <1>8, <2>1 DEF m
  <2> QED
    BY <2>2 DEF Before, Inferred
<1>10. m \in Live(g) /\ Ran(i, m)
  <2>1. m \in Live(g)
    BY <1>2, <1>7, <1>9
  <2> QED
    BY <1>5, <1>9, <2>1 DEF Sorted
<1>11. PICK j \in 1..i - 1 : s[j] = m
  BY <1>10
<1>12. j \in 1..Len(s) /\ i \in Nat
  BY <1>1
<1>13. q # m
  BY <1>6, <1>10
<1>14. m \notin Bad
  <2>1. ~ (p <= m)
    BY <1>7, <1>8
  <2> HIDE DEF Bad
  <2> QED
    BY <1>4, <2>1
<1>15. ~ Wrong(j)
  BY <1>10, <1>11, <1>12, <1>14
<1>16. q \in 1..m - 1
  BY <1>7, <1>8, <1>13
<1>17. Ran(j, q)
  BY <1>6, <1>8, <1>11, <1>15, <1>16
<1>18. Ran(i, q)
  <2>1. PICK k \in 1..j - 1 : s[k] = q
    BY <1>17
  <2>2. k \in 1..i - 1
    BY <1>11, <1>12
  <2> QED
    BY <2>1, <2>2
<1> QED
  BY <1>6, <1>18

LEMMA ReadsBeforeWrites ==
  ASSUME NEW g, WellFormed(g), NEW s, Sorted(g, s), NEW r,
         NEW i \in 1..Len(s), r \in g.passes[s[i]].reads, r \notin g.passes[s[i]].writes,
         NEW k \in 1..Len(s), r \in g.passes[s[k]].writes, s[i] < s[k]
  PROVE  i < k
<1> DEFINE p == s[i]
           W == {q \in Passes(g) : p < q /\ r \in g.passes[q].writes}
<1>1. /\ s \in Seq(Live(g)) /\ Len(s) \in Nat /\ \A n \in 1..Len(s) : s[n] \in Live(g)
  BY DEF Sorted
<1>2. /\ \A n \in Live(g) : n \in Passes(g) /\ n \in Nat \ {0} /\ Before(g, n) \subseteq Live(g)
      /\ Passes(g) \subseteq Nat
  BY LiveIs DEF Passes
<1>3. p \in Nat \ {0} /\ p \in Live(g) /\ s[k] \in W
  BY <1>1, <1>2
<1>4. PICK w \in W : \A q \in W : w <= q
  <2>1. W \in SUBSET Nat /\ W # {}
    BY <1>2, <1>3
  <2> HIDE DEF W
  <2> QED
    BY <2>1, LeastNumber
<1>5. w \in Nat \ {0} /\ w \in Passes(g) /\ p < w /\ r \in g.passes[w].writes /\ w <= s[k]
  BY <1>2, <1>3, <1>4
<1>6. LastWriter(g, r, w) < p /\ LastWriter(g, r, w) \in Nat
  <2>1. LastWriter(g, r, w) = 0 \/ /\ LastWriter(g, r, w) \in 1..w - 1
                                   /\ r \in g.passes[LastWriter(g, r, w)].writes
    BY <1>5, LastWriterIs
  <2>2. CASE LastWriter(g, r, w) = 0
    BY <1>3, <2>2
  <2>3. CASE LastWriter(g, r, w) # 0
    <3> DEFINE v == LastWriter(g, r, w)
    <3>1. v \in 1..w - 1 /\ r \in g.passes[v].writes
      BY <2>1, <2>3
    <3> HIDE DEF v
    <3>2. v \in Nat /\ ~ (w <= v) /\ v # p
      BY <1>5, <3>1
    <3>3. v \in Passes(g)
      BY <1>5, <3>1 DEF Passes, WellFormed
    <3>4. ~ (p < v)
      BY <1>4, <3>1, <3>2, <3>3
    <3>5. v < p /\ v \in Nat
      BY <1>3, <3>2, <3>4
    <3> QED
      BY <3>5 DEF v
  <2> QED
    BY <2>2, <2>3
<1>7. p \in ReadersSince(g, r, w)
  <2>1. p \in 1..w - 1
    BY <1>3, <1>5
  <2> QED
    BY <1>6, <2>1 DEF ReadersSince
<1>8. p \in Before(g, w)
  BY <1>5, <1>7 DEF Before, Inferred
\* w runs at k or before it.
<1>9. PICK n \in 1..k : s[n] = w
  <2>1. CASE w = s[k]
    BY <1>1, <2>1
  <2>2. CASE w # s[k]
    <3>1. w \in 1..s[k] - 1
      BY <1>1, <1>2, <1>5, <2>2
    <3>2. PICK n \in 1..k - 1 : s[n] = w
      BY <1>5, <3>1, WritesInOrder
    <3>3. n \in 1..k
      BY <1>1
    <3> QED
      BY <3>2, <3>3
  <2> QED
    BY <2>1, <2>2
<1>10. n \in 1..Len(s)
  BY <1>1
<1>11. PICK j \in 1..n - 1 : s[j] = p
  BY <1>3, <1>8, <1>9, <1>10 DEF Sorted
<1>12. j \in 1..Len(s) /\ j < k
  BY <1>1, <1>9, <1>10, <1>11
<1>13. j = i
  BY <1>11, <1>12 DEF Sorted
<1> QED
  BY <1>12, <1>13

-----------------------------------------------------------------------------
(* The slots: transients that share one do not live at the same time.       *)

Slotting(g, order, f, n) ==
  f = [r \in 1..n |-> IF ~ g.resources[r].transient \/ Lifetime(g, order, r) = {} THEN r - 1
                      ELSE Min(Fitting(g, order, f, r))]

LEMMA FittingOf ==
  ASSUME NEW g, NEW order, NEW f, NEW h, NEW r \in Nat, \A a \in 1..r - 1 : f[a] = h[a]
  PROVE  Fitting(g, order, f, r) = Fitting(g, order, h, r)
BY DEF Fitting

LEMMA SlottingExists == ASSUME NEW g, NEW order, NEW N \in Nat PROVE \E f : Slotting(g, order, f, N)
<1> DEFINE Bad == {m \in Nat : ~ \E f : Slotting(g, order, f, m)}
<1>1. SUFFICES ASSUME Bad # {} PROVE FALSE
  OBVIOUS
<1>2. PICK m \in Bad : \A n \in Bad : m <= n
  <2>1. Bad \in SUBSET Nat
    OBVIOUS
  <2> HIDE DEF Bad
  <2> QED
    BY <1>1, <2>1, LeastNumber
<1> DEFINE Own(r) == ~ g.resources[r].transient \/ Lifetime(g, order, r) = {}
<1>3. CASE m = 0
  <2> DEFINE h == [r \in 1..0 |-> 0]
  <2>1. h = [r \in 1..0 |-> IF Own(r) THEN r - 1 ELSE Min(Fitting(g, order, h, r))]
    <3>1. h = [r \in 1..0 |-> h[r]] /\ \A r \in 1..0 : FALSE
      OBVIOUS
    <3> HIDE DEF h, Own
    <3> QED
      BY <3>1
  <2> HIDE DEF h
  <2>2. Slotting(g, order, h, 0)
    BY <2>1 DEF Slotting
  <2> QED
    BY <1>3, <2>2
<1>4. CASE m # 0
  <2>1. m \in Nat \ {0} /\ m - 1 \in Nat /\ m - 1 \notin Bad
    <3>1. m \in Nat /\ \A n \in Bad : m <= n
      BY <1>2
    <3> HIDE DEF Bad
    <3> QED
      BY <1>4, <3>1
  <2>2. PICK f : Slotting(g, order, f, m - 1)
    BY <2>1
  <2> DEFINE Value(e, r) == IF Own(r) THEN r - 1 ELSE Min(Fitting(g, order, e, r))
             h == [r \in 1..m |-> IF r = m THEN Value(f, m) ELSE f[r]]
  <2>3. \A r \in 1..m - 1 : f[r] = Value(f, r)
    <3>1. f = [r \in 1..m - 1 |-> Value(f, r)]
      BY <2>2 DEF Slotting
    <3> HIDE DEF Value
    <3> QED
      BY <3>1
  <2>4. ASSUME NEW r \in 1..m PROVE Value(h, r) = Value(f, r)
    <3>1. \A a \in 1..r - 1 : h[a] = f[a]
      BY <2>1
    <3>2. r \in Nat
      OBVIOUS
    <3> HIDE DEF h
    <3>3. Fitting(g, order, h, r) = Fitting(g, order, f, r)
      BY <3>1, <3>2, FittingOf
    <3> QED
      BY <3>3
  <2> HIDE DEF Value
  <2>5. ASSUME NEW r \in 1..m PROVE h[r] = Value(h, r)
    <3>1. CASE r = m
      BY <2>4, <3>1
    <3>2. CASE r # m
      <4>1. r \in 1..m - 1 /\ h[r] = f[r]
        BY <2>1, <3>2
      <4> QED
        BY <2>3, <2>4, <4>1
    <3> QED
      BY <3>1, <3>2
  <2>6. h = [r \in 1..m |-> h[r]]
    OBVIOUS
  <2> HIDE DEF h
  <2>7. h = [r \in 1..m |-> Value(h, r)]
    BY <2>5, <2>6
  <2>8. Slotting(g, order, h, m)
    BY <2>7 DEF Slotting, Value
  <2> QED
    BY <2>8
<1> QED
  BY <1>3, <1>4

LEMMA SlotsAre ==
  ASSUME NEW g, WellFormed(g), NEW order
  PROVE  \A r \in DOMAIN g.resources :
           Slots(g, order)[r] = IF ~ g.resources[r].transient \/ Lifetime(g, order, r) = {} THEN r - 1
                                ELSE Min(Fitting(g, order, Slots(g, order), r))
<1> DEFINE N == Len(g.resources)
           Own(r) == ~ g.resources[r].transient \/ Lifetime(g, order, r) = {}
<1>1. N \in Nat /\ DOMAIN g.resources = 1..N
  BY DEF WellFormed
<1>2. \E f : Slotting(g, order, f, N)
  BY <1>1, SlottingExists
<1>3. Slots(g, order) = CHOOSE f : Slotting(g, order, f, N)
  BY <1>1 DEF Slots, Slotting
<1> DEFINE f == Slots(g, order)
<1>4. Slotting(g, order, f, N)
  BY <1>2, <1>3
<1> HIDE DEF f, N
<1>5. f = [r \in 1..N |-> IF Own(r) THEN r - 1 ELSE Min(Fitting(g, order, f, r))]
  BY <1>4 DEF Slotting
<1> HIDE DEF Own
<1>6. \A r \in 1..N : f[r] = IF Own(r) THEN r - 1 ELSE Min(Fitting(g, order, f, r))
  BY <1>5
<1> QED
  BY <1>1, <1>6 DEF f, Own

\* A slot has at most the number of its resource, and that of a live transient fits.
LEMMA SlotsFit ==
  ASSUME NEW g, WellFormed(g), NEW order
  PROVE  \A r \in DOMAIN g.resources :
           /\ Slots(g, order)[r] \in 0..r - 1
           /\ g.resources[r].transient /\ Lifetime(g, order, r) # {} =>
                Slots(g, order)[r] \in Fitting(g, order, Slots(g, order), r)
<1> DEFINE N == Len(g.resources)
           f == Slots(g, order)
           Good(r) == /\ f[r] \in 0..r - 1
                      /\ g.resources[r].transient /\ Lifetime(g, order, r) # {} =>
                           f[r] \in Fitting(g, order, f, r)
           Bad == {r \in 1..N : ~ Good(r)}
<1>1. N \in Nat /\ DOMAIN g.resources = 1..N
  BY DEF WellFormed
<1>2. SUFFICES ASSUME Bad # {} PROVE FALSE
  BY <1>1
<1>3. PICK r \in Bad : \A k \in Bad : r <= k
  <2>1. Bad \in SUBSET Nat
    BY <1>1
  <2> HIDE DEF Bad
  <2> QED
    BY <1>2, <2>1, LeastNumber
<1>4. r \in 1..N /\ r \in Nat \ {0} /\ ~ Good(r)
  BY <1>1, <1>3
<1>5. f[r] = IF ~ g.resources[r].transient \/ Lifetime(g, order, r) = {} THEN r - 1
             ELSE Min(Fitting(g, order, f, r))
  BY <1>1, <1>4, SlotsAre
<1>6. ASSUME NEW a \in 1..r - 1 PROVE f[a] \in 0..a - 1
  <2>1. a \in 1..N /\ ~ (r <= a)
    BY <1>1, <1>4
  <2>2. Good(a)
    BY <1>3, <2>1
  <2> QED
    BY <2>2
<1> HIDE DEF f
<1>7. r - 1 \in Fitting(g, order, f, r)
  <2>1. \A a \in 1..r - 1 : f[a] # r - 1
    BY <1>4, <1>6
  <2>2. r - 1 \in 0..r - 1
    BY <1>4
  <2> QED
    BY <2>1, <2>2 DEF Fitting
<1>8. Fitting(g, order, f, r) \subseteq 0..r - 1 /\ Fitting(g, order, f, r) \in SUBSET Nat
  BY <1>4 DEF Fitting
<1>9. Min(Fitting(g, order, f, r)) \in Fitting(g, order, f, r)
  BY <1>7, <1>8, MinIs
<1>10. r - 1 \in 0..r - 1
  BY <1>4
<1>11. Good(r)
  BY <1>5, <1>8, <1>9, <1>10
<1> QED
  BY <1>4, <1>11

LEMMA SlotsApart ==
  ASSUME NEW g, WellFormed(g), NEW order, NEW a \in DOMAIN g.resources, NEW b \in DOMAIN g.resources,
         a # b, g.resources[a].transient, g.resources[b].transient,
         Slots(g, order)[a] = Slots(g, order)[b],
         Lifetime(g, order, a) # {}, Lifetime(g, order, b) # {}
  PROVE  ~ Overlap(Lifetime(g, order, a), Lifetime(g, order, b))
<1>1. a \in Nat \ {0} /\ b \in Nat \ {0}
  BY DEF WellFormed
<1>2. CASE a < b
  <2>1. a \in 1..b - 1 /\ Slots(g, order)[b] \in Fitting(g, order, Slots(g, order), b)
    BY <1>1, <1>2, SlotsFit
  <2>2. ~ Clash(g, order, a, b)
    BY <2>1 DEF Fitting
  <2> QED
    BY <2>2 DEF Clash
<1>3. CASE b < a
  <2>1. b \in 1..a - 1 /\ Slots(g, order)[a] \in Fitting(g, order, Slots(g, order), a)
    BY <1>1, <1>3, SlotsFit
  <2>2. ~ Clash(g, order, b, a)
    BY <2>1 DEF Fitting
  <2>3. ~ Overlap(Lifetime(g, order, b), Lifetime(g, order, a))
    BY <2>2 DEF Clash
  <2> QED
    BY <2>3 DEF Overlap
<1> QED
  BY <1>1, <1>2, <1>3

LEMMA PlaceOfOwn ==
  ASSUME NEW g, NEW slots, NEW r, NEW w, Place(g, slots, w) = Place(g, slots, r), w # r
  PROVE  g.resources[r].transient /\ g.resources[w].transient /\ slots[w] = slots[r]
BY DEF Place

\* While a resource is in use, what another writes goes somewhere else.
LEMMA OthersKeepOut ==
  ASSUME NEW g, WellFormed(g), NEW s \in Seq(Nat), NEW r \in DOMAIN g.resources,
         NEW w \in DOMAIN g.resources, w # r,
         Place(g, Slots(g, s), w) = Place(g, Slots(g, s), r),
         NEW j \in 1..Len(s), NEW k \in 1..Len(s), NEW i \in 1..Len(s), j <= k, k <= i,
         r \in Uses(g, s[j]), r \in Uses(g, s[i]), w \in Uses(g, s[k])
  PROVE  FALSE
<1> DEFINE A == Lifetime(g, s, r)
           B == Lifetime(g, s, w)
<1>1. Len(s) \in Nat /\ DOMAIN s = 1..Len(s)
  OBVIOUS
<1>2. A \in SUBSET (0..Len(s)) /\ B \in SUBSET (0..Len(s)) /\ j \in A /\ i \in A /\ k \in B
  BY <1>1 DEF Lifetime
<1>3. ~ Overlap(A, B)
  BY <1>2, PlaceOfOwn, SlotsApart
<1> HIDE DEF A, B
<1>4. A \in SUBSET Nat /\ B \in SUBSET Nat /\ A # {} /\ B # {}
  BY <1>2
<1>5. /\ Max(A) \in A /\ Max(B) \in B /\ i <= Max(A) /\ k <= Max(B)
  BY <1>1, <1>2, <1>4, MaxIs
<1>6. /\ Min(A) \in A /\ Min(B) \in B /\ Min(A) <= j /\ Min(B) <= k
  BY <1>2, <1>4, MinIs
<1>7. Max(A) < Min(B) \/ Max(B) < Min(A)
  BY <1>3, <1>4 DEF Overlap
<1>8. /\ Max(A) \in Nat /\ Max(B) \in Nat /\ Min(A) \in Nat /\ Min(B) \in Nat
      /\ i \in Nat /\ j \in Nat /\ k \in Nat
  <2>1. i \in Nat /\ j \in Nat /\ k \in Nat
    BY <1>1
  <2>2. Max(A) \in Nat /\ Min(A) \in Nat
    BY <1>4, <1>5, <1>6
  <2>3. Max(B) \in Nat /\ Min(B) \in Nat
    BY <1>4, <1>5, <1>6
  <2> QED
    BY <2>1, <2>2, <2>3
<1> QED
  BY <1>5, <1>6, <1>7, <1>8

-----------------------------------------------------------------------------
(* What a pass finds. *)

LEMMA FoundIs ==
  ASSUME NEW g, NEW s, NEW slots, NEW r, NEW n \in Nat
  PROVE  /\ Stores(g, s, slots, r, n) = {} => FoundAt(g, s, slots, r, n) = 0
         /\ \A j \in Stores(g, s, slots, r, n) :
              (\A k \in Stores(g, s, slots, r, n) : k <= j) => FoundAt(g, s, slots, r, n) = s[j]
<1> DEFINE S == Stores(g, s, slots, r, n)
<1>1. S \in SUBSET (0..n)
  BY DEF Stores
<1>2. FoundAt(g, s, slots, r, n) = IF S = {} THEN 0 ELSE s[Max(S)]
  BY DEF FoundAt
<1> HIDE DEF S
<1>3. ASSUME NEW j \in S, \A k \in S : k <= j PROVE FoundAt(g, s, slots, r, n) = s[j]
  <2>1. Max(S) \in S /\ \A k \in S : k <= Max(S)
    BY <1>1, <1>3, MaxIs
  <2>2. \A k \in S : k \in Nat
    BY <1>1
  <2>3. Max(S) = j
    <3>1. Max(S) \in Nat /\ j \in Nat
      BY <2>1, <2>2
    <3>2. Max(S) <= j /\ j <= Max(S)
      BY <1>3, <2>1
    <3> QED
      BY <3>1, <3>2
  <2> QED
    BY <1>2, <1>3, <2>3
<1> QED
  BY <1>2, <1>3 DEF S

LEMMA LaterWritesRunLater ==
  ASSUME NEW g, WellFormed(g), NEW s, Sorted(g, s), NEW r,
         NEW j \in 1..Len(s), r \in g.passes[s[j]].writes,
         NEW k \in 1..Len(s), r \in g.passes[s[k]].writes, s[k] <= s[j]
  PROVE  k <= j
<1>1. s \in Seq(Live(g)) /\ Len(s) \in Nat /\ s[j] \in Live(g) /\ s[k] \in Live(g)
  BY DEF Sorted
<1>2. s[j] \in Nat \ {0} /\ s[k] \in Nat \ {0}
  BY <1>1, LiveIs DEF Passes
<1>3. CASE s[k] = s[j]
  BY <1>3 DEF Sorted
<1>4. CASE s[k] # s[j]
  <2>1. s[k] \in 1..s[j] - 1
    BY <1>2, <1>4
  <2>2. PICK n \in 1..j - 1 : s[n] = s[k]
    BY <2>1, WritesInOrder
  <2>3. n \in 1..Len(s) /\ n <= j
    BY <1>1
  <2>4. n = k
    BY <2>2, <2>3 DEF Sorted
  <2> QED
    BY <2>3, <2>4
<1> QED
  BY <1>3, <1>4

LEMMA WellFormedPasses ==
  ASSUME NEW g, WellFormed(g), ~ Malformed(g), NEW s, Sorted(g, s), NEW i \in 1..Len(s)
  PROVE  /\ s[i] \in Passes(g) /\ s[i] \in Live(g) /\ s[i] \in Nat \ {0} /\ Len(s) \in Nat
         /\ s \in Seq(Nat) /\ DOMAIN s = 1..Len(s)
         /\ Uses(g, s[i]) \subseteq DOMAIN g.resources
         /\ \A r \in g.passes[s[i]].reads :
              /\ r \notin g.passes[s[i]].writes
              /\ g.resources[r].transient => LastWriter(g, r, s[i]) # 0
<1>1. s \in Seq(Live(g)) /\ Len(s) \in Nat /\ DOMAIN s = 1..Len(s) /\ s[i] \in Live(g)
  BY DEF Sorted
<1>2. Live(g) \subseteq Passes(g) /\ Live(g) \subseteq Nat
  BY LiveIs DEF Passes
<1>3. s \in Seq(Nat)
  BY <1>1, <1>2
<1>4. s[i] \in Passes(g) /\ s[i] \in Nat \ {0}
  BY <1>1, <1>2 DEF Passes
<1>5. /\ Uses(g, s[i]) \subseteq DOMAIN g.resources
      /\ \A r \in g.passes[s[i]].reads :
           /\ r \notin g.passes[s[i]].writes
           /\ g.resources[r].transient => LastWriter(g, r, s[i]) # 0
  BY <1>4 DEF Malformed
<1> QED
  BY <1>1, <1>3, <1>4, <1>5

LEMMA ReadsAreAsDeclared ==
  ASSUME NEW g, WellFormed(g), Compiles(g), NEW i \in 1..Len(Order(g)),
         NEW r \in g.passes[Order(g)[i]].reads
  PROVE  FoundAt(g, Order(g), Slots(g, Order(g)), r, i) = LastWriter(g, r, Order(g)[i])
<1> DEFINE s == Order(g)
           p == s[i]
           q == LastWriter(g, r, p)
           S == Stores(g, s, Slots(g, s), r, i)
<1>1. Sorted(g, s) /\ ~ Malformed(g)
  BY OrderIsSorted DEF Compiles
<1> HIDE DEF s
<1>2. /\ p \in Passes(g) /\ p \in Nat \ {0} /\ Len(s) \in Nat /\ s \in Seq(Nat)
      /\ r \in DOMAIN g.resources /\ r \in Uses(g, p) /\ r \notin g.passes[p].writes
      /\ i \in Nat /\ i \in 1..Len(s)
  BY <1>1, WellFormedPasses DEF Uses, s
<1>3. g.resources[r].transient => q # 0
  BY <1>1, WellFormedPasses DEF s
<1>4. ASSUME NEW k \in 1..i, r \in g.passes[s[k]].writes
      PROVE  k \in 1..Len(s) /\ s[k] \in 1..p - 1 /\ q \in 1..p - 1 /\ s[k] <= q
  <2>1. k \in 1..Len(s)
    BY <1>2
  <2>2. s[k] \in Nat \ {0}
    BY <1>1, <2>1, WellFormedPasses
  <2>3. s[k] # p
    BY <1>2, <1>4
  <2>4. ~ (p < s[k])
    <3>1. p < s[k] => i < k
      BY <1>1, <1>2, <1>4, <2>1, ReadsBeforeWrites DEF s
    <3> QED
      BY <1>2, <3>1
  <2>5. s[k] \in 1..p - 1
    BY <1>2, <2>2, <2>3, <2>4
  <2>6. q \in 1..p - 1 /\ s[k] <= q
    BY <1>2, <1>4, <2>5, LastWriterIs
  <2> QED
    BY <2>1, <2>5, <2>6
<1>5. S \subseteq 1..i /\ \A k \in S : \E w \in g.passes[s[k]].writes :
                            Place(g, Slots(g, s), w) = Place(g, Slots(g, s), r)
  BY DEF Stores
<1>6. CASE q = 0
  <2>1. S = {}
    <3>1. SUFFICES ASSUME NEW k \in S PROVE FALSE
      OBVIOUS
    <3>2. PICK w \in g.passes[s[k]].writes : Place(g, Slots(g, s), w) = Place(g, Slots(g, s), r)
      BY <1>5
    <3>3. w = r
      BY <1>3, <1>6, <3>2, PlaceOfOwn
    <3>4. k \in 1..i /\ r \in g.passes[s[k]].writes
      BY <1>5, <3>2, <3>3
    <3>5. q \in 1..p - 1
      BY <1>4, <3>4
    <3> QED
      BY <1>6, <3>5
  <2> QED
    BY <1>2, <1>6, <2>1, FoundIs DEF s
<1>7. CASE q # 0
  <2>1. q \in 1..p - 1 /\ r \in g.passes[q].writes
    BY <1>2, <1>7, LastWriterIs
  <2>2. q \in Before(g, p)
    <3>1. q \in {LastWriter(g, v, p) : v \in Uses(g, p)} \ {0}
      BY <1>2, <1>7
    <3> QED
      BY <3>1 DEF Before, Inferred
  <2>3. q \in Live(g)
    BY <1>1, <1>2, <2>2, LiveIs, WellFormedPasses
  <2>4. PICK j \in 1..i - 1 : s[j] = q
    BY <1>1, <1>2, <2>2, <2>3 DEF Sorted
  <2>5. j \in 1..Len(s) /\ j \in 1..i /\ r \in g.passes[s[j]].writes
    BY <1>2, <2>1, <2>4
  <2>6. j \in S
    BY <2>5 DEF Stores
  <2>7. ASSUME NEW k \in S PROVE k <= j
    <3>1. PICK w \in g.passes[s[k]].writes : Place(g, Slots(g, s), w) = Place(g, Slots(g, s), r)
      BY <1>5
    <3>2. k \in 1..i /\ k \in 1..Len(s)
      BY <1>2, <1>5
    <3>3. CASE w = r
      <4>1. s[k] <= s[j]
        BY <1>4, <2>4, <3>1, <3>2, <3>3
      <4> QED
        BY <1>1, <2>5, <3>1, <3>2, <3>3, <4>1, LaterWritesRunLater
    <3>4. CASE w # r
      <4>1. SUFFICES ASSUME j <= k PROVE FALSE
        BY <2>5, <3>2
      <4>2. /\ w \in Uses(g, s[k]) /\ r \in Uses(g, s[j]) /\ k <= i
            /\ w \in DOMAIN g.resources
        BY <1>1, <2>5, <3>1, <3>2, WellFormedPasses DEF Uses
      <4> QED
        BY <1>2, <2>5, <3>1, <3>2, <3>4, <4>1, <4>2, OthersKeepOut
    <3> QED
      BY <3>3, <3>4
  <2>8. FoundAt(g, s, Slots(g, s), r, i) = s[j]
    BY <1>2, <2>6, <2>7, FoundIs
  <2> QED
    BY <2>4, <2>8 DEF s
<1> QED
  BY <1>6, <1>7

LEMMA ImportsAreAsDeclared ==
  ASSUME NEW g, WellFormed(g), Compiles(g), NEW r \in DOMAIN g.resources,
         g.resources[r].exported, ~ g.resources[r].transient
  PROVE  FoundAt(g, Order(g), Slots(g, Order(g)), r, Len(Order(g)))
           = LastWriter(g, r, Len(g.passes) + 1)
<1> DEFINE s == Order(g)
           N == Len(g.passes)
           q == LastWriter(g, r, N + 1)
           S == Stores(g, s, Slots(g, s), r, Len(s))
<1>1. Sorted(g, s) /\ ~ Malformed(g) /\ ~ Cyclic(g)
  BY OrderIsSorted DEF Compiles
<1>2. N \in Nat /\ N + 1 \in Nat \ {0} /\ (N + 1) - 1 = N /\ Passes(g) = 1..N
  BY DEF WellFormed, Passes
<1> HIDE DEF N
<1>3. \/ q = 0 /\ \A n \in 1..N : r \notin g.passes[n].writes
      \/ /\ q \in 1..N /\ r \in g.passes[q].writes
         /\ \A n \in 1..N : r \in g.passes[n].writes => n <= q
  BY <1>2, LastWriterIs
<1> HIDE DEF s
<1>4. Len(s) \in Nat
  BY <1>1 DEF Sorted
<1>5. ASSUME NEW k \in S
      PROVE  k \in 1..Len(s) /\ s[k] \in 1..N /\ r \in g.passes[s[k]].writes
  <2>1. k \in 1..Len(s)
    BY DEF Stores
  <2>2. PICK w \in g.passes[s[k]].writes : Place(g, Slots(g, s), w) = Place(g, Slots(g, s), r)
    BY DEF Stores
  <2>3. w = r
    BY <2>2, PlaceOfOwn
  <2> QED
    BY <1>1, <1>2, <2>1, <2>2, <2>3, WellFormedPasses
<1>6. CASE q = 0
  <2>1. S = {}
    <3> HIDE DEF S
    <3> QED
      BY <1>2, <1>3, <1>5, <1>6
  <2> QED
    BY <1>4, <1>6, <2>1, FoundIs DEF s, N
<1>7. CASE q # 0
  <2>1. q \in 1..N /\ r \in g.passes[q].writes /\ \A n \in 1..N : r \in g.passes[n].writes => n <= q
    BY <1>3, <1>7
  <2>2. q \in Live(g)
    <3>1. q \in Roots(g)
      BY <1>7 DEF Roots, N
    <3> QED
      BY <3>1, LiveIs
  <2>3. PICK j \in 1..Len(s) : s[j] = q
    BY <1>1, <2>2, OrderIsWhole DEF s
  <2>4. j \in S
    BY <2>1, <2>3 DEF Stores
  <2>5. ASSUME NEW k \in S PROVE k <= j
    <3>1. /\ k \in 1..Len(s) /\ r \in g.passes[s[k]].writes /\ s[k] <= s[j]
      BY <1>5, <2>1, <2>3
    <3> QED
      BY <1>1, <2>1, <2>3, <3>1, LaterWritesRunLater
  <2>6. FoundAt(g, s, Slots(g, s), r, Len(s)) = s[j]
    BY <1>4, <2>4, <2>5, FoundIs
  <2> QED
    BY <2>3, <2>6 DEF s, N
<1> QED
  BY <1>6, <1>7

-----------------------------------------------------------------------------
(* Every graph the builder's calls can make.                               *)

ResourceRecords == [transient : BOOLEAN, type : ResourceTypes, size : ResourceSizes,
                    release : Nat, exported : BOOLEAN]
PassRecords == [reads : SUBSET Named, writes : SUBSET Named, repeats : BOOLEAN,
                side : BOOLEAN]
GraphTyped ==
  graph \in [resources : Seq(ResourceRecords), passes : Seq(PassRecords), edges : SUBSET (Nat \X Nat)]

LEMMA TypedIsWellFormed == ASSUME GraphTyped PROVE WellFormed(graph)
BY DEF GraphTyped, WellFormed

LEMMA CallsMakeGraphs == GraphTyped /\ [GraphNext]_graph => GraphTyped'
<1> SUFFICES ASSUME GraphTyped, [GraphNext]_graph PROVE GraphTyped'
  OBVIOUS
<1>0. /\ graph.resources \in Seq(ResourceRecords) /\ graph.passes \in Seq(PassRecords)
      /\ graph.edges \in SUBSET (Nat \X Nat)
      /\ graph = [resources |-> graph.resources, passes |-> graph.passes, edges |-> graph.edges]
      /\ DOMAIN graph.resources = 1..Len(graph.resources) /\ Len(graph.passes) \in Nat
  BY DEF GraphTyped
<1>1. ASSUME NEW rs \in Seq(ResourceRecords), graph' = [graph EXCEPT !.resources = rs]
      PROVE  GraphTyped'
  <2>1. graph' = [resources |-> rs, passes |-> graph.passes, edges |-> graph.edges]
    BY <1>0, <1>1
  <2> QED
    BY <1>0, <2>1 DEF GraphTyped
\* A field of a resource changes.
<1>2. ASSUME NEW r \in DOMAIN graph.resources, NEW new \in ResourceRecords,
             graph' = [graph EXCEPT !.resources = [@ EXCEPT ![r] = new]]
      PROVE  GraphTyped'
  <2>1. [graph.resources EXCEPT ![r] = new] \in Seq(ResourceRecords)
    BY <1>0
  <2> QED
    BY <1>1, <1>2, <2>1
<1>3. ASSUME NEW transient \in BOOLEAN, NEW type \in ResourceTypes, NEW bytes \in ResourceSizes,
             BuildResource(transient, type, bytes)
      PROVE  GraphTyped'
  <2> DEFINE new == [transient |-> transient, type |-> type, size |-> bytes,
                     release |-> 0, exported |-> FALSE]
  <2>1. new \in ResourceRecords
    BY DEF ResourceRecords
  <2>2. graph' = [graph EXCEPT !.resources = Append(@, new)]
    BY <1>3 DEF BuildResource, CreateResource
  <2> HIDE DEF new
  <2>3. Append(graph.resources, new) \in Seq(ResourceRecords)
    BY <1>0, <2>1
  <2> QED
    BY <1>1, <2>2, <2>3
<1>4. ASSUME NEW reads \in SUBSET Named, NEW writes \in SUBSET Named, NEW repeats \in BOOLEAN,
             NEW side \in BOOLEAN, BuildPass(reads, writes, repeats, side)
      PROVE  GraphTyped'
  <2> DEFINE new == [reads |-> reads, writes |-> writes, repeats |-> repeats, side |-> side]
  <2>1. new \in PassRecords
    BY DEF PassRecords
  <2>2. graph' = [graph EXCEPT !.passes = Append(@, new)]
    BY <1>4 DEF BuildPass, AddPass
  <2> HIDE DEF new
  <2>3. Append(graph.passes, new) \in Seq(PassRecords)
    BY <1>0, <2>1
  <2>4. graph' = [resources |-> graph.resources, passes |-> Append(graph.passes, new),
                  edges |-> graph.edges]
    BY <1>0, <2>2
  <2> QED
    BY <1>0, <2>3, <2>4 DEF GraphTyped
<1>5. CASE BuildDependency
  <2>1. PICK p \in Passes(graph), q \in Passes(graph) : graph' = AddDependency(graph, p, q)
    BY <1>5 DEF BuildDependency
  <2>2. graph.edges \union {<<p, q>>} \in SUBSET (Nat \X Nat)
    BY <1>0 DEF Passes
  <2>3. graph' = [resources |-> graph.resources, passes |-> graph.passes,
                  edges |-> graph.edges \union {<<p, q>>}]
    BY <1>0, <2>1 DEF AddDependency
  <2> QED
    BY <1>0, <2>2, <2>3 DEF GraphTyped
<1>6. CASE BuildExport
  <2>1. PICK r \in DOMAIN graph.resources : graph' = ExportResource(graph, r)
    BY <1>6 DEF BuildExport
  <2> DEFINE new == [graph.resources[r] EXCEPT !.exported = TRUE]
  <2>2. graph.resources[r] \in ResourceRecords
    BY <1>0
  <2>3. new \in ResourceRecords
    BY <2>2 DEF ResourceRecords
  <2>4. graph' = [graph EXCEPT !.resources = [@ EXCEPT ![r] = new]]
    BY <1>0, <2>1 DEF ExportResource
  <2> HIDE DEF new
  <2> QED
    BY <1>2, <2>3, <2>4
<1>7. CASE BuildRelease
  <2>1. PICK r \in DOMAIN graph.resources, p \in Passes(graph) :
          graph' = ReleaseResource(graph, r, p)
    BY <1>7 DEF BuildRelease
  <2> DEFINE new == [graph.resources[r] EXCEPT !.release = p]
  <2>2. graph.resources[r] \in ResourceRecords /\ p \in Nat
    BY <1>0 DEF Passes
  <2>3. new \in ResourceRecords
    BY <2>2 DEF ResourceRecords
  <2>4. graph' = [graph EXCEPT !.resources = [@ EXCEPT ![r] = new]]
    BY <1>0, <2>1 DEF ReleaseResource
  <2> HIDE DEF new
  <2> QED
    BY <1>2, <2>3, <2>4
<1>8. CASE UNCHANGED graph
  BY <1>8 DEF GraphTyped
<1> QED
  BY <1>3, <1>4, <1>5, <1>6, <1>7, <1>8 DEF GraphNext

\* Whatever resources, passes, dependencies, exports and releases the builder is told,
\* a graph that compiles gives its live passes and its exported imports the results of
\* running every pass in the order of its declaration in memory of its own.
THEOREM CompiledGraphsAreFaithful == GraphSpec => []ResultsAreAsDeclared
<1>1. GraphInit => GraphTyped
  BY DEF GraphInit, EmptyGraph, GraphTyped
<1>2. GraphTyped /\ [GraphNext]_graph => GraphTyped'
  BY CallsMakeGraphs
<1>3. GraphTyped => ResultsAreAsDeclared
  <2> SUFFICES ASSUME GraphTyped PROVE ResultsAreAsDeclared
    OBVIOUS
  <2>1. WellFormed(graph)
    BY TypedIsWellFormed
  <2>2. DOMAIN Order(graph) = 1..Len(Order(graph))
    BY <2>1, OrderIsSorted DEF Sorted
  <2>3. ReadsWhatWasDeclared
    BY <2>1, <2>2, ReadsAreAsDeclared DEF ReadsWhatWasDeclared
  <2>4. ImportsEndAsDeclared
    BY <2>1, ImportsAreAsDeclared DEF ImportsEndAsDeclared
  <2> QED
    BY <2>3, <2>4 DEF ResultsAreAsDeclared
<1> QED
  BY <1>1, <1>2, <1>3, PTL DEF GraphSpec
=============================================================================
