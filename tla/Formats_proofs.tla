--------------------------- MODULE Formats_proofs ---------------------------
(***************************************************************************)
(* Proofs about what one side writes and the other reads: the files and    *)
(* plots of an island (any size, any files) and the packets of the         *)
(* protocol (bytes and texts of any size).                                 *)
(*                                                                         *)
(* Both are about loops.  A loop is a recursive function over 0..N: that   *)
(* such a function exists is shown by growing it, and what it computes by  *)
(* the least index at which it fails.                                      *)
(***************************************************************************)
EXTENDS Islands, Packets, WellFoundedInduction, FiniteSetTheorems, TLAPS

-----------------------------------------------------------------------------
(***************************************************************************)
(* Islands: numbers.                                                       *)
(***************************************************************************)

LEMMA LeastElement ==
  ASSUME NEW S, S \subseteq Nat, S # {}
  PROVE  Min(S) \in S /\ \A y \in S : Min(S) <= y
<1> DEFINE Less == {ss \in Nat \X Nat : ss[1] < ss[2]}
<1>1. IsWellFoundedOn(Less, Nat)
  BY NatLessThanWellFounded, Zenon DEF OpToRel
<1> HIDE DEF Less
<1>2. \E x \in S : \A y \in S : ~ (<<y, x>> \in Less)
  BY <1>1, WFMin
<1>3. ASSUME NEW x \in Nat, NEW y \in Nat, ~ (<<y, x>> \in Less)
      PROVE  x <= y
  <2>1. <<y, x>> \in Nat \X Nat /\ <<y, x>>[1] = y /\ <<y, x>>[2] = x
    OBVIOUS
  <2>2. ~ (y < x)
    BY <1>3, <2>1 DEF Less
  <2> QED BY <2>2
<1>4. \E x \in S : \A y \in S : x <= y
  BY <1>2, <1>3
<1> QED BY <1>4 DEF Min

LEMMA GreatestElement ==
  ASSUME NEW S, NEW N \in Nat, S \subseteq 0..N, S # {}
  PROVE  Max(S) \in S /\ \A y \in S : Max(S) >= y
<1> DEFINE T == {N - x : x \in S}
<1>1. T \subseteq Nat /\ T # {}
  <2>1. PICK x \in S : TRUE
    OBVIOUS
  <2>2. N - x \in T
    OBVIOUS
  <2>3. \A y \in S : y \in Int /\ N - y >= 0
    OBVIOUS
  <2> QED BY <2>2, <2>3
<1>2. Min(T) \in T /\ \A y \in T : Min(T) <= y
  BY <1>1, LeastElement
<1>3. PICK m \in S : Min(T) = N - m
  BY <1>2
<1>4. ASSUME NEW y \in S
      PROVE  m >= y
  <2>1. N - m <= N - y
    BY <1>2, <1>3
  <2> QED BY <2>1
<1>5. \E x \in S : \A y \in S : x >= y
  BY <1>4
<1> QED BY <1>5 DEF Max

\* What holds at the beginning of a loop and is kept by each round holds at its end.
LEMMA Rounds ==
  ASSUME NEW N \in Nat, NEW T, 0 \in T, \A n \in 1..N : n - 1 \in T => n \in T
  PROVE  N \in T
<1> DEFINE S == {n \in 0..N : n \notin T}
<1>1. CASE S = {}
  BY <1>1
<1>2. CASE S # {}
  <2>1. Min(S) \in S /\ \A y \in S : Min(S) <= y
    BY <1>2, LeastElement
  <2>2. Min(S) \in 1..N /\ Min(S) \notin T
    BY <2>1
  <2>3. Min(S) - 1 \in T
    BY <2>1, <2>2
  <2> QED BY <2>2, <2>3
<1> QED BY <1>1, <1>2

LEMMA CountFromZero ==
  ASSUME NEW k \in Nat
  PROVE  IsFiniteSet(0..(k-1)) /\ Cardinality(0..(k-1)) = k
<1>1. 0 \in Int /\ k - 1 \in Int
  OBVIOUS
<1>2. IsFiniteSet(0..(k-1)) /\ Cardinality(0..(k-1)) = IF 0 > k - 1 THEN 0 ELSE (k - 1) - 0 + 1
  BY <1>1, FS_Interval, Zenon
<1>3. (IF 0 > k - 1 THEN 0 ELSE (k - 1) - 0 + 1) = k
  OBVIOUS
<1> QED BY <1>2, <1>3

LEMMA Division ==
  ASSUME NEW a \in Nat, NEW b \in Nat, b > 0
  PROVE  /\ a \div b \in Nat /\ a % b \in Nat /\ a % b < b
         /\ a = b * (a \div b) + (a % b)
OBVIOUS

LEMMA DivisionIsUnique ==
  ASSUME NEW a \in Nat, NEW b \in Nat, b > 0, NEW q \in Nat, NEW r \in Nat, r < b, a = b * q + r
  PROVE  a \div b = q /\ a % b = r
OBVIOUS

LEMMA ProductsAreOrdered ==
  ASSUME NEW a \in Int, NEW c \in Int, NEW b \in Nat
  PROVE  (a <= c => a * b <= c * b) /\ (a * b < c * b => a < c)
OBVIOUS

\* The loops over y and x come to every cell.
LEMMA CellsAreCounted ==
  /\ NumberOfCells \in Nat
  /\ \A m \in 0..NumberOfCells-1 : CellAt(m) \in Cells
  /\ \A c \in Cells : \E m \in 0..NumberOfCells-1 : CellAt(m) = c
<1> DEFINE W == WidthInTiles
           H == HeightInTiles
<1>1. W \in Nat /\ W > 0 /\ H \in Nat /\ H > 0
  BY IslandsAssumption
<1> HIDE DEF W, H
<1>2. NumberOfCells = W * H /\ W * H \in Nat
  BY <1>1 DEF NumberOfCells, W, H
<1>3. ASSUME NEW m \in 0..(W * H - 1)
      PROVE  m % W \in 0..W-1 /\ m \div W \in 0..H-1
  <2>1. m \in Nat /\ m < W * H
    BY <1>2
  <2> DEFINE q == m \div W
             r == m % W
  <2>2. q \in Nat /\ r \in Nat /\ r < W /\ m = W * q + r
    BY <1>1, <2>1, Division
  <2> HIDE DEF q, r
  <2>3. q * W < H * W
    BY <1>1, <2>1, <2>2
  <2>4. q < H
    BY <1>1, <2>2, <2>3, ProductsAreOrdered
  <2> QED BY <1>1, <2>2, <2>4 DEF q, r
<1>4. ASSUME NEW x \in 0..W-1, NEW y \in 0..H-1
      PROVE  \E m \in 0..(W * H - 1) : m % W = x /\ m \div W = y
  <2> DEFINE m == W * y + x
  <2>1. x \in Nat /\ y \in Nat /\ x < W /\ y + 1 <= H
    BY <1>1
  <2>2. m \in Nat
    BY <1>1, <2>1
  <2>3. m % W = x /\ m \div W = y
    <3> HIDE DEF m
    <3> QED BY <1>1, <2>1, <2>2, DivisionIsUnique DEF m
  <2>4. (y + 1) * W <= H * W
    BY <1>1, <2>1, ProductsAreOrdered
  <2>5. m < W * H
    BY <1>1, <2>1, <2>4
  <2> HIDE DEF m
  <2> QED BY <1>2, <2>2, <2>3, <2>5
<1>5. ASSUME NEW m \in 0..NumberOfCells-1
      PROVE  CellAt(m) \in Cells
  BY <1>2, <1>3 DEF CellAt, Cells, W, H
<1>6. ASSUME NEW c \in Cells
      PROVE  \E m \in 0..NumberOfCells-1 : CellAt(m) = c
  <2>1. c[1] \in 0..W-1 /\ c[2] \in 0..H-1 /\ c = <<c[1], c[2]>>
    BY DEF Cells, W, H
  <2>2. PICK m \in 0..(W * H - 1) : m % W = c[1] /\ m \div W = c[2]
    BY <1>4, <2>1
  <2>3. CellAt(m) = c
    BY <2>1, <2>2 DEF CellAt, W
  <2> QED BY <1>2, <2>3
<1> QED BY <1>2, <1>5, <1>6

-----------------------------------------------------------------------------
(***************************************************************************)
(* The loops: each recursive function exists, so it obeys its equation.    *)
(***************************************************************************)

\* The loop over the cells of a layer.
LEMMA CellLoop ==
  ASSUME NEW sets, NEW layers, NEW tm, NEW l
  PROVE  \E f : /\ f[0] = tm
                /\ \A n \in 1..NumberOfCells :
                     f[n] = CellRefreshed(sets, layers, f[n - 1], l, CellAt(n - 1))
                /\ LayerRefreshed(sets, layers, tm, l) = f[NumberOfCells]
<1> DEFINE Round(t, n) == CellRefreshed(sets, layers, t, l, CellAt(n - 1))
           IsRun(f, m) == f = [n \in 0..m |-> IF n = 0 THEN tm ELSE Round(f[n - 1], n)]
           T == {m \in 0..NumberOfCells : \E f : IsRun(f, m)}
<1>0. NumberOfCells \in Nat
  BY IslandsAssumption DEF NumberOfCells
<1>1. 0 \in T
  <2>1. IsRun([n \in 0..0 |-> tm], 0)
    OBVIOUS
  <2> HIDE DEF IsRun
  <2> QED BY <1>0, <2>1
<1>2. ASSUME NEW m \in 1..NumberOfCells, m - 1 \in T
      PROVE  m \in T
  <2>1. PICK f : IsRun(f, m - 1)
    BY <1>2
  <2> DEFINE g == [n \in 0..m |-> IF n = m THEN Round(f[m - 1], m) ELSE f[n]]
  <2> HIDE DEF Round
  <2>2. g = [n \in 0..m |-> IF n = 0 THEN tm ELSE Round(g[n - 1], n)]
    BY <1>0, <2>1
  <2>3. IsRun(g, m)
    BY <2>2
  <2> HIDE DEF IsRun, g
  <2> QED BY <2>3
<1>3. NumberOfCells \in T
  <2> HIDE DEF T
  <2> QED BY <1>0, <1>1, <1>2, Rounds
<1> DEFINE run == CHOOSE f : IsRun(f, NumberOfCells)
<1>4. IsRun(run, NumberOfCells)
  BY <1>3
<1>5. LayerRefreshed(sets, layers, tm, l) = run[NumberOfCells]
  BY DEF LayerRefreshed
<1> HIDE DEF run, Round
<1>6. run[0] = tm /\ \A n \in 1..NumberOfCells : run[n] = Round(run[n - 1], n)
  BY <1>0, <1>4
<1> QED BY <1>5, <1>6 DEF Round

\* The loop over the layers.
LEMMA LayerLoop ==
  ASSUME NEW sets, NEW layers, Len(layers) \in Nat
  PROVE  \E f : /\ f[0] = [tiles |-> <<>>, plotOfTile |-> <<>>,
                           layerTiles |-> [l \in DOMAIN layers |-> [c \in Cells |-> EmptyIndex]]]
                /\ \A l \in 1..Len(layers) : f[l] = LayerRefreshed(sets, layers, f[l - 1], l)
                /\ RefreshTileSet(sets, layers) = f[Len(layers)]
<1> DEFINE N == Len(layers)
           empty == [tiles |-> <<>>, plotOfTile |-> <<>>,
                     layerTiles |-> [l \in DOMAIN layers |-> [c \in Cells |-> EmptyIndex]]]
           Round(t, l) == LayerRefreshed(sets, layers, t, l)
           IsRun(f, m) == f = [l \in 0..m |-> IF l = 0 THEN empty ELSE Round(f[l - 1], l)]
           T == {m \in 0..N : \E f : IsRun(f, m)}
<1>1. 0 \in T
  <2>1. IsRun([n \in 0..0 |-> empty], 0)
    <3> HIDE DEF empty
    <3> QED OBVIOUS
  <2> HIDE DEF IsRun
  <2> QED BY <2>1
<1>2. ASSUME NEW m \in 1..N, m - 1 \in T
      PROVE  m \in T
  <2>1. PICK f : IsRun(f, m - 1)
    BY <1>2
  <2> DEFINE g == [n \in 0..m |-> IF n = m THEN Round(f[m - 1], m) ELSE f[n]]
  <2> HIDE DEF Round, empty
  <2>2. g = [n \in 0..m |-> IF n = 0 THEN empty ELSE Round(g[n - 1], n)]
    BY <2>1
  <2>3. IsRun(g, m)
    BY <2>2
  <2> HIDE DEF IsRun, g
  <2> QED BY <2>3
<1>3. N \in T
  <2> HIDE DEF T
  <2> QED BY <1>1, <1>2, Rounds
<1> DEFINE run == CHOOSE f : IsRun(f, N)
<1>4. IsRun(run, N)
  BY <1>3
<1>5. RefreshTileSet(sets, layers) = run[N]
  BY DEF RefreshTileSet
<1> HIDE DEF run, Round, empty
<1>6. run[0] = empty /\ \A n \in 1..N : run[n] = Round(run[n - 1], n)
  BY <1>4
<1> QED BY <1>5, <1>6 DEF Round, empty


-----------------------------------------------------------------------------
(***************************************************************************)
(* One picture is put into the tile map.                                   *)
(***************************************************************************)

\* The frames, and the tile, that a plot is shown by.
FramesOf(sets, p) ==
  IF Len(p.frames) > 1 THEN GetAnimationInfoFromPlot(sets, p)
  ELSE <<[set |-> TileMapIndex(sets, p.name), index |-> p.frames[1].index, time |-> 0]>>

TileFor(sets, p) == NewTile(FramesOf(sets, p))

\* Each tile is a plot's, which the table says, and each plot has at most one.
IsTileMap(sets, layers, tm) ==
  /\ tm = [tiles |-> tm.tiles, plotOfTile |-> tm.plotOfTile, layerTiles |-> tm.layerTiles]
  /\ tm.tiles \in Seq({TileFor(sets, plots[i]) : i \in DOMAIN plots}) /\ Len(tm.tiles) <= Len(plots)
  /\ tm.layerTiles \in [DOMAIN layers -> [Cells -> Int]]
  /\ tm.plotOfTile \in [0..Len(tm.tiles)-1 -> 0..Len(plots)-1]
  /\ \A n \in 1..Len(tm.tiles) : tm.tiles[n] = TileFor(sets, plots[tm.plotOfTile[n - 1] + 1])
  /\ \A m, n \in 0..Len(tm.tiles)-1 : tm.plotOfTile[m] = tm.plotOfTile[n] => m = n

LEMMA PlotsAreSequence ==
  ASSUME IsPlots(plots)
  PROVE  /\ Len(plots) \in Nat /\ Len(plots) <= EmptyIndex /\ DOMAIN plots = 1..Len(plots)
         /\ \A i \in DOMAIN plots : /\ Len(plots[i].frames) \in Nat /\ Len(plots[i].frames) >= 1
                                    /\ DOMAIN plots[i].frames = 1..Len(plots[i].frames)
<1>1. plots \in Seq(Range(plots)) /\ Len(plots) <= EmptyIndex
  BY DEF IsPlots
<1>2. ASSUME NEW i \in DOMAIN plots
      PROVE  Len(plots[i].frames) \in Nat /\ Len(plots[i].frames) >= 1
             /\ DOMAIN plots[i].frames = 1..Len(plots[i].frames)
  <2>1. plots[i].frames \in Seq(Range(plots[i].frames)) /\ plots[i].frames # <<>>
    BY DEF IsPlots
  <2> QED BY <2>1
<1> QED BY <1>1, <1>2

LEMMA FramesOfPlot ==
  ASSUME IsPlots(plots), NEW sets, NEW i \in DOMAIN plots
  PROVE  /\ DOMAIN FramesOf(sets, plots[i]) = DOMAIN plots[i].frames
         /\ \A f \in DOMAIN plots[i].frames : FramesOf(sets, plots[i])[f].index = plots[i].frames[f].index
<1>1. Len(plots[i].frames) \in Nat /\ Len(plots[i].frames) >= 1
      /\ DOMAIN plots[i].frames = 1..Len(plots[i].frames)
  BY PlotsAreSequence
<1>2. CASE Len(plots[i].frames) > 1
  BY <1>2 DEF FramesOf, GetAnimationInfoFromPlot
<1>3. CASE Len(plots[i].frames) = 1
  BY <1>1, <1>3 DEF FramesOf
<1>4. \A k \in Nat : k >= 1 => k > 1 \/ k = 1
  OBVIOUS
<1> QED BY <1>1, <1>2, <1>3, <1>4, Zenon

\* A tile tells its plot apart: by any of its pictures.
LEMMA TilesTellApart ==
  ASSUME IsPlots(plots), PicturesAreOwn, NEW sets,
         NEW i \in DOMAIN plots, NEW j \in DOMAIN plots,
         FramesOf(sets, plots[i])[1].index = FramesOf(sets, plots[j])[1].index
  PROVE  i = j
<1>1. 1 \in DOMAIN plots[i].frames /\ 1 \in DOMAIN plots[j].frames
  BY PlotsAreSequence
<1>2. plots[i].frames[1].index = plots[j].frames[1].index
  BY <1>1, FramesOfPlot
<1>3. plots[i].frames[1].index \in Indexes(plots[i]) \cap Indexes(plots[j])
  BY <1>1, <1>2 DEF Indexes
<1> QED BY <1>3 DEF PicturesAreOwn

\* There is room for one more.
LEMMA TilesAreFew ==
  ASSUME IsPlots(plots), NEW sets, NEW layers, NEW tm, IsTileMap(sets, layers, tm),
         NEW q \in 0..Len(plots)-1, \A n \in 0..Len(tm.tiles)-1 : tm.plotOfTile[n] # q
  PROVE  Len(tm.tiles) < Len(plots)
<1> DEFINE k == Len(tm.tiles)
           f == [n \in 0..k |-> IF n = k THEN q ELSE tm.plotOfTile[n]]
<1>1. k \in Nat /\ Len(plots) \in Nat
  BY PlotsAreSequence DEF IsTileMap
<1>2. f \in [0..k -> 0..Len(plots)-1]
  BY <1>1 DEF IsTileMap
<1>3. \A m, n \in 0..k : f[m] = f[n] => m = n
  BY <1>1 DEF IsTileMap
<1>4. IsFiniteSet(0..k) /\ Cardinality(0..k) = k + 1
  <2>1. IsFiniteSet(0..((k+1)-1)) /\ Cardinality(0..((k+1)-1)) = k + 1
    BY <1>1, CountFromZero
  <2> QED BY <1>1, <2>1
<1>5. IsFiniteSet(0..Len(plots)-1) /\ Cardinality(0..Len(plots)-1) = Len(plots)
  BY <1>1, CountFromZero
<1>6. ASSUME Len(plots) < k + 1
      PROVE  FALSE
  <2>1. \E m, n \in 0..k : m # n /\ f[m] = f[n]
    <3> HIDE DEF f, k
    <3> QED BY <1>2, <1>4, <1>5, <1>6, FS_PigeonHole
  <2> QED BY <1>3, <2>1
<1> QED BY <1>1, <1>6


\* Where a plot's tile is: the n-th of the tiles, or nowhere.
IsPlace(tm, n, q) ==
  \/ n = 0 /\ \A k \in 0..Len(tm.tiles)-1 : tm.plotOfTile[k] # q
  \/ n \in 1..Len(tm.tiles) /\ tm.plotOfTile[n - 1] = q

LEMMA TileOfPlot ==
  ASSUME NEW sets, NEW layers, NEW tm, IsTileMap(sets, layers, tm), NEW n \in 1..Len(tm.tiles)
  PROVE  /\ tm.plotOfTile[n - 1] \in 0..Len(plots)-1
         /\ tm.tiles[n].frames = FramesOf(sets, plots[tm.plotOfTile[n - 1] + 1])
         /\ tm.tiles[n].current = 1
<1>1. Len(tm.tiles) \in Nat /\ n - 1 \in 0..Len(tm.tiles)-1
  BY DEF IsTileMap
<1>2. tm.plotOfTile[n - 1] \in 0..Len(plots)-1
  BY <1>1 DEF IsTileMap
<1>3. tm.tiles[n] = TileFor(sets, plots[tm.plotOfTile[n - 1] + 1])
  BY DEF IsTileMap
<1> QED BY <1>2, <1>3 DEF TileFor, NewTile

\* Both searches find a plot's tile if there is one.
LEMMA PictureIsFound ==
  ASSUME IsPlots(plots), PicturesAreOwn, NEW sets, NEW layers, NEW tm, IsTileMap(sets, layers, tm),
         NEW q \in 0..Len(plots)-1, ~(Len(plots[q + 1].frames) > 1), NEW l, NEW c
  PROVE  \E n : /\ SetTileIndex(tm, l, c, TileMapIndex(sets, plots[q + 1].name), plots[q + 1].frames[1].index)
                     = WithTile(tm, l, c, n, TileFor(sets, plots[q + 1]))
                /\ IsPlace(tm, n, q)
<1> DEFINE set == TileMapIndex(sets, plots[q + 1].name)
           index == plots[q + 1].frames[1].index
           its == {i \in 1..Len(tm.tiles) : /\ tm.tiles[i].frames[tm.tiles[i].current].set = set
                                            /\ tm.tiles[i].frames[tm.tiles[i].current].index = index}
           n == IF its # {} THEN Min(its) ELSE 0
<1>1. FramesOf(sets, plots[q + 1]) = <<[set |-> set, index |-> index, time |-> 0]>>
  BY DEF FramesOf
<1>2. SetTileIndex(tm, l, c, set, index) = WithTile(tm, l, c, n, TileFor(sets, plots[q + 1]))
  BY <1>1, Zenon DEF SetTileIndex, SelectInSeq, TileFor
<1> HIDE DEF set, index
<1>3. Len(tm.tiles) \in Nat /\ Len(plots) \in Nat /\ DOMAIN plots = 1..Len(plots)
  BY PlotsAreSequence DEF IsTileMap
<1>4. q + 1 \in DOMAIN plots
  BY <1>3
<1>5. ASSUME NEW i \in its
      PROVE  i \in 1..Len(tm.tiles) /\ tm.plotOfTile[i - 1] = q
  <2>1. /\ tm.plotOfTile[i - 1] \in 0..Len(plots)-1
        /\ tm.tiles[i].frames = FramesOf(sets, plots[tm.plotOfTile[i - 1] + 1]) /\ tm.tiles[i].current = 1
    BY TileOfPlot
  <2>2. FramesOf(sets, plots[tm.plotOfTile[i - 1] + 1])[1].index = FramesOf(sets, plots[q + 1])[1].index
    BY <1>1, <2>1
  <2>3. tm.plotOfTile[i - 1] + 1 \in DOMAIN plots
    BY <1>3, <2>1
  <2>4. tm.plotOfTile[i - 1] + 1 = q + 1
    BY <1>4, <2>2, <2>3, TilesTellApart
  <2> QED BY <2>1, <2>4
<1>6. ASSUME NEW k \in 0..Len(tm.tiles)-1, tm.plotOfTile[k] = q
      PROVE  k + 1 \in its
  <2>1. k + 1 \in 1..Len(tm.tiles) /\ (k + 1) - 1 = k
    BY <1>3
  <2>2. tm.tiles[k + 1].frames = FramesOf(sets, plots[q + 1]) /\ tm.tiles[k + 1].current = 1
    BY <1>6, <2>1, TileOfPlot
  <2> QED BY <1>1, <2>1, <2>2
<1>7. IsPlace(tm, n, q)
  <2>1. CASE its = {}
    BY <1>6, <2>1 DEF IsPlace
  <2>2. CASE its # {}
    <3>1. its \subseteq Nat
      BY <1>3
    <3>2. Min(its) \in its
      BY <2>2, <3>1, LeastElement
    <3> QED BY <1>5, <2>2, <3>2 DEF IsPlace
  <2> QED BY <2>1, <2>2
<1> QED BY <1>2, <1>7 DEF set, index

LEMMA AnimationIsFound ==
  ASSUME IsPlots(plots), PicturesAreOwn, NEW sets, NEW layers, NEW tm, IsTileMap(sets, layers, tm),
         NEW q \in 0..Len(plots)-1, Len(plots[q + 1].frames) > 1, NEW l, NEW c
  PROVE  \E n : /\ SetAnimatedTileIndex(tm, l, c, GetAnimationInfoFromPlot(sets, plots[q + 1]))
                     = WithTile(tm, l, c, n, TileFor(sets, plots[q + 1]))
                /\ IsPlace(tm, n, q)
<1> DEFINE frames == FramesOf(sets, plots[q + 1])
           its == {i \in 1..Len(tm.tiles) : tm.tiles[i].frames = frames}
           n == IF its # {} THEN Min(its) ELSE 0
<1>1. frames = GetAnimationInfoFromPlot(sets, plots[q + 1])
  BY DEF FramesOf
<1>2. SetAnimatedTileIndex(tm, l, c, frames) = WithTile(tm, l, c, n, TileFor(sets, plots[q + 1]))
  BY Zenon DEF SetAnimatedTileIndex, SelectInSeq, TileFor
<1>3. Len(tm.tiles) \in Nat /\ Len(plots) \in Nat /\ DOMAIN plots = 1..Len(plots)
  BY PlotsAreSequence DEF IsTileMap
<1>4. q + 1 \in DOMAIN plots
  BY <1>3
<1>5. ASSUME NEW i \in its
      PROVE  i \in 1..Len(tm.tiles) /\ tm.plotOfTile[i - 1] = q
  <2>1. /\ tm.plotOfTile[i - 1] \in 0..Len(plots)-1
        /\ tm.tiles[i].frames = FramesOf(sets, plots[tm.plotOfTile[i - 1] + 1])
    BY TileOfPlot
  <2>2. FramesOf(sets, plots[tm.plotOfTile[i - 1] + 1])[1].index = FramesOf(sets, plots[q + 1])[1].index
    BY <2>1
  <2>3. tm.plotOfTile[i - 1] + 1 \in DOMAIN plots
    BY <1>3, <2>1
  <2>4. tm.plotOfTile[i - 1] + 1 = q + 1
    BY <1>4, <2>2, <2>3, TilesTellApart
  <2> QED BY <2>1, <2>4
<1>6. ASSUME NEW k \in 0..Len(tm.tiles)-1, tm.plotOfTile[k] = q
      PROVE  k + 1 \in its
  <2>1. k + 1 \in 1..Len(tm.tiles) /\ (k + 1) - 1 = k
    BY <1>3
  <2>2. tm.tiles[k + 1].frames = FramesOf(sets, plots[q + 1])
    BY <1>6, <2>1, TileOfPlot
  <2> QED BY <2>1, <2>2
<1>7. IsPlace(tm, n, q)
  <2>1. CASE its = {}
    BY <1>6, <2>1 DEF IsPlace
  <2>2. CASE its # {}
    <3>1. its \subseteq Nat
      BY <1>3
    <3>2. Min(its) \in its
      BY <2>2, <3>1, LeastElement
    <3> QED BY <1>5, <2>2, <3>2 DEF IsPlace
  <2> QED BY <2>1, <2>2
<1> QED BY <1>1, <1>2, <1>7


\* The tile at one cell is tile t; the other cells are as before.
OnlyAt(before, after, l, c, t) ==
  /\ DOMAIN after = DOMAIN before
  /\ after[l][c] = t
  /\ \A k \in DOMAIN before, d \in Cells : k # l \/ d # c => after[k][d] = before[k][d]

WithCell(map, l, c, t) == [map EXCEPT ![l][c] = t]

LEMMA CellIsPut ==
  ASSUME NEW layers, NEW map \in [DOMAIN layers -> [Cells -> Int]],
         NEW l \in DOMAIN layers, NEW c \in Cells, NEW t \in Int
  PROVE  /\ WithCell(map, l, c, t) \in [DOMAIN layers -> [Cells -> Int]]
         /\ OnlyAt(map, WithCell(map, l, c, t), l, c, t)
BY DEF OnlyAt, WithCell

\* The tile map with the entry for the tile at a cell.
Entered(put, l, c, q) == [put EXCEPT !.plotOfTile = WithEntry(@, put.layerTiles[l][c], q)]

IsTable(table, D, R) == table \in [D -> R]

LEMMA EntryIsPut ==
  ASSUME NEW D, NEW R, NEW table, IsTable(table, D, R), NEW t, NEW q \in R
  PROVE  IsTable(WithEntry(table, t, q), D \cup {t}, R)
BY DEF WithEntry, IsTable

LEMMA KnownEntryIsPut ==
  ASSUME NEW D, NEW R, NEW table, IsTable(table, D, R), NEW t \in D, NEW q, table[t] = q
  PROVE  WithEntry(table, t, q) = table
BY DEF WithEntry, IsTable

TileMapOf(tiling, table, map) == [tiles |-> tiling, plotOfTile |-> table, layerTiles |-> map]

LEMMA CellOfMap ==
  ASSUME NEW tiling, NEW table, NEW map, NEW l, NEW c, NEW n, NEW t, (n - 1) % 65536 = t
  PROVE  Put(TileMapOf(tiling, table, map), l, c, n) = TileMapOf(tiling, table, WithCell(map, l, c, t))
<1>1. Put(TileMapOf(tiling, table, map), l, c, n)
        = TileMapOf(tiling, table, WithCell(map, l, c, (n - 1) % 65536))
  BY DEF Put, TileMapOf, WithCell
<1> QED BY <1>1

LEMMA EntryOfMap ==
  ASSUME NEW tiling, NEW table, NEW map, NEW l, NEW c, NEW q
  PROVE  Entered(TileMapOf(tiling, table, map), l, c, q)
           = TileMapOf(tiling, WithEntry(table, map[l][c], q), map)
BY DEF Entered, TileMapOf

\* What UpdatePlotOnTileMap keeps: the table only grows.
Grows(tm, new) ==
  \A k \in DOMAIN tm.plotOfTile : k \in DOMAIN new.plotOfTile /\ new.plotOfTile[k] = tm.plotOfTile[k]

PutAt(tm, new, l, c, q) ==
  /\ Grows(tm, new)
  /\ \E t \in DOMAIN new.plotOfTile :
       new.plotOfTile[t] = q /\ OnlyAt(tm.layerTiles, new.layerTiles, l, c, t)

LEMMA KnownTileIsPut ==
  ASSUME IsPlots(plots), NEW sets, NEW layers, NEW tm, IsTileMap(sets, layers, tm),
         NEW q \in 0..Len(plots)-1, NEW l \in DOMAIN layers, NEW c \in Cells,
         NEW n \in 1..Len(tm.tiles), tm.plotOfTile[n - 1] = q, NEW tile
  PROVE  LET new == Entered(WithTile(tm, l, c, n, tile), l, c, q)
         IN  IsTileMap(sets, layers, new) /\ PutAt(tm, new, l, c, q)
<1> DEFINE put == WithTile(tm, l, c, n, tile)
           new == Entered(put, l, c, q)
           map == WithCell(tm.layerTiles, l, c, n - 1)
<1>1. Len(tm.tiles) \in Nat /\ Len(plots) \in Nat /\ Len(plots) <= 65535 /\ Len(tm.tiles) <= Len(plots)
  BY PlotsAreSequence DEF IsTileMap, EmptyIndex
<1>2. n # 0 /\ n - 1 \in 0..Len(tm.tiles)-1 /\ (n - 1) % 65536 = n - 1
  BY <1>1
<1>3. map \in [DOMAIN layers -> [Cells -> Int]] /\ OnlyAt(tm.layerTiles, map, l, c, n - 1)
  <2>1. tm.layerTiles \in [DOMAIN layers -> [Cells -> Int]] /\ n - 1 \in Int
    BY <1>2 DEF IsTileMap
  <2> QED BY <2>1, CellIsPut
<1>4. tm = [tiles |-> tm.tiles, plotOfTile |-> tm.plotOfTile, layerTiles |-> tm.layerTiles]
  BY DEF IsTileMap
<1>5. put = [tm EXCEPT !.layerTiles[l][c] = n - 1]
  BY <1>2 DEF WithTile, Put
<1>6. put.tiles = tm.tiles /\ put.plotOfTile = tm.plotOfTile /\ put.layerTiles = map
      /\ put = [tiles |-> tm.tiles, plotOfTile |-> tm.plotOfTile, layerTiles |-> map]
  BY <1>4, <1>5 DEF WithCell
<1> HIDE DEF put, map
<1>7. map[l][c] = n - 1
  BY <1>3 DEF OnlyAt
<1>8. WithEntry(tm.plotOfTile, n - 1, q) = tm.plotOfTile
  <2>1. IsTable(tm.plotOfTile, 0..Len(tm.tiles)-1, 0..Len(plots)-1)
    BY DEF IsTileMap, IsTable
  <2> QED BY <1>2, <2>1, KnownEntryIsPut
<1>9. new = [tiles |-> tm.tiles, plotOfTile |-> tm.plotOfTile, layerTiles |-> map]
  <2>1. put = TileMapOf(tm.tiles, tm.plotOfTile, map)
    BY <1>6 DEF TileMapOf
  <2>2. new = TileMapOf(tm.tiles, WithEntry(tm.plotOfTile, map[l][c], q), map)
    BY <2>1, EntryOfMap
  <2> QED BY <1>7, <1>8, <2>2 DEF TileMapOf
<1> HIDE DEF new
<1>10. IsTileMap(sets, layers, new)
  BY <1>3, <1>9 DEF IsTileMap
<1>11. n - 1 \in DOMAIN tm.plotOfTile
  BY <1>2 DEF IsTileMap
<1>12. PutAt(tm, new, l, c, q)
  BY <1>3, <1>9, <1>11 DEF PutAt, Grows
<1> QED BY <1>10, <1>12 DEF new, put

LEMMA NewTileIsPut ==
  ASSUME IsPlots(plots), NEW sets, NEW layers, NEW tm, IsTileMap(sets, layers, tm),
         NEW q \in 0..Len(plots)-1, NEW l \in DOMAIN layers, NEW c \in Cells,
         \A k \in 0..Len(tm.tiles)-1 : tm.plotOfTile[k] # q
  PROVE  LET new == Entered(WithTile(tm, l, c, 0, TileFor(sets, plots[q + 1])), l, c, q)
         IN  IsTileMap(sets, layers, new) /\ PutAt(tm, new, l, c, q)
<1> DEFINE tile == TileFor(sets, plots[q + 1])
           put == WithTile(tm, l, c, 0, tile)
           new == Entered(put, l, c, q)
           k == Len(tm.tiles)
           map == WithCell(tm.layerTiles, l, c, k)
           more == Append(tm.tiles, tile)
           table == WithEntry(tm.plotOfTile, k, q)
<1>1. k \in Nat /\ Len(plots) \in Nat /\ Len(plots) <= 65535 /\ k < Len(plots) /\ DOMAIN plots = 1..Len(plots)
  <2>1. Len(plots) \in Nat /\ Len(plots) <= 65535 /\ DOMAIN plots = 1..Len(plots)
    BY PlotsAreSequence DEF EmptyIndex
  <2>2. k < Len(plots)
    BY TilesAreFew
  <2> QED BY <2>1, <2>2 DEF IsTileMap
<1>2. (k + 1) - 1 = k /\ k % 65536 = k /\ q + 1 \in DOMAIN plots
  <2>1. \A j \in Nat : j < 65536 => (j + 1) - 1 = j /\ j % 65536 = j
    OBVIOUS
  <2>2. k \in Nat /\ k < 65536
    BY <1>1
  <2>3. q + 1 \in DOMAIN plots
    BY <1>1
  <2> HIDE DEF k
  <2> QED BY <2>1, <2>2, <2>3
<1>3. map \in [DOMAIN layers -> [Cells -> Int]] /\ OnlyAt(tm.layerTiles, map, l, c, k)
  <2>1. tm.layerTiles \in [DOMAIN layers -> [Cells -> Int]] /\ k \in Int
    BY <1>1 DEF IsTileMap
  <2> QED BY <2>1, CellIsPut
<1>4. tm = [tiles |-> tm.tiles, plotOfTile |-> tm.plotOfTile, layerTiles |-> tm.layerTiles]
  BY DEF IsTileMap
<1>5. [tm EXCEPT !.tiles = Append(@, tile)] = TileMapOf(more, tm.plotOfTile, tm.layerTiles)
  BY <1>4 DEF TileMapOf
<1>6. put = TileMapOf(more, tm.plotOfTile, map)
  <2>1. put = Put([tm EXCEPT !.tiles = Append(@, tile)], l, c, k + 1)
    BY DEF WithTile
  <2>2. ((k + 1) - 1) % 65536 = k
    <3> HIDE DEF k
    <3> QED BY <1>2
  <2> HIDE DEF put, k, more, tile
  <2> QED BY <1>5, <2>1, <2>2, CellOfMap
<1>7. map[l][c] = k
  <2> HIDE DEF map
  <2> QED BY <1>3 DEF OnlyAt
<1> HIDE DEF put, map, more, tile, table
<1>8. new = [tiles |-> more, plotOfTile |-> table, layerTiles |-> map]
  <2>1. new = TileMapOf(more, WithEntry(tm.plotOfTile, map[l][c], q), map)
    BY <1>6, EntryOfMap
  <2> QED BY <1>7, <2>1 DEF TileMapOf, table
<1>9. more \in Seq({TileFor(sets, plots[i]) : i \in DOMAIN plots}) /\ Len(more) = k + 1
      /\ (\A n \in 1..k : more[n] = tm.tiles[n]) /\ more[k + 1] = tile
  BY <1>1, <1>2 DEF IsTileMap, more, tile
<1>10. /\ table \in [0..k -> 0..Len(plots)-1] /\ table[k] = q
       /\ \A n \in 0..k-1 : table[n] = tm.plotOfTile[n]
  <2>1. IsTable(tm.plotOfTile, 0..k-1, 0..Len(plots)-1)
    BY DEF IsTileMap, IsTable
  <2>2. (0..k-1) \cup {k} = 0..k /\ k \notin 0..k-1
    BY <1>1
  <2> HIDE DEF k
  <2>3. IsTable(table, (0..k-1) \cup {k}, 0..Len(plots)-1) /\ table[k] = q
        /\ \A d \in 0..k-1 : d # k => table[d] = tm.plotOfTile[d]
    <3>1. q \in 0..Len(plots)-1
      OBVIOUS
    <3> DEFINE D == 0..k-1
               R == 0..Len(plots)-1
               entered == WithEntry(tm.plotOfTile, k, q)
    <3>2. IsTable(tm.plotOfTile, D, R) /\ q \in R
      BY <2>1, <3>1
    <3> HIDE DEF k, D, R
    <3>3. IsTable(entered, D \cup {k}, R)
      BY <3>2, EntryIsPut
    <3>4. entered[k] = q
      BY DEF WithEntry
    <3>5. \A d \in D : d # k => entered[d] = tm.plotOfTile[d]
      BY <3>2 DEF WithEntry, IsTable
    <3> QED BY <3>3, <3>4, <3>5 DEF table, D, R
  <2> HIDE DEF k
  <2> QED BY <2>2, <2>3 DEF IsTable
<1>11. \A n \in 1..k+1 : more[n] = TileFor(sets, plots[table[n - 1] + 1])
  <2>1. ASSUME NEW n \in 1..k
        PROVE  more[n] = TileFor(sets, plots[table[n - 1] + 1])
    <3>1. n - 1 \in 0..k-1
      BY <1>1
    <3> QED BY <1>9, <1>10, <3>1 DEF IsTileMap
  <2>2. more[k + 1] = TileFor(sets, plots[table[(k + 1) - 1] + 1])
    BY <1>1, <1>9, <1>10 DEF tile
  <2> QED BY <1>1, <2>1, <2>2
<1>12. \A m, n \in 0..k : table[m] = table[n] => m = n
  <2>1. \A n \in 0..k : n = k \/ n \in 0..k-1
    BY <1>1
  <2>2. \A n \in 0..k-1 : tm.plotOfTile[n] # q
    OBVIOUS
  <2>3. \A m, n \in 0..k-1 : tm.plotOfTile[m] = tm.plotOfTile[n] => m = n
    BY DEF IsTileMap
  <2> HIDE DEF k
  <2> QED BY <1>10, <2>1, <2>2, <2>3
<1> HIDE DEF new
<1>13. IsTileMap(sets, layers, new)
  <2>1. Len(new.tiles) = k + 1 /\ Len(new.tiles) <= Len(plots) /\ (k + 1) - 1 = k
    BY <1>1, <1>8, <1>9
  <2> HIDE DEF k
  <2> QED BY <1>3, <1>8, <1>9, <1>10, <1>11, <1>12, <2>1 DEF IsTileMap
<1>14. PutAt(tm, new, l, c, q)
  <2>1. DOMAIN tm.plotOfTile = 0..k-1 /\ DOMAIN table = 0..k /\ 0..k-1 \subseteq 0..k /\ k \in 0..k
    BY <1>1, <1>10 DEF IsTileMap
  <2> HIDE DEF k
  <2> QED BY <1>3, <1>8, <1>10, <2>1 DEF PutAt, Grows
<1> QED BY <1>13, <1>14 DEF new, put, tile

LEMMA PlotIsPut ==
  ASSUME IsPlots(plots), PicturesAreOwn, NEW sets, NEW layers, NEW tm, IsTileMap(sets, layers, tm),
         NEW q \in 0..Len(plots)-1, NEW l \in DOMAIN layers, NEW c \in Cells
  PROVE  LET new == UpdatePlotOnTileMap(sets, tm, q, l, c)
         IN  IsTileMap(sets, layers, new) /\ PutAt(tm, new, l, c, q)
<1>1. \E n : /\ UpdatePlotOnTileMap(sets, tm, q, l, c)
                  = Entered(WithTile(tm, l, c, n, TileFor(sets, plots[q + 1])), l, c, q)
             /\ IsPlace(tm, n, q)
  <2>1. CASE Len(plots[q + 1].frames) > 1
    <3>1. PICK n : /\ SetAnimatedTileIndex(tm, l, c, GetAnimationInfoFromPlot(sets, plots[q + 1]))
                        = WithTile(tm, l, c, n, TileFor(sets, plots[q + 1]))
                   /\ IsPlace(tm, n, q)
      BY <2>1, AnimationIsFound
    <3> QED BY <2>1, <3>1, Zenon DEF UpdatePlotOnTileMap, Entered
  <2>2. CASE ~(Len(plots[q + 1].frames) > 1)
    <3>1. PICK n : /\ SetTileIndex(tm, l, c, TileMapIndex(sets, plots[q + 1].name), plots[q + 1].frames[1].index)
                        = WithTile(tm, l, c, n, TileFor(sets, plots[q + 1]))
                   /\ IsPlace(tm, n, q)
      BY <2>2, PictureIsFound
    <3> QED BY <2>2, <3>1, Zenon DEF UpdatePlotOnTileMap, Entered
  <2> QED BY <2>1, <2>2
<1>2. PICK n : /\ UpdatePlotOnTileMap(sets, tm, q, l, c)
                    = Entered(WithTile(tm, l, c, n, TileFor(sets, plots[q + 1])), l, c, q)
               /\ IsPlace(tm, n, q)
  BY <1>1
<1>3. CASE n = 0 /\ \A k \in 0..Len(tm.tiles)-1 : tm.plotOfTile[k] # q
  BY <1>2, <1>3, NewTileIsPut
<1>4. CASE n \in 1..Len(tm.tiles) /\ tm.plotOfTile[n - 1] = q
  BY <1>2, <1>4, KnownTileIsPut
<1> QED BY <1>2, <1>3, <1>4 DEF IsPlace


-----------------------------------------------------------------------------
(***************************************************************************)
(* All pictures are put into the tile map.                                 *)
(***************************************************************************)

\* The layers of an island: plots that exist, or none.
AreLayers(layers) ==
  /\ Len(layers) \in Nat /\ DOMAIN layers = 1..Len(layers)
  /\ \A l \in DOMAIN layers, c \in Cells : layers[l][c] \in (0..Len(plots)-1) \cup {EmptyIndex}

\* What lies at a cell leads back to its plot.
Shows(layers, tm, l, c) ==
  IF layers[l][c] = EmptyIndex THEN tm.layerTiles[l][c] = EmptyIndex
  ELSE /\ tm.layerTiles[l][c] \in DOMAIN tm.plotOfTile
       /\ tm.plotOfTile[tm.layerTiles[l][c]] = layers[l][c]

Blank(tm, l, c) == tm.layerTiles[l][c] = EmptyIndex

\* Nothing that is at a cell other than this one changes.
Elsewhere(layers, tm, new, l, c) ==
  \A k \in DOMAIN layers, d \in Cells :
    k # l \/ d # c => /\ Shows(layers, tm, k, d) => Shows(layers, new, k, d)
                      /\ Blank(tm, k, d) => Blank(new, k, d)

LEMMA CellIsRefreshed ==
  ASSUME IsPlots(plots), PicturesAreOwn, NEW sets, NEW layers, AreLayers(layers),
         NEW tm, IsTileMap(sets, layers, tm), NEW l \in DOMAIN layers, NEW c \in Cells,
         Blank(tm, l, c) \/ Shows(layers, tm, l, c)
  PROVE  LET new == CellRefreshed(sets, layers, tm, l, c)
         IN  /\ IsTileMap(sets, layers, new)
             /\ Shows(layers, new, l, c)
             /\ Elsewhere(layers, tm, new, l, c)
<1>1. CASE layers[l][c] = EmptyIndex
  <2>1. CellRefreshed(sets, layers, tm, l, c) = tm
    BY <1>1 DEF CellRefreshed
  <2> QED BY <1>1, <2>1 DEF Shows, Blank, Elsewhere
<1>2. CASE layers[l][c] # EmptyIndex
  <2> DEFINE q == layers[l][c]
             new == UpdatePlotOnTileMap(sets, tm, q, l, c)
  <2>1. q \in 0..Len(plots)-1
    BY <1>2 DEF AreLayers
  <2>2. IsTileMap(sets, layers, new) /\ PutAt(tm, new, l, c, q)
    BY <2>1, PlotIsPut
  <2>3. CellRefreshed(sets, layers, tm, l, c) = new
    BY <1>2 DEF CellRefreshed
  <2> HIDE DEF new
  <2>4. PICK t \in DOMAIN new.plotOfTile :
          new.plotOfTile[t] = q /\ OnlyAt(tm.layerTiles, new.layerTiles, l, c, t)
    BY <2>2 DEF PutAt
  <2>5. Shows(layers, new, l, c)
    BY <1>2, <2>4 DEF Shows, OnlyAt
  <2>6. ASSUME NEW k \in DOMAIN layers, NEW d \in Cells, k # l \/ d # c
        PROVE  /\ Shows(layers, tm, k, d) => Shows(layers, new, k, d)
               /\ Blank(tm, k, d) => Blank(new, k, d)
    <3>1. new.layerTiles[k][d] = tm.layerTiles[k][d]
      <4>1. k \in DOMAIN tm.layerTiles
        BY DEF IsTileMap
      <4> QED BY <2>4, <2>6, <4>1 DEF OnlyAt
    <3>2. Grows(tm, new)
      BY <2>2 DEF PutAt
    <3> QED BY <3>1, <3>2 DEF Shows, Blank, Grows
  <2> QED BY <2>2, <2>3, <2>5, <2>6 DEF Elsewhere
<1> QED BY <1>1, <1>2

\* One layer: its cells show their plots, the other layers are as before.
LEMMA LayerIsRefreshed ==
  ASSUME IsPlots(plots), PicturesAreOwn, NEW sets, NEW layers, AreLayers(layers),
         NEW tm, IsTileMap(sets, layers, tm), NEW l \in DOMAIN layers,
         \A c \in Cells : Blank(tm, l, c)
  PROVE  LET new == LayerRefreshed(sets, layers, tm, l)
         IN  /\ IsTileMap(sets, layers, new)
             /\ \A c \in Cells : Shows(layers, new, l, c)
             /\ \A k \in DOMAIN layers \ {l}, d \in Cells :
                  /\ Shows(layers, tm, k, d) => Shows(layers, new, k, d)
                  /\ Blank(tm, k, d) => Blank(new, k, d)
<1>1. PICK f : /\ f[0] = tm
               /\ \A n \in 1..NumberOfCells :
                    f[n] = CellRefreshed(sets, layers, f[n - 1], l, CellAt(n - 1))
               /\ LayerRefreshed(sets, layers, tm, l) = f[NumberOfCells]
  BY CellLoop
<1> DEFINE Come(t, n) ==
             /\ IsTileMap(sets, layers, t)
             /\ \A c \in Cells : Blank(t, l, c) \/ Shows(layers, t, l, c)
             /\ \A m \in 0..n-1 : Shows(layers, t, l, CellAt(m))
             /\ \A k \in DOMAIN layers \ {l}, d \in Cells :
                  /\ Shows(layers, tm, k, d) => Shows(layers, t, k, d)
                  /\ Blank(tm, k, d) => Blank(t, k, d)
           T == {n \in 0..NumberOfCells : Come(f[n], n)}
<1>2. NumberOfCells \in Nat
  BY CellsAreCounted
<1>3. 0 \in T
  BY <1>1, <1>2
<1>4. ASSUME NEW n \in 1..NumberOfCells, n - 1 \in T
      PROVE  n \in T
  <2> DEFINE t == f[n - 1]
             c == CellAt(n - 1)
             new == CellRefreshed(sets, layers, t, l, c)
  <2>1. Come(t, n - 1) /\ n - 1 \in 0..NumberOfCells-1
    BY <1>2, <1>4
  <2>2. c \in Cells
    BY <2>1, CellsAreCounted
  <2>3. f[n] = new
    BY <1>1
  <2> HIDE DEF t, c
  <2>4. IsTileMap(sets, layers, new) /\ Shows(layers, new, l, c) /\ Elsewhere(layers, t, new, l, c)
    BY <2>1, <2>2, CellIsRefreshed
  <2> HIDE DEF new
  <2>5. \A d \in Cells : Blank(new, l, d) \/ Shows(layers, new, l, d)
    BY <2>1, <2>4 DEF Elsewhere
  <2>6. ASSUME NEW m \in 0..n-1
        PROVE  Shows(layers, new, l, CellAt(m))
    <3>1. CASE CellAt(m) = c
      BY <2>4, <3>1
    <3>2. CASE CellAt(m) # c
      <4>1. m # n - 1
        BY <3>2 DEF c
      <4>2. m \in 0..(n-1)-1 /\ m \in 0..NumberOfCells-1
        BY <1>2, <4>1
      <4>3. CellAt(m) \in Cells /\ Shows(layers, t, l, CellAt(m))
        BY <2>1, <4>2, CellsAreCounted
      <4> QED BY <2>4, <3>2, <4>3 DEF Elsewhere
    <3> QED BY <3>1, <3>2
  <2>7. \A k \in DOMAIN layers \ {l}, d \in Cells :
          /\ Shows(layers, tm, k, d) => Shows(layers, new, k, d)
          /\ Blank(tm, k, d) => Blank(new, k, d)
    BY <2>1, <2>4 DEF Elsewhere
  <2>8. Come(new, n)
    BY <2>4, <2>5, <2>6, <2>7
  <2> HIDE DEF Come
  <2> QED BY <2>3, <2>8
<1>5. NumberOfCells \in T
  <2> HIDE DEF T
  <2> QED BY <1>2, <1>3, <1>4, Rounds
<1>6. Come(f[NumberOfCells], NumberOfCells)
  BY <1>5
<1>7. \A c \in Cells : Shows(layers, f[NumberOfCells], l, c)
  <2> TAKE c \in Cells
  <2>1. PICK m \in 0..NumberOfCells-1 : CellAt(m) = c
    BY CellsAreCounted
  <2> QED BY <1>6, <2>1
<1> QED BY <1>1, <1>6, <1>7

\* The whole island.
LEMMA IslandIsRefreshed ==
  ASSUME IsPlots(plots), PicturesAreOwn, NEW sets, NEW layers, AreLayers(layers)
  PROVE  LET tm == RefreshTileSet(sets, layers)
         IN  /\ IsTileMap(sets, layers, tm)
             /\ \A l \in DOMAIN layers, c \in Cells : Shows(layers, tm, l, c)
<1> DEFINE empty == [tiles |-> <<>>, plotOfTile |-> <<>>,
                     layerTiles |-> [l \in DOMAIN layers |-> [c \in Cells |-> EmptyIndex]]]
<1>1. PICK f : /\ f[0] = empty
               /\ \A l \in 1..Len(layers) : f[l] = LayerRefreshed(sets, layers, f[l - 1], l)
               /\ RefreshTileSet(sets, layers) = f[Len(layers)]
  BY LayerLoop DEF AreLayers
<1> DEFINE Come(t, n) ==
             /\ IsTileMap(sets, layers, t)
             /\ \A l \in DOMAIN layers, c \in Cells :
                  IF l <= n THEN Shows(layers, t, l, c) ELSE Blank(t, l, c)
           T == {n \in 0..Len(layers) : Come(f[n], n)}
<1>2. Len(layers) \in Nat /\ DOMAIN layers = 1..Len(layers)
  BY DEF AreLayers
<1>3. 0 \in T
  <2>1. IsTileMap(sets, layers, empty)
    <3>1. Len(plots) \in Nat
      BY PlotsAreSequence
    <3>2. empty.tiles = <<>> /\ empty.plotOfTile = <<>>
          /\ empty.layerTiles = [l \in DOMAIN layers |-> [c \in Cells |-> EmptyIndex]]
      OBVIOUS
    <3>3. empty.layerTiles \in [DOMAIN layers -> [Cells -> Int]]
      BY <3>2 DEF EmptyIndex
    <3>4. empty.plotOfTile \in [0..Len(empty.tiles)-1 -> 0..Len(plots)-1]
      BY <3>1, <3>2
    <3>5. empty = [tiles |-> empty.tiles, plotOfTile |-> empty.plotOfTile, layerTiles |-> empty.layerTiles]
      OBVIOUS
    <3>6. empty.tiles \in Seq({TileFor(sets, plots[i]) : i \in DOMAIN plots}) /\ Len(empty.tiles) = 0
      BY <3>2
    <3> HIDE DEF empty
    <3> QED BY <3>1, <3>3, <3>4, <3>5, <3>6 DEF IsTileMap
  <2>2. \A l \in DOMAIN layers, c \in Cells : Blank(empty, l, c) /\ ~(l <= 0)
    BY <1>2 DEF Blank
  <2>3. Come(empty, 0)
    <3> HIDE DEF empty
    <3> QED BY <2>1, <2>2
  <2> HIDE DEF Come
  <2> QED BY <1>1, <1>2, <2>3
<1>4. ASSUME NEW n \in 1..Len(layers), n - 1 \in T
      PROVE  n \in T
  <2> DEFINE t == f[n - 1]
             new == LayerRefreshed(sets, layers, t, n)
  <2>1. Come(t, n - 1)
    BY <1>4
  <2>2. f[n] = new
    BY <1>1
  <2> HIDE DEF t
  <2>3. n \in DOMAIN layers /\ \A c \in Cells : Blank(t, n, c)
    BY <1>2, <2>1
  <2>4. /\ IsTileMap(sets, layers, new)
        /\ \A c \in Cells : Shows(layers, new, n, c)
        /\ \A k \in DOMAIN layers \ {n}, d \in Cells :
             /\ Shows(layers, t, k, d) => Shows(layers, new, k, d)
             /\ Blank(t, k, d) => Blank(new, k, d)
    BY <2>1, <2>3, LayerIsRefreshed
  <2> HIDE DEF new
  <2>5. ASSUME NEW l \in DOMAIN layers, NEW c \in Cells
        PROVE  IF l <= n THEN Shows(layers, new, l, c) ELSE Blank(new, l, c)
    <3>1. CASE l = n
      BY <1>2, <2>4, <3>1
    <3>2. CASE l # n
      <4>1. l <= n <=> l <= n - 1
        BY <1>2, <3>2
      <4> QED BY <2>1, <2>4, <3>2, <4>1
    <3> QED BY <3>1, <3>2
  <2>6. Come(new, n)
    BY <2>4, <2>5
  <2> HIDE DEF Come
  <2> QED BY <2>2, <2>6
<1>5. Len(layers) \in T
  <2> HIDE DEF T
  <2> QED BY <1>2, <1>3, <1>4, Rounds
<1>6. Come(f[Len(layers)], Len(layers))
  BY <1>5
<1> QED BY <1>1, <1>2, <1>6


-----------------------------------------------------------------------------
(***************************************************************************)
(* The two sides read the same layers.                                     *)
(***************************************************************************)

ServerGrids ==
  [l \in DOMAIN file.layers |->
     IF file.json THEN ServerLayerFromJson(file.layers[l]) ELSE ServerLayerFromBinary(file.layers[l])]

PlotIndexes == (0..Len(plots)-1) \cup {EmptyIndex}

LEMMA NamesLeadToPlots ==
  ASSUME IsPlots(plots), NEW name
  PROVE  PlotIndexByName(name) \in PlotIndexes
<1> DEFINE its == {i \in 1..Len(plots) : plots[i].name = name}
           n == IF its # {} THEN Min(its) ELSE 0
<1>1. SelectInSeq(plots, LAMBDA p : p.name = name) = n
  BY Zenon DEF SelectInSeq
<1>2. PlotIndexByName(name) = IF n = 0 THEN EmptyIndex ELSE n - 1
  BY <1>1, Zenon DEF PlotIndexByName
<1>3. Len(plots) \in Nat
  BY PlotsAreSequence
<1>4. CASE its = {}
  BY <1>2, <1>4 DEF PlotIndexes
<1>5. CASE its # {}
  <2>1. its \subseteq Nat
    BY <1>3
  <2>2. Min(its) \in its
    BY <1>5, <2>1, LeastElement
  <2>3. n \in 1..Len(plots)
    BY <1>5, <2>2
  <2> HIDE DEF n
  <2> QED BY <1>2, <1>3, <2>3 DEF PlotIndexes
<1> QED BY <1>4, <1>5

LEMMA JsonLayersHavePlots ==
  ASSUME IsPlots(plots), NEW base \in PlotIndexes, NEW layer, NEW c \in Cells
  PROVE  JsonLayer(base, layer)[c] \in PlotIndexes
BY NamesLeadToPlots DEF JsonLayer

LEMMA BinaryLayersHavePlots ==
  ASSUME IsPlots(plots), NEW layer, NEW c \in Cells, layer.grid[c] \in -1..Len(plots)-1
  PROVE  CreateLayer(layer)[c] \in PlotIndexes
<1>1. CreateLayer(layer)[c] = (IF layer.grid[c] = -1 THEN EmptyIndex ELSE layer.grid[c]) % 65536
  BY DEF CreateLayer
<1>2. Len(plots) \in Nat /\ Len(plots) <= 65535
  BY PlotsAreSequence DEF EmptyIndex
<1>3. CASE layer.grid[c] = -1
  BY <1>1, <1>3 DEF PlotIndexes, EmptyIndex
<1>4. CASE layer.grid[c] # -1
  <2>1. layer.grid[c] \in 0..Len(plots)-1
    BY <1>2, <1>4
  <2>2. \A n \in 0..Len(plots)-1 : n % 65536 = n
    BY <1>2
  <2> QED BY <1>1, <1>4, <2>1, <2>2 DEF PlotIndexes
<1> QED BY <1>3, <1>4

LEMMA ClientReadsLayers ==
  ASSUME IsPlots(plots), IsFile(file), PlotsAreInTable
  PROVE  AreLayers(BuildLayers) /\ DOMAIN BuildLayers = DOMAIN file.layers
<1>1. file.layers \in Seq(Range(file.layers))
  BY DEF IsFile
<1>2. Len(file.layers) \in Nat /\ DOMAIN file.layers = 1..Len(file.layers)
  BY <1>1
<1>3. DOMAIN BuildLayers = DOMAIN file.layers
  BY DEF BuildLayers
<1>4. Len(BuildLayers) = Len(file.layers)
  BY <1>2 DEF BuildLayers
<1>5. ASSUME NEW l \in DOMAIN file.layers, NEW c \in Cells
      PROVE  BuildLayers[l][c] \in PlotIndexes
  <2>1. CASE file.json
    <3> DEFINE layer == file.layers[l]
               base == IF layer.default = "" THEN EmptyIndex ELSE PlotIndexByName(layer.default)
    <3>1. BuildLayers[l] = JsonLayer(base, layer)
      BY <2>1 DEF BuildLayers, ClientLayerFromJson
    <3>2. base \in PlotIndexes
      BY NamesLeadToPlots DEF PlotIndexes
    <3> HIDE DEF base, layer
    <3> QED BY <3>1, <3>2, JsonLayersHavePlots
  <2>2. CASE ~file.json
    <3>1. BuildLayers[l] = CreateLayer(file.layers[l])
      BY <2>2 DEF BuildLayers
    <3>2. file.layers[l].grid[c] \in -1..Len(plots)-1
      BY <2>2 DEF PlotsAreInTable
    <3> QED BY <3>1, <3>2, BinaryLayersHavePlots
  <2> QED BY <2>1, <2>2
<1> QED BY <1>2, <1>3, <1>4, <1>5 DEF AreLayers, PlotIndexes

LEMMA SidesReadTheSame ==
  ASSUME DefaultsAreGiven
  PROVE  ServerGrids = BuildLayers
<1>1. ASSUME NEW l \in DOMAIN file.layers
      PROVE  ServerGrids[l] = BuildLayers[l]
  <2>1. CASE file.json
    <3>1. file.layers[l].default # ""
      BY <2>1 DEF DefaultsAreGiven
    <3> QED BY <2>1, <3>1 DEF ServerGrids, BuildLayers, ServerLayerFromJson, ClientLayerFromJson
  <2>2. CASE ~file.json
    BY <2>2 DEF ServerGrids, BuildLayers, ServerLayerFromBinary, CreateLayer
  <2> QED BY <2>1, <2>2
<1>2. DOMAIN ServerGrids = DOMAIN file.layers /\ DOMAIN BuildLayers = DOMAIN file.layers
  BY DEF ServerGrids, BuildLayers
<1>3. ServerGrids = [l \in DOMAIN file.layers |-> ServerGrids[l]]
      /\ BuildLayers = [l \in DOMAIN file.layers |-> BuildLayers[l]]
  BY DEF ServerGrids, BuildLayers
<1> QED BY <1>1, <1>3

-----------------------------------------------------------------------------
(***************************************************************************)
(* The invariant: both sides hold what their loads left, except that the   *)
(* animations go on.                                                       *)
(***************************************************************************)

TileMapLoaded == RefreshTileSet(IndexedTileSets, BuildLayers)

\* A tile of the tile map, and the same one later.
Plays(tile, loaded) ==
  /\ tile = [frames |-> tile.frames, current |-> tile.current, time |-> tile.time]
  /\ tile.frames = loaded.frames
  /\ tile.current \in DOMAIN tile.frames

Loaded ==
  /\ tileSets = IndexedTileSets
  /\ layerTiles = TileMapLoaded.layerTiles
  /\ plotOfTile = TileMapLoaded.plotOfTile
  /\ DOMAIN tiles = DOMAIN TileMapLoaded.tiles
  /\ \A i \in DOMAIN tiles : Plays(tiles[i], TileMapLoaded.tiles[i])

IslandsInv ==
  /\ plots \in PlotTables /\ file \in IslandFiles
  /\ grids # <<>> => grids = ServerGrids
  /\ PicturesAreOwn /\ PlotsAreInTable /\ client = "loaded" => Loaded
  /\ viewport \in Int /\ viewport >= -Pixels

LEMMA PlotsAndFileAreSound ==
  ASSUME plots \in PlotTables, file \in IslandFiles
  PROVE  IsPlots(plots) /\ IsFile(file)
BY IslandsAssumption

\* What RefreshTileSet does, for this island.
LEMMA TileMapIsLoaded ==
  ASSUME plots \in PlotTables, file \in IslandFiles, PicturesAreOwn, PlotsAreInTable
  PROVE  /\ IsTileMap(IndexedTileSets, BuildLayers, TileMapLoaded)
         /\ \A l \in DOMAIN BuildLayers, c \in Cells : Shows(BuildLayers, TileMapLoaded, l, c)
<1>1. IsPlots(plots) /\ IsFile(file)
  BY PlotsAndFileAreSound
<1>2. AreLayers(BuildLayers)
  BY <1>1, ClientReadsLayers
<1> DEFINE layers == BuildLayers
           sets == IndexedTileSets
<1>3. TileMapLoaded = RefreshTileSet(sets, layers) /\ AreLayers(layers)
  BY <1>2 DEF TileMapLoaded
<1> HIDE DEF layers, sets
<1>4. IsTileMap(sets, layers, TileMapLoaded)
      /\ \A l \in DOMAIN layers, c \in Cells : Shows(layers, TileMapLoaded, l, c)
  BY <1>1, <1>3, IslandIsRefreshed
<1> QED BY <1>4 DEF layers, sets

\* The frames of a loaded tile are numbered from 1.
LEMMA LoadedTile ==
  ASSUME plots \in PlotTables, file \in IslandFiles, PicturesAreOwn, PlotsAreInTable,
         NEW i \in DOMAIN TileMapLoaded.tiles
  PROVE  /\ TileMapLoaded.tiles[i] = NewTile(TileMapLoaded.tiles[i].frames)
         /\ Len(TileMapLoaded.tiles[i].frames) \in Nat
         /\ Len(TileMapLoaded.tiles[i].frames) >= 1
         /\ DOMAIN TileMapLoaded.tiles[i].frames = 1..Len(TileMapLoaded.tiles[i].frames)
<1> DEFINE tm == TileMapLoaded
           sets == IndexedTileSets
           layers == BuildLayers
<1>1. IsTileMap(sets, layers, tm) /\ IsPlots(plots)
  BY TileMapIsLoaded, PlotsAndFileAreSound
<1> HIDE DEF tm, sets, layers
<1>2. i \in 1..Len(tm.tiles)
  <2>1. tm.tiles \in Seq({TileFor(sets, plots[j]) : j \in DOMAIN plots}) /\ i \in DOMAIN tm.tiles
    BY <1>1 DEF IsTileMap, tm
  <2> QED BY <2>1
<1> DEFINE q == tm.plotOfTile[i - 1]
           frames == FramesOf(sets, plots[q + 1])
<1>3. q \in 0..Len(plots)-1 /\ tm.tiles[i].frames = frames
  BY <1>1, <1>2, TileOfPlot
<1>4. tm.tiles[i] = NewTile(frames)
  BY <1>1, <1>2 DEF IsTileMap, TileFor
<1>5. q + 1 \in DOMAIN plots
  BY <1>1, <1>3, PlotsAreSequence
<1> HIDE DEF q
<1>6. DOMAIN frames = 1..Len(plots[q + 1].frames) /\ Len(plots[q + 1].frames) \in Nat
      /\ Len(plots[q + 1].frames) >= 1
  BY <1>1, <1>5, FramesOfPlot, PlotsAreSequence
<1>7. Len(frames) = Len(plots[q + 1].frames)
  <2>1. frames = [f \in DOMAIN frames |-> frames[f]]
    <3>1. CASE Len(plots[q + 1].frames) > 1
      BY <3>1 DEF FramesOf, GetAnimationInfoFromPlot
    <3>2. CASE ~(Len(plots[q + 1].frames) > 1)
      BY <3>2 DEF FramesOf
    <3> QED BY <3>1, <3>2
  <2> HIDE DEF frames
  <2> QED BY <1>6, <2>1
<1> HIDE DEF frames
<1> QED BY <1>3, <1>4, <1>6, <1>7 DEF tm


LEMMA InvInit ==
  IslandsInit => IslandsInv
<1> SUFFICES ASSUME IslandsInit
             PROVE  IslandsInv
  OBVIOUS
<1>1. Pixels \in Nat
  BY IslandsAssumption
<1> QED BY <1>1 DEF IslandsInit, IslandsInv

\* The files are read and kept.
Kept == plots' = plots /\ file' = file

LEMMA KeptIsKept ==
  ASSUME Kept
  PROVE  /\ ServerGrids' = ServerGrids
         /\ TileMapLoaded' = TileMapLoaded
         /\ IndexedTileSets' = IndexedTileSets
         /\ PicturesAreOwn' = PicturesAreOwn /\ PlotsAreInTable' = PlotsAreInTable
         /\ DefaultsAreGiven' = DefaultsAreGiven
<1>1. IndexedTileSets' = IndexedTileSets
  BY DEF Kept, IndexedTileSets
<1>6. ASSUME NEW name
      PROVE  PlotIndexByName(name)' = PlotIndexByName(name)
  BY DEF Kept, PlotIndexByName, SelectInSeq
<1>7. ASSUME NEW base, NEW layer
      PROVE  JsonLayer(base, layer)' = JsonLayer(base, layer)
  BY <1>6 DEF JsonLayer
<1>8. ASSUME NEW layer
      PROVE  /\ ServerLayerFromJson(layer)' = ServerLayerFromJson(layer)
             /\ ClientLayerFromJson(layer)' = ClientLayerFromJson(layer)
  BY <1>6, <1>7 DEF ServerLayerFromJson, ClientLayerFromJson
<1>9. ASSUME NEW l
      PROVE  /\ ServerLayerFromJson(file.layers[l])' = ServerLayerFromJson(file.layers[l])
             /\ ClientLayerFromJson(file.layers[l])' = ClientLayerFromJson(file.layers[l])
  BY <1>8 DEF Kept
<1>2. ServerGrids' = ServerGrids
  BY <1>9 DEF Kept, ServerGrids, ServerLayerFromBinary
<1>3. BuildLayers' = BuildLayers
  BY <1>9 DEF Kept, BuildLayers, CreateLayer
<1>4. TileMapLoaded' = TileMapLoaded
  BY <1>1, <1>3 DEF Kept, TileMapLoaded, RefreshTileSet, LayerRefreshed, CellRefreshed,
       UpdatePlotOnTileMap, GetAnimationInfoFromPlot, TileMapIndex
<1>5. PicturesAreOwn' = PicturesAreOwn /\ PlotsAreInTable' = PlotsAreInTable
      /\ DefaultsAreGiven' = DefaultsAreGiven
  BY DEF Kept, PicturesAreOwn, PlotsAreInTable, DefaultsAreGiven
<1> QED BY <1>1, <1>2, <1>4, <1>5

\* An animation goes on to one of its frames.
LEMMA TickedPlays ==
  ASSUME NEW tile, NEW loaded, Plays(tile, loaded), NEW dt,
         Len(loaded.frames) \in Nat, Len(loaded.frames) >= 1,
         DOMAIN loaded.frames = 1..Len(loaded.frames)
  PROVE  Plays(Ticked(tile, dt), loaded)
<1> DEFINE n == Len(tile.frames)
<1>1. n \in Nat /\ n >= 1 /\ DOMAIN tile.frames = 1..n /\ tile.current \in 1..n
  BY DEF Plays
<1> HIDE DEF n
<1>2. CASE n <= 1
  BY <1>2 DEF Ticked, n
<1>3. CASE ~(n <= 1) /\ tile.time + dt <= tile.frames[tile.current].time
  <2>1. Ticked(tile, dt) = [tile EXCEPT !.time = @ + dt]
    BY <1>3 DEF Ticked, n
  <2> QED BY <2>1 DEF Plays
<1>4. CASE ~(n <= 1) /\ ~(tile.time + dt <= tile.frames[tile.current].time)
  <2> DEFINE next == IF tile.current + 1 > n THEN 1 ELSE tile.current + 1
  <2>1. next \in 1..n
    BY <1>1
  <2>2. Ticked(tile, dt) = [frames |-> tile.frames, current |-> next, time |-> 0]
    <3>1. Ticked(tile, dt) = [tile EXCEPT !.time = 0, !.current = next]
      BY <1>4 DEF Ticked, n
    <3> HIDE DEF next
    <3> QED BY <3>1 DEF Plays
  <2> HIDE DEF next
  <2> QED BY <1>1, <2>1, <2>2 DEF Plays
<1> QED BY <1>2, <1>3, <1>4

LEMMA InvStep ==
  IslandsInv /\ [IslandsNext]_islandVars => IslandsInv'
<1> SUFFICES ASSUME IslandsInv, [IslandsNext]_islandVars
             PROVE  IslandsInv'
  OBVIOUS
<1>0. Kept
  BY DEF Kept, IslandsNext, ServerLoad, ClientLoad, IslandTick, MoveCamera, islandVars
<1>1. plots' \in PlotTables /\ file' \in IslandFiles
  BY <1>0 DEF Kept, IslandsInv
<1>2. CASE ServerLoad
  <2>1. grids' = ServerGrids
    BY <1>2 DEF ServerLoad, ServerGrids
  <2>2. UNCHANGED <<tileSets, tiles, layerTiles, plotOfTile, client, viewport>>
    BY <1>2 DEF ServerLoad
  <2>3. Loaded => Loaded'
    BY <1>0, <2>2, KeptIsKept DEF Loaded
  <2> QED BY <1>0, <1>1, <2>1, <2>2, <2>3, KeptIsKept DEF IslandsInv
<1>3. ASSUME NEW fails \in BOOLEAN, ClientLoad(fails)
      PROVE  IslandsInv'
  <2>1. UNCHANGED <<plots, file, grids, viewport>>
    BY <1>3 DEF ClientLoad
  <2>2. /\ tileSets' = IndexedTileSets
        /\ tiles' = TileMapLoaded.tiles
        /\ layerTiles' = TileMapLoaded.layerTiles
        /\ plotOfTile' = TileMapLoaded.plotOfTile
    BY <1>3 DEF ClientLoad, TileMapLoaded
  <2>3. PicturesAreOwn /\ PlotsAreInTable => Loaded'
    <3> SUFFICES ASSUME PicturesAreOwn, PlotsAreInTable
                 PROVE  Loaded'
      OBVIOUS
    <3>1. ASSUME NEW i \in DOMAIN TileMapLoaded.tiles
          PROVE  Plays(TileMapLoaded.tiles[i], TileMapLoaded.tiles[i])
      <4>1. /\ TileMapLoaded.tiles[i] = NewTile(TileMapLoaded.tiles[i].frames)
            /\ 1 \in DOMAIN TileMapLoaded.tiles[i].frames
        BY LoadedTile DEF IslandsInv
      <4> DEFINE tile == TileMapLoaded.tiles[i]
                 frames == tile.frames
      <4>2. tile = [frames |-> frames, current |-> 1, time |-> 0] /\ 1 \in DOMAIN frames
        BY <4>1 DEF NewTile
      <4> HIDE DEF tile
      <4> QED BY <4>2 DEF Plays, tile
    <3> QED BY <1>0, <2>2, <3>1, KeptIsKept DEF Loaded
  <2> QED BY <1>0, <1>1, <2>1, <2>3, KeptIsKept DEF IslandsInv
<1>4. CASE IslandTick
  <2>1. UNCHANGED <<plots, file, grids, tileSets, layerTiles, plotOfTile, client, viewport>>
        /\ client = "loaded"
    BY <1>4 DEF IslandTick
  <2>2. PICK dt \in 1..MaxTime : tiles' = [i \in DOMAIN tiles |-> Ticked(tiles[i], dt)]
    BY <1>4 DEF IslandTick
  <2>3. PicturesAreOwn /\ PlotsAreInTable => Loaded'
    <3> SUFFICES ASSUME PicturesAreOwn, PlotsAreInTable
                 PROVE  Loaded'
      OBVIOUS
    <3>1. Loaded
      BY <2>1 DEF IslandsInv
    <3>2. ASSUME NEW i \in DOMAIN tiles
          PROVE  Plays(Ticked(tiles[i], dt), TileMapLoaded.tiles[i])
      <4>1. i \in DOMAIN TileMapLoaded.tiles /\ Plays(tiles[i], TileMapLoaded.tiles[i])
        BY <3>1 DEF Loaded
      <4>2. /\ Len(TileMapLoaded.tiles[i].frames) \in Nat
            /\ Len(TileMapLoaded.tiles[i].frames) >= 1
            /\ DOMAIN TileMapLoaded.tiles[i].frames = 1..Len(TileMapLoaded.tiles[i].frames)
        BY <4>1, LoadedTile DEF IslandsInv
      <4> QED BY <4>1, <4>2, TickedPlays
    <3>3. DOMAIN tiles' = DOMAIN tiles /\ \A i \in DOMAIN tiles : tiles'[i] = Ticked(tiles[i], dt)
      BY <2>2
    <3>4. DOMAIN tiles' = DOMAIN TileMapLoaded.tiles
          /\ \A i \in DOMAIN tiles' : Plays(tiles'[i], TileMapLoaded.tiles[i])
      BY <3>1, <3>2, <3>3 DEF Loaded
    <3> QED BY <1>0, <2>1, <3>1, <3>4, KeptIsKept DEF Loaded
  <2> QED BY <1>0, <1>1, <2>1, <2>3, KeptIsKept DEF IslandsInv
<1>5. CASE MoveCamera
  <2>1. UNCHANGED <<grids, tileSets, tiles, layerTiles, plotOfTile, client>>
        /\ viewport' \in Int /\ viewport' >= -Pixels
    BY <1>5 DEF MoveCamera, IslandsInv
  <2>2. Loaded => Loaded'
    BY <1>0, <2>1, KeptIsKept DEF Loaded
  <2> QED BY <1>0, <1>1, <2>1, <2>2, KeptIsKept DEF IslandsInv
<1>6. CASE UNCHANGED islandVars
  <2>1. UNCHANGED <<grids, tileSets, tiles, layerTiles, plotOfTile, client, viewport>>
    BY <1>6 DEF islandVars
  <2>2. Loaded => Loaded'
    BY <1>0, <2>1, KeptIsKept DEF Loaded
  <2> QED BY <1>0, <1>1, <2>1, <2>2, KeptIsKept DEF IslandsInv
<1> QED BY <1>2, <1>3, <1>4, <1>5, <1>6 DEF IslandsNext

LEMMA InvAlways ==
  IslandsSpec => []IslandsInv
BY InvInit, InvStep, PTL DEF IslandsSpec

-----------------------------------------------------------------------------
(***************************************************************************)
(* Both sides find the same plot.                                          *)
(***************************************************************************)

\* The topmost layer exists if any does.
LEMMA TopmostLayer ==
  ASSUME NEW layers, Len(layers) \in Nat, DOMAIN layers = 1..Len(layers), NEW c,
         Topmost(layers, c) # EmptyIndex \/ \E l \in DOMAIN layers : layers[l][c] # EmptyIndex
  PROVE  \E l \in DOMAIN layers :
           /\ layers[l][c] # EmptyIndex
           /\ Topmost(layers, c) = layers[l][c]
           /\ \A k \in DOMAIN layers : layers[k][c] # EmptyIndex => k <= l
<1> DEFINE full == {l \in DOMAIN layers : layers[l][c] # EmptyIndex}
<1>1. full # {}
  BY DEF Topmost
<1>2. full \subseteq 0..Len(layers)
  OBVIOUS
<1>3. Max(full) \in full /\ \A k \in full : Max(full) >= k
  BY <1>1, <1>2, GreatestElement
<1>4. Topmost(layers, c) = layers[Max(full)][c]
  BY <1>1 DEF Topmost
<1> HIDE DEF full
<1>5. Max(full) \in DOMAIN layers /\ layers[Max(full)][c] # EmptyIndex
  BY <1>3 DEF full
<1>6. \A k \in DOMAIN layers : layers[k][c] # EmptyIndex => k <= Max(full)
  BY <1>3, <1>5 DEF full
<1> QED BY <1>4, <1>5, <1>6

\* A tile's index is no empty cell's.
LEMMA TilesAreNotEmpty ==
  ASSUME IsPlots(plots), NEW sets, NEW layers, NEW tm, IsTileMap(sets, layers, tm)
  PROVE  EmptyIndex \notin DOMAIN tm.plotOfTile
<1>1. Len(plots) \in Nat /\ Len(plots) <= EmptyIndex
  BY PlotsAreSequence
<1>2. DOMAIN tm.plotOfTile = 0..Len(tm.tiles)-1 /\ Len(tm.tiles) \in Nat /\ Len(tm.tiles) <= Len(plots)
  BY DEF IsTileMap
<1> QED BY <1>1, <1>2 DEF EmptyIndex

\* A client that has loaded finds the very plot that the server finds.
LEMMA SamePlot ==
  ASSUME IslandsInv, PicturesAreOwn, PlotsAreInTable, DefaultsAreGiven,
         grids # <<>>, client = "loaded", NEW c \in Cells
  PROVE  ClientPlotIndexAt(c) = ServerPlotIndexAt(c)
<1> DEFINE layers == BuildLayers
           tm == TileMapLoaded
<1>1. IsPlots(plots) /\ IsFile(file) /\ AreLayers(layers)
  BY PlotsAndFileAreSound, ClientReadsLayers DEF IslandsInv
<1>2. grids = layers
  BY SidesReadTheSame DEF IslandsInv
<1>3. IsTileMap(IndexedTileSets, layers, tm) /\ \A l \in DOMAIN layers, d \in Cells : Shows(layers, tm, l, d)
  BY TileMapIsLoaded DEF IslandsInv
<1>4. layerTiles = tm.layerTiles /\ plotOfTile = tm.plotOfTile
  BY DEF IslandsInv, Loaded
<1> HIDE DEF layers, tm
<1>5. Len(layers) \in Nat /\ DOMAIN layers = 1..Len(layers) /\ DOMAIN layerTiles = DOMAIN layers
      /\ layerTiles = [l \in DOMAIN layers |-> layerTiles[l]]
  BY <1>1, <1>3, <1>4 DEF AreLayers, IsTileMap
<1>6. Len(layerTiles) = Len(layers)
  BY <1>5
<1>7. \A l \in DOMAIN layers :
        /\ layers[l][c] = EmptyIndex <=> layerTiles[l][c] = EmptyIndex
        /\ layers[l][c] # EmptyIndex => plotOfTile[layerTiles[l][c]] = layers[l][c]
  BY <1>1, <1>3, <1>4, TilesAreNotEmpty DEF Shows
<1>8. CASE \A l \in DOMAIN layers : layers[l][c] = EmptyIndex
  <2>1. Topmost(layers, c) = EmptyIndex
    BY <1>8 DEF Topmost
  <2>2. Topmost(layerTiles, c) = EmptyIndex
    BY <1>5, <1>7, <1>8 DEF Topmost
  <2> QED BY <1>2, <2>1, <2>2 DEF ClientPlotIndexAt, ServerPlotIndexAt
<1>9. CASE \E l \in DOMAIN layers : layers[l][c] # EmptyIndex
  <2>1. PICK l \in DOMAIN layers :
          /\ layers[l][c] # EmptyIndex /\ Topmost(layers, c) = layers[l][c]
          /\ \A k \in DOMAIN layers : layers[k][c] # EmptyIndex => k <= l
    BY <1>5, <1>9, TopmostLayer
  <2>2. \E m \in DOMAIN layerTiles : layerTiles[m][c] # EmptyIndex
    BY <1>5, <1>7, <2>1
  <2>3. PICK m \in DOMAIN layerTiles :
          /\ layerTiles[m][c] # EmptyIndex /\ Topmost(layerTiles, c) = layerTiles[m][c]
          /\ \A k \in DOMAIN layerTiles : layerTiles[k][c] # EmptyIndex => k <= m
    BY <1>5, <1>6, <2>2, TopmostLayer
  <2>4. l = m
    <3>1. l <= m /\ m <= l
      BY <1>5, <1>7, <2>1, <2>3
    <3>2. l \in Nat /\ m \in Nat
      BY <1>5
    <3> QED BY <3>1, <3>2
  <2>5. plotOfTile[Topmost(layerTiles, c)] = Topmost(layers, c)
    BY <1>7, <2>1, <2>3, <2>4
  <2> QED BY <1>2, <2>3, <2>5 DEF ClientPlotIndexAt, ServerPlotIndexAt
<1> QED BY <1>8, <1>9

\* On files whose plots do not share pictures, client and server decide alike where a
\* character may go: Island::GetPlotIndexAtWorldPosition of the client, through the tile that lies
\* there, finds what the server's finds in its grid.
THEOREM PlotsAgreeAlways ==
  IslandsSpec => []PlotsAgree
<1>1. IslandsInv => PlotsAgree
  BY SamePlot DEF PlotsAgree
<1> QED BY <1>1, InvAlways, PTL


-----------------------------------------------------------------------------
(***************************************************************************)
(* The pictures are drawn from the tile sets of their plots, and the       *)
(* columns that the camera shows are drawn.                                *)
(***************************************************************************)

\* The loop over the frames of a plot.
LEMMA FramesLoop ==
  ASSUME NEW p, Len(p.frames) \in Nat, NEW sets
  PROVE  \E u : /\ u[0] = sets
                /\ \A n \in 1..Len(p.frames) : u[n] = WithTileSet(u[n - 1], p.frames[n].set)
                /\ WithTileSetsOf(p, sets) = u[Len(p.frames)]
<1> DEFINE N == Len(p.frames)
           Round(t, n) == WithTileSet(t, p.frames[n].set)
           IsRun(u, m) == u = [f \in 0..m |-> IF f = 0 THEN sets ELSE Round(u[f - 1], f)]
           T == {m \in 0..N : \E u : IsRun(u, m)}
<1>1. 0 \in T
  <2>1. IsRun([n \in 0..0 |-> sets], 0)
    OBVIOUS
  <2> HIDE DEF IsRun
  <2> QED BY <2>1
<1>2. ASSUME NEW m \in 1..N, m - 1 \in T
      PROVE  m \in T
  <2>1. PICK u : IsRun(u, m - 1)
    BY <1>2
  <2> DEFINE g == [n \in 0..m |-> IF n = m THEN Round(u[m - 1], m) ELSE u[n]]
  <2> HIDE DEF Round
  <2>2. g = [n \in 0..m |-> IF n = 0 THEN sets ELSE Round(g[n - 1], n)]
    BY <2>1
  <2>3. IsRun(g, m)
    BY <2>2
  <2> HIDE DEF IsRun, g
  <2> QED BY <2>3
<1>3. N \in T
  <2> HIDE DEF T
  <2> QED BY <1>1, <1>2, Rounds
<1> DEFINE run == CHOOSE u : IsRun(u, N)
<1>4. IsRun(run, N)
  BY <1>3
<1>5. WithTileSetsOf(p, sets) = run[N]
  BY DEF WithTileSetsOf
<1>6. N \in Nat
  OBVIOUS
<1> HIDE DEF run, Round, N
<1>7. run[0] = sets /\ \A n \in 1..N : run[n] = Round(run[n - 1], n)
  BY <1>4, <1>6
<1> QED BY <1>5, <1>7 DEF Round, N

\* The loop over the plots.
LEMMA PlotsLoop ==
  ASSUME Len(plots) \in Nat
  PROVE  \E u : /\ u[0] = <<>>
                /\ \A n \in 1..Len(plots) : u[n] = WithTileSetsOf(plots[n], u[n - 1])
                /\ IndexedTileSets = u[Len(plots)]
<1> DEFINE N == Len(plots)
           Round(t, n) == WithTileSetsOf(plots[n], t)
           IsRun(u, m) == u = [i \in 0..m |-> IF i = 0 THEN <<>> ELSE Round(u[i - 1], i)]
           T == {m \in 0..N : \E u : IsRun(u, m)}
<1>1. 0 \in T
  <2>1. IsRun([n \in 0..0 |-> <<>>], 0)
    OBVIOUS
  <2> HIDE DEF IsRun
  <2> QED BY <2>1
<1>2. ASSUME NEW m \in 1..N, m - 1 \in T
      PROVE  m \in T
  <2>1. PICK u : IsRun(u, m - 1)
    BY <1>2
  <2> DEFINE g == [n \in 0..m |-> IF n = m THEN Round(u[m - 1], m) ELSE u[n]]
  <2> HIDE DEF Round
  <2>2. g = [n \in 0..m |-> IF n = 0 THEN <<>> ELSE Round(g[n - 1], n)]
    BY <2>1
  <2>3. IsRun(g, m)
    BY <2>2
  <2> HIDE DEF IsRun, g
  <2> QED BY <2>3
<1>3. N \in T
  <2> HIDE DEF T
  <2> QED BY <1>1, <1>2, Rounds
<1> DEFINE run == CHOOSE u : IsRun(u, N)
<1>4. IsRun(run, N)
  BY <1>3
<1>5. IndexedTileSets = run[N]
  BY DEF IndexedTileSets
<1> HIDE DEF run, Round
<1>6. run[0] = <<>> /\ \A n \in 1..N : run[n] = Round(run[n - 1], n)
  BY <1>4
<1> QED BY <1>5, <1>6 DEF Round

SetNames == UNION {{frame.set : frame \in Range(plots[i].frames)} : i \in DOMAIN plots}

\* One list of tile sets goes on as the other.
GoesOn(sets, more) ==
  /\ Len(sets) <= Len(more)
  /\ \A i \in 1..Len(sets) : more[i] = sets[i]

LEMMA TileSetIsAdded ==
  ASSUME NEW S, NEW sets \in Seq(S), NEW set \in S
  PROVE  /\ WithTileSet(sets, set) \in Seq(S)
         /\ GoesOn(sets, WithTileSet(sets, set))
         /\ Contains(WithTileSet(sets, set), set)
         /\ sets = <<>> => WithTileSet(sets, set)[1] = set
<1> DEFINE new == WithTileSet(sets, set)
<1>1. CASE Contains(sets, set)
  <2>1. new = sets
    BY <1>1 DEF WithTileSet
  <2>2. sets # <<>>
    BY <1>1 DEF Contains
  <2> HIDE DEF new
  <2> QED BY <1>1, <2>1, <2>2 DEF GoesOn, new
<1>2. CASE ~Contains(sets, set)
  <2>1. new = Append(sets, set)
    BY <1>2 DEF WithTileSet
  <2> HIDE DEF new
  <2>2. /\ new \in Seq(S) /\ Len(new) = Len(sets) + 1 /\ Len(sets) \in Nat
        /\ \A i \in 1..Len(sets) : new[i] = sets[i]
        /\ new[Len(sets) + 1] = set
    BY <2>1
  <2>3. Len(sets) + 1 \in 1..Len(new)
    BY <2>2
  <2>4. sets = <<>> => Len(sets) + 1 = 1
    OBVIOUS
  <2>5. Contains(new, set)
    BY <2>2, <2>3, Zenon DEF Contains
  <2>6. GoesOn(sets, new)
    BY <2>2 DEF GoesOn
  <2>7. sets = <<>> => new[1] = set
    BY <2>2, <2>4
  <2> QED BY <2>2, <2>5, <2>6, <2>7 DEF new
<1> QED BY <1>1, <1>2

LEMMA StillContains ==
  ASSUME NEW S, NEW sets \in Seq(S), NEW more \in Seq(S), GoesOn(sets, more), NEW set, Contains(sets, set)
  PROVE  Contains(more, set) /\ sets[1] = more[1]
BY DEF GoesOn, Contains

\* The tile sets of one plot.
LEMMA PlotsTileSetsAreAdded ==
  ASSUME NEW S, NEW sets \in Seq(S), NEW p, Len(p.frames) \in Nat, Len(p.frames) >= 1,
         \A f \in 1..Len(p.frames) : p.frames[f].set \in S
  PROVE  LET new == WithTileSetsOf(p, sets)
         IN  /\ new \in Seq(S)
             /\ GoesOn(sets, new)
             /\ \A f \in 1..Len(p.frames) : Contains(new, p.frames[f].set)
             /\ sets = <<>> => new[1] = p.frames[1].set
<1>1. PICK u : /\ u[0] = sets
               /\ \A n \in 1..Len(p.frames) : u[n] = WithTileSet(u[n - 1], p.frames[n].set)
               /\ WithTileSetsOf(p, sets) = u[Len(p.frames)]
  BY FramesLoop
<1> DEFINE Come(t, n) ==
             /\ t \in Seq(S) /\ GoesOn(sets, t)
             /\ \A f \in 1..n : Contains(t, p.frames[f].set)
             /\ n = 0 => t = sets
             /\ n > 0 /\ sets = <<>> => t[1] = p.frames[1].set
           T == {n \in 0..Len(p.frames) : Come(u[n], n)}
<1>2. 0 \in T
  BY <1>1 DEF GoesOn
<1>3. ASSUME NEW n \in 1..Len(p.frames), n - 1 \in T
      PROVE  n \in T
  <2> DEFINE t == u[n - 1]
             set == p.frames[n].set
             new == WithTileSet(t, set)
  <2>1. Come(t, n - 1)
    BY <1>3
  <2>2. u[n] = new /\ set \in S
    BY <1>1
  <2> HIDE DEF t
  <2>3. set = p.frames[n].set
    OBVIOUS
  <2> HIDE DEF set
  <2>4. /\ new \in Seq(S) /\ GoesOn(t, new) /\ Contains(new, set)
        /\ t = <<>> => new[1] = set
    BY <2>1, <2>2, TileSetIsAdded
  <2> HIDE DEF new
  <2>5. GoesOn(sets, new)
    BY <2>1, <2>4 DEF GoesOn
  <2>6. ASSUME NEW f \in 1..n
        PROVE  Contains(new, p.frames[f].set)
    <3>1. CASE f = n
      BY <2>3, <2>4, <3>1
    <3>2. CASE f # n
      <4>1. f \in 1..(n-1)
        BY <3>2
      <4> QED BY <2>1, <2>4, <4>1, StillContains
    <3> QED BY <3>1, <3>2
  <2>7. ASSUME sets = <<>>
        PROVE  new[1] = p.frames[1].set
    <3>1. CASE n = 1
      BY <2>1, <2>3, <2>4, <2>7, <3>1
    <3>2. CASE n # 1
      <4>1. n - 1 > 0 /\ 1 \in 1..(n-1)
        BY <3>2
      <4>2. Contains(t, p.frames[1].set)
        BY <2>1, <4>1
      <4> QED BY <2>1, <2>4, <2>7, <4>1, <4>2, StillContains
    <3> QED BY <3>1, <3>2
  <2>8. Come(new, n)
    BY <2>4, <2>5, <2>6, <2>7
  <2> HIDE DEF Come
  <2> QED BY <2>2, <2>8
<1>4. Len(p.frames) \in T
  <2> HIDE DEF T
  <2> QED BY <1>2, <1>3, Rounds
<1>5. Come(u[Len(p.frames)], Len(p.frames))
  BY <1>4
<1> HIDE DEF T
<1> QED BY <1>1, <1>5

\* The tile sets of all plots; the first is that of the first picture.
LEMMA TileSetsAreIndexed ==
  ASSUME IsPlots(plots)
  PROVE  /\ IndexedTileSets \in Seq(SetNames)
         /\ \A i \in DOMAIN plots : \A f \in DOMAIN plots[i].frames :
              Contains(IndexedTileSets, plots[i].frames[f].set)
         /\ Len(plots) > 0 => IndexedTileSets[1] = plots[1].frames[1].set
<1>0. /\ Len(plots) \in Nat /\ DOMAIN plots = 1..Len(plots)
      /\ \A i \in DOMAIN plots : /\ Len(plots[i].frames) \in Nat /\ Len(plots[i].frames) >= 1
                                 /\ DOMAIN plots[i].frames = 1..Len(plots[i].frames)
  BY PlotsAreSequence
<1>1. PICK u : /\ u[0] = <<>>
               /\ \A n \in 1..Len(plots) : u[n] = WithTileSetsOf(plots[n], u[n - 1])
               /\ IndexedTileSets = u[Len(plots)]
  BY <1>0, PlotsLoop
<1>2. \A i \in DOMAIN plots : \A f \in DOMAIN plots[i].frames : plots[i].frames[f].set \in SetNames
  BY DEF SetNames, Range
<1> DEFINE Come(t, n) ==
             /\ t \in Seq(SetNames)
             /\ \A i \in 1..n : \A f \in DOMAIN plots[i].frames : Contains(t, plots[i].frames[f].set)
             /\ n = 0 => t = <<>>
             /\ n > 0 => t[1] = plots[1].frames[1].set
           T == {n \in 0..Len(plots) : Come(u[n], n)}
<1>3. 0 \in T
  <2>1. Come(<<>>, 0)
    OBVIOUS
  <2> HIDE DEF Come
  <2> QED BY <1>0, <1>1, <2>1
<1>4. ASSUME NEW n \in 1..Len(plots), n - 1 \in T
      PROVE  n \in T
  <2> DEFINE t == u[n - 1]
             new == WithTileSetsOf(plots[n], t)
  <2>1. Come(t, n - 1)
    BY <1>4
  <2>2. u[n] = new
    BY <1>1
  <2> HIDE DEF t
  <2>3. /\ new \in Seq(SetNames) /\ GoesOn(t, new)
        /\ \A f \in DOMAIN plots[n].frames : Contains(new, plots[n].frames[f].set)
        /\ t = <<>> => new[1] = plots[n].frames[1].set
    <3> DEFINE p == plots[n]
    <3>1. n \in DOMAIN plots /\ Len(p.frames) \in Nat /\ Len(p.frames) >= 1
          /\ DOMAIN p.frames = 1..Len(p.frames)
      BY <1>0
    <3>2. \A f \in 1..Len(p.frames) : p.frames[f].set \in SetNames
      BY <1>2, <3>1
    <3>3. t \in Seq(SetNames)
      BY <2>1
    <3> HIDE DEF p
    <3>4. /\ WithTileSetsOf(p, t) \in Seq(SetNames)
          /\ GoesOn(t, WithTileSetsOf(p, t))
          /\ \A f \in 1..Len(p.frames) : Contains(WithTileSetsOf(p, t), p.frames[f].set)
          /\ t = <<>> => WithTileSetsOf(p, t)[1] = p.frames[1].set
      BY <3>1, <3>2, <3>3, PlotsTileSetsAreAdded
    <3> QED BY <3>1, <3>4 DEF p
  <2> HIDE DEF new
  <2>4. ASSUME NEW i \in 1..n, NEW f \in DOMAIN plots[i].frames
        PROVE  Contains(new, plots[i].frames[f].set)
    <3>1. CASE i = n
      BY <2>3, <3>1
    <3>2. CASE i # n
      <4>1. i \in 1..(n-1)
        BY <3>2
      <4> QED BY <2>1, <2>3, <4>1, StillContains
    <3> QED BY <3>1, <3>2
  <2>5. new[1] = plots[1].frames[1].set
    <3>1. CASE n = 1
      BY <2>1, <2>3, <3>1
    <3>2. CASE n # 1
      <4>1. n - 1 > 0 /\ 1 \in 1..(n-1) /\ 1 \in DOMAIN plots
        BY <1>0, <3>2
      <4>2. 1 \in DOMAIN plots[1].frames
        BY <1>0, <4>1
      <4>3. Contains(t, plots[1].frames[1].set)
        BY <2>1, <4>1, <4>2
      <4> QED BY <2>1, <2>3, <4>1, <4>3, StillContains
    <3> QED BY <3>1, <3>2
  <2>6. Come(new, n)
    BY <2>3, <2>4, <2>5
  <2> HIDE DEF Come
  <2> QED BY <2>2, <2>6
<1>5. Len(plots) \in T
  <2> HIDE DEF T
  <2> QED BY <1>0, <1>3, <1>4, Rounds
<1>6. Come(u[Len(plots)], Len(plots))
  BY <1>5
<1> HIDE DEF T
<1> QED BY <1>0, <1>1, <1>6

LEMMA TileSetIsThere ==
  ASSUME NEW S, NEW sets \in Seq(S), NEW set, Contains(sets, set)
  PROVE  TileSetIndex(sets, set) \in Nat /\ sets[TileSetIndex(sets, set) + 1] = set
<1> DEFINE its == {i \in 1..Len(sets) : sets[i] = set}
           n == IF its # {} THEN Min(its) ELSE 0
<1>1. TileSetIndex(sets, set) = n - 1
  <2>1. SelectInSeq(sets, LAMBDA s : s = set) = n
    BY Zenon DEF SelectInSeq
  <2> HIDE DEF n
  <2> QED BY <2>1, Zenon DEF TileSetIndex
<1>2. its # {} /\ its \subseteq Nat
  BY DEF Contains
<1>3. Min(its) \in its
  BY <1>2, LeastElement
<1>4. n \in 1..Len(sets) /\ sets[n] = set
  BY <1>2, <1>3
<1> HIDE DEF n
<1> QED BY <1>1, <1>4

\* The tile set a plot's picture is looked up in is the one it was made for.
LEMMA FrameIsFound ==
  ASSUME IsPlots(plots), TileSetsAreFound, NEW i \in DOMAIN plots, NEW f \in DOMAIN plots[i].frames
  PROVE  LET frame == FramesOf(IndexedTileSets, plots[i])[f]
         IN  /\ IndexedTileSets[frame.set + 1] = plots[i].frames[f].set
             /\ frame.index = plots[i].frames[f].index
<1> DEFINE sets == IndexedTileSets
           frame == FramesOf(sets, plots[i])[f]
<1>1. /\ Len(plots) \in Nat /\ DOMAIN plots = 1..Len(plots)
      /\ Len(plots[i].frames) \in Nat /\ Len(plots[i].frames) >= 1
      /\ DOMAIN plots[i].frames = 1..Len(plots[i].frames)
  BY PlotsAreSequence
<1>2. /\ sets \in Seq(SetNames) /\ Contains(sets, plots[i].frames[f].set)
      /\ Len(plots) > 0 => sets[1] = plots[1].frames[1].set
  BY TileSetsAreIndexed
<1> HIDE DEF sets
<1>3. frame.index = plots[i].frames[f].index
  BY FramesOfPlot
<1>4. CASE Len(plots[i].frames) > 1
  <2>1. frame.set = TileMapIndex(sets, plots[i].frames[f].set)
    BY <1>4 DEF FramesOf, GetAnimationInfoFromPlot
  <2>2. /\ plots[i].frames[f].set = plots[1].frames[1].set
        /\ \A j \in DOMAIN plots : plots[j].name # plots[i].frames[f].set
    BY <1>4 DEF TileSetsAreFound
  <2>3. TileMapIndex(sets, plots[i].frames[f].set) = 0
    BY <2>2 DEF TileMapIndex
  <2>4. Len(plots) > 0 /\ 0 + 1 = 1
    BY <1>1
  <2> HIDE DEF frame
  <2> QED BY <1>2, <1>3, <2>1, <2>2, <2>3, <2>4 DEF frame, sets
<1>5. CASE Len(plots[i].frames) = 1
  <2>1. f = 1 /\ ~(Len(plots[i].frames) > 1)
    BY <1>1, <1>5
  <2>2. frame.set = TileMapIndex(sets, plots[i].name)
    BY <2>1 DEF FramesOf
  <2>3. {j \in DOMAIN plots : plots[j].name = plots[i].name} = {i}
    BY DEF TileSetsAreFound
  <2>4. {i} \subseteq 0..Len(plots) /\ {i} # {}
    BY <1>1
  <2>5. Max({i}) = i
    BY <1>1, <2>4, GreatestElement
  <2>6. TileMapIndex(sets, plots[i].name) = TileSetIndex(sets, Last(plots[i].frames).set)
    BY <2>3, <2>5 DEF TileMapIndex
  <2>7. Last(plots[i].frames) = plots[i].frames[f]
    BY <1>5, <2>1 DEF Last
  <2>8. sets[TileSetIndex(sets, plots[i].frames[f].set) + 1] = plots[i].frames[f].set
    BY <1>2, TileSetIsThere
  <2> HIDE DEF frame
  <2> QED BY <1>3, <2>2, <2>6, <2>7, <2>8 DEF frame, sets
<1>6. \A k \in Nat : k >= 1 => k > 1 \/ k = 1
  OBVIOUS
<1> QED BY <1>1, <1>4, <1>5, <1>6, Zenon

\* The picture shown where a plot lies is one of the plot's.
LEMMA PlotIsShown ==
  ASSUME IslandsInv, PicturesAreOwn, TileSetsAreFound, PlotsAreInTable, client = "loaded",
         NEW l \in DOMAIN layerTiles, NEW c \in Cells, layerTiles[l][c] # EmptyIndex
  PROVE  \E f \in Range(plots[plotOfTile[layerTiles[l][c]] + 1].frames) :
           PictureAt(l, c) = [set |-> f.set, index |-> f.index]
<1> DEFINE layers == BuildLayers
           tm == TileMapLoaded
           sets == IndexedTileSets
           t == layerTiles[l][c]
           q == plotOfTile[t]
           tile == tiles[t + 1]
<1>1. IsPlots(plots)
  BY PlotsAndFileAreSound DEF IslandsInv
<1>2. IsTileMap(sets, layers, tm) /\ \A k \in DOMAIN layers, d \in Cells : Shows(layers, tm, k, d)
  BY TileMapIsLoaded DEF IslandsInv
<1>3. /\ tileSets = sets /\ layerTiles = tm.layerTiles /\ plotOfTile = tm.plotOfTile
      /\ DOMAIN tiles = DOMAIN tm.tiles /\ \A i \in DOMAIN tiles : Plays(tiles[i], tm.tiles[i])
  BY DEF IslandsInv, Loaded
<1> HIDE DEF layers, tm, sets
<1>4. l \in DOMAIN layers
  BY <1>2, <1>3 DEF IsTileMap
<1>5. t \in DOMAIN tm.plotOfTile
  BY <1>2, <1>3, <1>4 DEF Shows
<1>6. Len(tm.tiles) \in Nat /\ DOMAIN tm.tiles = 1..Len(tm.tiles) /\ DOMAIN tm.plotOfTile = 0..Len(tm.tiles)-1
  BY <1>2 DEF IsTileMap
<1>7. t \in Int /\ t + 1 \in 1..Len(tm.tiles) /\ (t + 1) - 1 = t
  BY <1>5, <1>6
<1> HIDE DEF t
<1>8. q \in 0..Len(plots)-1 /\ tm.tiles[t + 1].frames = FramesOf(sets, plots[q + 1])
  BY <1>2, <1>3, <1>7, TileOfPlot
<1> HIDE DEF q
<1>9. q + 1 \in DOMAIN plots
  BY <1>1, <1>8, PlotsAreSequence
<1>10. tile.frames = FramesOf(sets, plots[q + 1]) /\ tile.current \in DOMAIN tile.frames
  BY <1>3, <1>6, <1>7, <1>8 DEF Plays
<1> HIDE DEF tile
<1> DEFINE k == tile.current
           f == plots[q + 1].frames[k]
<1>11. k \in DOMAIN plots[q + 1].frames
  BY <1>1, <1>9, <1>10, FramesOfPlot
<1>12. sets[tile.frames[k].set + 1] = f.set /\ tile.frames[k].index = f.index
  BY <1>1, <1>9, <1>10, <1>11, FrameIsFound DEF sets
<1>13. PictureAt(l, c) = [set |-> f.set, index |-> f.index]
  BY <1>3, <1>12 DEF PictureAt, tile, t
<1>14. f \in Range(plots[q + 1].frames)
  BY <1>11 DEF Range
<1> HIDE DEF f
<1> QED BY <1>13, <1>14 DEF q, t

LEMMA LesserOf ==
  ASSUME NEW a \in Nat, NEW b \in Nat
  PROVE  Min({a, b}) \in {a, b} /\ Min({a, b}) <= a /\ Min({a, b}) <= b
BY LeastElement

LEMMA GreaterOf ==
  ASSUME NEW a \in Int, NEW b \in Int
  PROVE  Max({a, b}) \in {a, b} /\ Max({a, b}) >= a /\ Max({a, b}) >= b
<1>1. \E x \in {a, b} : \A y \in {a, b} : x >= y
  OBVIOUS
<1>2. Max({a, b}) = CHOOSE x \in {a, b} : \A y \in {a, b} : x >= y
  BY DEF Max
<1> QED BY <1>1, <1>2

\* A column that is wholly in view is drawn.
LEMMA ColumnIsDrawn ==
  ASSUME viewport \in Int, viewport >= -Pixels, NEW x \in 0..WidthInTiles-1,
         viewport <= x * Pixels, (x + 1) * Pixels <= viewport + ViewportWidth
  PROVE  x \in ColumnsDrawn
<1> DEFINE P == Pixels
           W == WidthInTiles
           a == viewport + P
           q == a \div P
           d == ViewportWidth \div P
           from == Max({q - 1, 0})
           width == Min({d + 1, W})
           to == Min({from + width, W})
<1>1. P \in Nat /\ P > 0 /\ W \in Nat /\ W > 0 /\ ViewportWidth \in Nat /\ a \in Nat
  BY IslandsAssumption
<1>2. q \in Nat /\ a % P \in Nat /\ a % P < P /\ a = P * q + (a % P)
  <2> HIDE DEF a, P
  <2> QED BY <1>1, Division
<1>3. d \in Nat /\ ViewportWidth % P \in Nat /\ ViewportWidth % P < P
      /\ ViewportWidth = P * d + (ViewportWidth % P)
  <2> HIDE DEF P
  <2> QED BY <1>1, Division
<1>4. a <= (x + 1) * P /\ (x + 2) * P <= a + ViewportWidth
  <2>1. x \in Int /\ viewport <= x * P /\ (x + 1) * P <= viewport + ViewportWidth
    OBVIOUS
  <2>2. (x + 1) * P = x * P + P /\ (x + 2) * P = (x + 1) * P + P
    <3> HIDE DEF P
    <3> QED BY <1>1, <2>1
  <2> QED BY <1>1, <2>1, <2>2
<1>5. a = viewport + P
  OBVIOUS
<1> HIDE DEF P, W, a, q, d
<1>6. x \in Nat /\ x < W
  BY <1>1 DEF W
<1>7. q <= x + 1
  <2>1. q * P <= (x + 1) * P
    BY <1>1, <1>2, <1>4, <1>6
  <2>2. q * P < (x + 2) * P
    <3> DEFINE m == (x + 1) * P
    <3>1. m \in Int /\ (x + 2) * P = m + P /\ q * P \in Int
      BY <1>1, <1>2, <1>6
    <3>2. q * P <= m
      BY <2>1
    <3> HIDE DEF m
    <3> QED BY <1>1, <3>1, <3>2
  <2>3. q < x + 2
    BY <1>1, <1>2, <1>6, <2>2, ProductsAreOrdered
  <2> QED BY <1>2, <1>6, <2>3
<1>8. x < q + d
  <2> DEFINE s == a % P
             r == ViewportWidth % P
  <2>1. s \in Nat /\ r \in Nat /\ s < P /\ r < P /\ a = P * q + s /\ ViewportWidth = P * d + r
    BY <1>2, <1>3
  <2> HIDE DEF s, r
  <2>2. (x + 2) * P <= P * q + P * d + (s + r) /\ s + r < P + P
    <3> DEFINE m == (x + 2) * P
               n == P * q
               o == P * d
    <3>1. m \in Int /\ n \in Int /\ o \in Int
      BY <1>1, <1>2, <1>3, <1>6
    <3>2. m <= a + ViewportWidth /\ a = n + s /\ ViewportWidth = o + r
      BY <1>4, <2>1
    <3> HIDE DEF m, n, o
    <3>3. m <= n + o + (s + r) /\ s + r < P + P
      BY <1>1, <2>1, <3>1, <3>2
    <3> QED BY <3>3 DEF m, n, o
  <2>3. P * q + P * d + (P + P) = (q + d + 2) * P
    BY <1>1, <1>2, <1>3
  <2>4. (x + 2) * P < (q + d + 2) * P
    <3> DEFINE m == (x + 2) * P
               n == P * q + P * d
    <3>1. m \in Int /\ n \in Int /\ m <= n + (s + r)
      BY <1>1, <1>2, <1>3, <1>6, <2>2
    <3>2. n + (P + P) = (q + d + 2) * P
      BY <2>3
    <3> HIDE DEF m, n
    <3>3. m < n + (P + P)
      BY <1>1, <2>1, <2>2, <3>1
    <3> QED BY <3>2, <3>3 DEF m
  <2>5. x + 2 < q + d + 2
    BY <1>1, <1>2, <1>3, <1>6, <2>4, ProductsAreOrdered
  <2> QED BY <1>2, <1>3, <1>6, <2>5
<1>9. from \in Nat /\ from <= x /\ from >= q - 1
  <2>1. q - 1 \in Int /\ 0 \in Int
    BY <1>2
  <2>2. from \in {q - 1, 0} /\ from >= q - 1 /\ from >= 0
    BY <2>1, GreaterOf
  <2> HIDE DEF from
  <2> QED BY <1>2, <1>6, <1>7, <2>2
<1> HIDE DEF from
<1>10. width \in Nat /\ x < from + width
  <2>1. width \in {d + 1, W}
    BY <1>1, <1>3, LesserOf
  <2> HIDE DEF width
  <2> QED BY <1>1, <1>2, <1>3, <1>6, <1>8, <1>9, <2>1
<1> HIDE DEF width
<1>11. to \in Nat /\ x < to
  <2>1. to \in {from + width, W}
    BY <1>1, <1>9, <1>10, LesserOf
  <2> HIDE DEF to
  <2> QED BY <1>1, <1>6, <1>9, <1>10, <2>1
<1>12. ColumnsDrawn = from..(to - 1)
  BY DEF ColumnsDrawn, from, width, to, q, d, a, P, W
<1> HIDE DEF to
<1> QED BY <1>6, <1>9, <1>11, <1>12

\* The player sees the plots the character walks on: TileMap::RenderLayer shows at every cell a
\* picture of the plot that lies there, and leaves out no column that is wholly in view.
THEOREM ShowsThePlotsAlways ==
  IslandsSpec => []ShowsThePlots
<1>1. ASSUME IslandsInv
      PROVE  ShowsThePlots
  <2>1. viewport \in Int /\ viewport >= -Pixels
    BY <1>1 DEF IslandsInv
  <2> QED BY <1>1, <2>1, PlotIsShown, ColumnIsDrawn DEF ShowsThePlots
<1> QED BY <1>1, InvAlways, PTL

-----------------------------------------------------------------------------
(***************************************************************************)
(* Packets: loops.                                                         *)
(***************************************************************************)

\* What a loop of N rounds computes: step[n] says what round n makes of a value.
Runs(f, N, V, base, step) ==
  /\ f \in [0..N -> V] /\ f[0] = base
  /\ \A n \in 1..N : f[n] = step[n][f[n - 1]]

LEMMA LoopExists ==
  ASSUME NEW N \in Nat, NEW V, NEW base \in V, NEW step,
         \A n \in 1..N : \A v \in V : step[n][v] \in V
  PROVE  \E f : Runs(f, N, V, base, step)
<1> DEFINE T == {m \in 0..N : \E f : Runs(f, m, V, base, step)}
<1>1. 0 \in T
  <2>1. Runs([n \in 0..0 |-> base], 0, V, base, step)
    BY DEF Runs
  <2> QED BY <2>1
<1>2. ASSUME NEW m \in 1..N, m - 1 \in T
      PROVE  m \in T
  <2>1. PICK f : Runs(f, m - 1, V, base, step)
    BY <1>2
  <2> DEFINE next == step[m][f[m - 1]]
             g == [n \in 0..m |-> IF n = m THEN next ELSE f[n]]
  <2>2. next \in V /\ f \in [0..(m-1) -> V] /\ f[0] = base
    BY <2>1 DEF Runs
  <2>3. g[m] = next /\ (\A n \in 0..(m-1) : g[n] = f[n]) /\ g \in [0..m -> V]
    <3> HIDE DEF next
    <3> QED BY <2>2
  <2>4. \A n \in 1..m : g[n] = step[n][g[n - 1]]
    <3>1. \A n \in 1..(m-1) : f[n] = step[n][f[n - 1]]
      BY <2>1 DEF Runs
    <3>2. ASSUME NEW n \in 1..m
          PROVE  g[n] = step[n][g[n - 1]]
      <4>1. n - 1 \in 0..(m-1) /\ (n # m => n \in 1..(m-1) /\ n \in 0..(m-1))
        OBVIOUS
      <4> HIDE DEF g
      <4> QED BY <2>3, <3>1, <4>1
    <3> QED BY <3>2
  <2> HIDE DEF g
  <2>5. Runs(g, m, V, base, step)
    BY <2>2, <2>3, <2>4 DEF Runs
  <2> QED BY <2>5
<1>3. N \in T
  <2> HIDE DEF T
  <2> QED BY <1>1, <1>2, Rounds
<1> QED BY <1>3

-----------------------------------------------------------------------------
(***************************************************************************)
(* Numbers as bytes.                                                       *)
(***************************************************************************)

LEMMA ByteFacts == ByteValues \in Nat /\ ByteValues >= 16
BY PacketsAssumption

LEMMA ByteDivision ==
  ASSUME NEW v \in Nat
  PROVE  /\ v \div ByteValues \in Nat /\ v % ByteValues \in 0..(ByteValues - 1)
         /\ v = (v \div ByteValues) * ByteValues + (v % ByteValues)
         /\ v \div ByteValues <= v
<1>1. ByteValues \in Nat /\ ByteValues > 0
  BY ByteFacts
<1> QED BY <1>1

LEMMA DivisionIsMonotone ==
  ASSUME NEW v \in Nat, NEW w \in Nat, v <= w
  PROVE  v \div ByteValues <= w \div ByteValues
<1> DEFINE B == ByteValues
           p == v \div B
           q == w \div B
           r == v % B
           s == w % B
<1>1. /\ B \in Nat /\ B > 0 /\ p \in Nat /\ q \in Nat /\ r \in 0..(B-1) /\ s \in 0..(B-1)
      /\ v = p * B + r /\ w = q * B + s
  BY ByteFacts, ByteDivision
<1> HIDE DEF B, p, q, r, s
<1>2. ASSUME p > q
      PROVE  FALSE
  <2>1. p * B = (q + 1) * B + (p - q - 1) * B
    BY <1>1
  <2>2. (p - q - 1) * B \in Nat
    <3>1. p - q - 1 \in Nat
      BY <1>1, <1>2
    <3> HIDE DEF p, q
    <3> QED BY <1>1, <3>1
  <2>3. (q + 1) * B = q * B + B /\ q * B \in Nat /\ p * B \in Nat
    BY <1>1
  <2> DEFINE qB == q * B
             pB == p * B
             x == (p - q - 1) * B
             y == (q + 1) * B
  <2>4. x \in Nat /\ qB \in Nat /\ pB \in Nat /\ y \in Nat /\ pB = y + x /\ y = qB + B /\ v = pB + r /\ w = qB + s
    BY <1>1, <2>1, <2>2, <2>3
  <2> HIDE DEF qB, pB, x, y
  <2> QED BY <1>1, <2>4
<1>3. p <= q
  BY <1>1, <1>2
<1> QED BY <1>3 DEF p, q, B

LEMMA ShiftedIs ==
  ASSUME NEW v \in Nat, NEW k \in Nat
  PROVE  \E s : /\ s \in [0..k -> Nat] /\ s[0] = v /\ Shifted(v, k) = s[k]
                /\ \A j \in 1..k : s[j] = s[j - 1] \div ByteValues
<1> DEFINE step == [j \in 1..k |-> [w \in Nat |-> w \div ByteValues]]
           IsRun(s) == s = [j \in 0..k |-> IF j = 0 THEN v ELSE s[j - 1] \div ByteValues]
           run == CHOOSE s : IsRun(s)
<1>1. \A j \in 1..k : \A w \in Nat : step[j][w] = w \div ByteValues /\ step[j][w] \in Nat
  BY ByteDivision
<1> HIDE DEF step
<1>2. PICK s : Runs(s, k, Nat, v, step)
  BY <1>1, LoopExists
<1>3. s \in [0..k -> Nat] /\ s[0] = v /\ \A j \in 1..k : s[j] = s[j - 1] \div ByteValues
  BY <1>1, <1>2 DEF Runs
<1>4. IsRun(s)
  <2>1. \A j \in 0..k : s[j] = IF j = 0 THEN v ELSE s[j - 1] \div ByteValues
    BY <1>3
  <2>2. s = [j \in 0..k |-> s[j]]
    BY <1>3
  <2> QED BY <2>1, <2>2
<1>5. IsRun(run)
  <2> HIDE DEF IsRun
  <2> QED BY <1>4
<1>6. Shifted(v, k) = run[k]
  BY DEF Shifted
<1> HIDE DEF run
<1>7. run[0] = v /\ \A j \in 1..k : run[j] = run[j - 1] \div ByteValues
  BY <1>5
<1> DEFINE Same == {j \in 0..k : run[j] = s[j]}
<1>8. k \in Same
  <2>1. 0 \in Same /\ \A j \in 1..k : j - 1 \in Same => j \in Same
    BY <1>3, <1>7
  <2> HIDE DEF Same
  <2> QED BY <2>1, Rounds
<1> QED BY <1>3, <1>6, <1>8

LEMMA ShiftedNext ==
  ASSUME NEW v \in Nat
  PROVE  /\ Shifted(v, 0) = v
         /\ \A k \in Nat : Shifted(v, k) \in Nat
         /\ \A k \in Nat : Shifted(v, k + 1) = Shifted(v, k) \div ByteValues
<1>1. Shifted(v, 0) = v
  BY ShiftedIs
<1>2. ASSUME NEW k \in Nat
      PROVE  Shifted(v, k) \in Nat /\ Shifted(v, k + 1) = Shifted(v, k) \div ByteValues
  <2>1. PICK s : /\ s \in [0..k -> Nat] /\ s[0] = v /\ Shifted(v, k) = s[k]
                 /\ \A j \in 1..k : s[j] = s[j - 1] \div ByteValues
    BY ShiftedIs
  <2>2. PICK r : /\ r \in [0..k+1 -> Nat] /\ r[0] = v /\ Shifted(v, k + 1) = r[k + 1]
                 /\ \A j \in 1..k+1 : r[j] = r[j - 1] \div ByteValues
    <3>1. k + 1 \in Nat
      OBVIOUS
    <3> QED BY <3>1, ShiftedIs
  <2> DEFINE Same == {j \in 0..k : r[j] = s[j]}
  <2>3. k \in Same
    <3>1. 0 \in Same /\ \A j \in 1..k : j - 1 \in Same => j \in Same
      BY <2>1, <2>2
    <3> HIDE DEF Same
    <3> QED BY <3>1, Rounds
  <2>4. k + 1 \in 1..(k+1) /\ (k + 1) - 1 = k
    OBVIOUS
  <2> QED BY <2>1, <2>2, <2>3, <2>4
<1> QED BY <1>1, <1>2

LEMMA ShiftedIsMonotone ==
  ASSUME NEW v \in Nat, NEW w \in Nat, v <= w, NEW k \in Nat
  PROVE  Shifted(v, k) <= Shifted(w, k)
<1> DEFINE T == {j \in 0..k : Shifted(v, j) <= Shifted(w, j)}
<1>1. 0 \in T
  BY ShiftedNext
<1>2. ASSUME NEW j \in 1..k, j - 1 \in T
      PROVE  j \in T
  <2>1. j - 1 \in Nat /\ (j - 1) + 1 = j
    OBVIOUS
  <2>2. Shifted(v, j) = Shifted(v, j - 1) \div ByteValues /\ Shifted(w, j) = Shifted(w, j - 1) \div ByteValues
    BY <2>1, ShiftedNext
  <2>3. Shifted(v, j - 1) \in Nat /\ Shifted(w, j - 1) \in Nat
    BY <2>1, ShiftedNext
  <2> QED BY <1>2, <2>2, <2>3, DivisionIsMonotone
<1>3. k \in T
  <2> HIDE DEF T
  <2> QED BY <1>1, <1>2, Rounds
<1> QED BY <1>3

LEMMA SmallerFits ==
  ASSUME NEW v \in Nat, NEW w, v <= w, NEW n \in Nat \ {0}, Fits(w, n)
  PROVE  Fits(v, n)
<1>1. w \in Nat /\ n - 1 \in Nat /\ Shifted(w, n - 1) < ByteValues
  BY DEF Fits
<1>2. Shifted(v, n - 1) <= Shifted(w, n - 1) /\ Shifted(v, n - 1) \in Nat /\ Shifted(w, n - 1) \in Nat
  BY <1>1, ShiftedIsMonotone, ShiftedNext
<1> QED BY <1>1, <1>2, ByteFacts DEF Fits

Byte == 0..ByteValues-1

LEMMA SmallRest ==
  ASSUME NEW v \in Nat, v < ByteValues
  PROVE  v % ByteValues = v
<1> DEFINE q == v \div ByteValues
           B == ByteValues
<1>1. q \in Nat /\ B \in Nat /\ v = q * B + (v % B) /\ v % B \in Nat
  BY ByteDivision, ByteFacts
<1> DEFINE r == v % B
<1> HIDE DEF q, r
<1>2. q = 0
  <2>1. ASSUME q >= 1
        PROVE  FALSE
    <3>1. q * B >= B
      <4>1. q * B = (q - 1) * B + B /\ (q - 1) * B \in Nat
        <5>1. q - 1 \in Nat
          BY <1>1, <2>1
        <5> HIDE DEF B
        <5> QED BY <1>1, <5>1
      <4> QED BY <1>1, <4>1
    <3> QED BY <1>1, <3>1 DEF r
  <2> QED BY <1>1, <2>1
<1> QED BY <1>1, <1>2

LEMMA BigEndianBytes ==
  ASSUME NEW v \in Int, NEW n \in Nat
  PROVE  /\ BigEndian(v, n) \in Seq(Byte) /\ Len(BigEndian(v, n)) = n
         /\ Magnitude(v) \in Nat
         /\ \A i \in 1..n : BigEndian(v, n)[i] =
              IF v < 0 THEN ByteValues - 1 - (Shifted(Magnitude(v), n - i) % ByteValues)
              ELSE Shifted(Magnitude(v), n - i) % ByteValues
<1>1. Magnitude(v) \in Nat
  BY DEF Magnitude
<1> DEFINE digit(i) == Shifted(Magnitude(v), n - i) % ByteValues
           byte(i) == IF v < 0 THEN ByteValues - 1 - digit(i) ELSE digit(i)
<1>2. BigEndian(v, n) = [i \in 1..n |-> byte(i)]
  BY DEF BigEndian
<1>3. ASSUME NEW i \in 1..n
      PROVE  byte(i) \in Byte
  <2>1. n - i \in Nat
    OBVIOUS
  <2>2. digit(i) \in 0..(ByteValues - 1)
    BY <1>1, <2>1, ShiftedNext, ByteDivision
  <2> HIDE DEF digit
  <2> QED BY <2>2, ByteFacts DEF Byte
<1>4. \A i \in 1..n : BigEndian(v, n)[i] = byte(i)
  BY <1>2
<1> HIDE DEF byte
<1>5. BigEndian(v, n) \in Seq(Byte) /\ Len(BigEndian(v, n)) = n
  BY <1>2, <1>3
<1> QED BY <1>1, <1>4, <1>5 DEF byte

LEMMA FromBigEndianIs ==
  ASSUME NEW bytes \in Seq(Byte)
  PROVE  \E f : /\ f \in [0..Len(bytes) -> Nat] /\ f[0] = 0 /\ FromBigEndian(bytes) = f[Len(bytes)]
                /\ \A k \in 1..Len(bytes) : f[k] = f[k - 1] * ByteValues + bytes[k]
<1> DEFINE n == Len(bytes)
           Next(w, k) == w * ByteValues + bytes[k]
           step == [k \in 1..n |-> [w \in Nat |-> Next(w, k)]]
           IsRun(f) == f = [k \in 0..n |-> IF k = 0 THEN 0 ELSE Next(f[k - 1], k)]
           run == CHOOSE f : IsRun(f)
<1>0. FromBigEndian(bytes) = run[n]
  BY DEF FromBigEndian
<1>1. n \in Nat /\ \A k \in 1..n : \A w \in Nat : Next(w, k) \in Nat
  <2>1. n \in Nat
    OBVIOUS
  <2>2. ASSUME NEW k \in 1..n, NEW w \in Nat
        PROVE  Next(w, k) \in Nat
    <3>1. bytes[k] \in Nat
      BY ByteFacts DEF Byte
    <3>2. w * ByteValues \in Nat
      BY ByteFacts
    <3> QED BY <3>1, <3>2
  <2> QED BY <2>1, <2>2
<1> HIDE DEF Next, n
<1>2. \A k \in 1..n : \A w \in Nat : step[k][w] = Next(w, k)
  OBVIOUS
<1> HIDE DEF step
<1>3. PICK s : Runs(s, n, Nat, 0, step)
  BY <1>1, <1>2, LoopExists
<1>4. s \in [0..n -> Nat] /\ s[0] = 0 /\ \A k \in 1..n : s[k] = Next(s[k - 1], k)
  <2>1. s \in [0..n -> Nat] /\ s[0] = 0
    BY <1>3 DEF Runs
  <2>2. ASSUME NEW k \in 1..n
        PROVE  s[k] = Next(s[k - 1], k)
    <3>1. s[k] = step[k][s[k - 1]]
      BY <1>3 DEF Runs
    <3>2. k - 1 \in 0..n
      BY <1>1
    <3>3. s[k - 1] \in Nat
      BY <2>1, <3>2
    <3> QED BY <1>2, <3>1, <3>3
  <2> QED BY <2>1, <2>2
<1>5. IsRun(s)
  <2>1. \A k \in 0..n : s[k] = IF k = 0 THEN 0 ELSE Next(s[k - 1], k)
    BY <1>1, <1>4
  <2>2. s = [k \in 0..n |-> s[k]]
    BY <1>4
  <2> QED BY <2>1, <2>2
<1>6. IsRun(run)
  <2> HIDE DEF IsRun
  <2> QED BY <1>5
<1> HIDE DEF run
<1>7. run[0] = 0 /\ \A k \in 1..n : run[k] = Next(run[k - 1], k)
  <2>1. \A k \in 0..n : run[k] = IF k = 0 THEN 0 ELSE Next(run[k - 1], k)
    BY <1>6
  <2>2. 0 \in 0..n /\ \A k \in 1..n : k \in 0..n /\ k # 0
    BY <1>1
  <2> QED BY <2>1, <2>2, Zenon
<1> DEFINE Same == {k \in 0..n : run[k] = s[k]}
<1>8. n \in Same
  <2>1. 0 \in Same /\ \A k \in 1..n : k - 1 \in Same => k \in Same
    BY <1>1, <1>4, <1>7
  <2> HIDE DEF Same
  <2> QED BY <1>1, <2>1, Rounds
<1> QED BY <1>0, <1>4, <1>8 DEF n, Next

\* The digits of a number, put together again.
LEMMA DigitsMakeNumber ==
  ASSUME NEW v \in Nat, NEW bytes \in Seq(Byte), Len(bytes) > 0, Shifted(v, Len(bytes) - 1) < ByteValues,
         \A i \in 1..Len(bytes) : bytes[i] = Shifted(v, Len(bytes) - i) % ByteValues
  PROVE  FromBigEndian(bytes) = v
<1> DEFINE n == Len(bytes)
<1>0. n \in Nat
  OBVIOUS
<1>1. PICK f : /\ f \in [0..n -> Nat] /\ f[0] = 0 /\ FromBigEndian(bytes) = f[n]
               /\ \A k \in 1..n : f[k] = f[k - 1] * ByteValues + bytes[k]
  BY FromBigEndianIs
<1> DEFINE T == {k \in 0..n : k = 0 \/ f[k] = Shifted(v, n - k)}
<1>2. \A i \in 1..n : bytes[i] = Shifted(v, n - i) % ByteValues
  OBVIOUS
<1>3. n > 0 /\ Shifted(v, n - 1) < ByteValues
  OBVIOUS
<1> HIDE DEF n
<1>4. 0 \in T
  BY <1>0
<1>5. ASSUME NEW k \in 1..n, k - 1 \in T
      PROVE  k \in T
  <2>1. f[k] = f[k - 1] * ByteValues + bytes[k]
    BY <1>1
  <2>2. CASE k = 1
    <3>1. Shifted(v, n - 1) \in Nat
      BY <1>0, <1>3, ShiftedNext
    <3>2. bytes[1] = Shifted(v, n - 1)
      BY <1>0, <1>2, <1>3, <3>1, SmallRest
    <3>3. f[1] = 0 * ByteValues + bytes[1]
      BY <1>1, <2>1, <2>2
    <3>4. f[1] = bytes[1]
      BY <3>1, <3>2, <3>3, ByteFacts
    <3> QED BY <1>0, <1>3, <2>2, <3>2, <3>4
  <2>3. CASE k # 1
    <3> DEFINE d == n - k
               x == Shifted(v, d)
    <3>1. d \in Nat /\ n - (k - 1) = d + 1 /\ k - 1 # 0
      BY <1>0, <2>3
    <3>2. x \in Nat /\ Shifted(v, d + 1) = x \div ByteValues
      <4> HIDE DEF d
      <4> QED BY <3>1, ShiftedNext
    <3>3. f[k - 1] = x \div ByteValues
      BY <1>5, <3>1, <3>2
    <3>4. bytes[k] = x % ByteValues
      BY <1>2
    <3> HIDE DEF x
    <3>5. f[k] = x
      BY <2>1, <3>2, <3>3, <3>4, ByteDivision
    <3> QED BY <1>0, <3>5 DEF x
  <2> QED BY <2>2, <2>3
<1>6. n \in T
  <2> HIDE DEF T
  <2> QED BY <1>0, <1>4, <1>5, Rounds
<1>7. n - n = 0
  BY <1>0
<1> QED BY <1>0, <1>1, <1>3, <1>6, <1>7, ShiftedNext

LEMMA NumberReadsBack ==
  ASSUME NEW n \in Nat \ {0}, NEW v, Fits(v, n)
  PROVE  FromBigEndian(BigEndian(v, n)) = v
<1>1. v \in Nat /\ Shifted(v, n - 1) < ByteValues /\ Magnitude(v) = v
  BY DEF Fits, Magnitude
<1>2. /\ BigEndian(v, n) \in Seq(Byte) /\ Len(BigEndian(v, n)) = n
      /\ \A i \in 1..n : BigEndian(v, n)[i] = Shifted(v, n - i) % ByteValues
  BY <1>1, BigEndianBytes
<1> DEFINE bytes == BigEndian(v, n)
<1> HIDE DEF bytes
<1>3. /\ bytes \in Seq(Byte) /\ Len(bytes) = n
      /\ \A i \in 1..n : bytes[i] = Shifted(v, n - i) % ByteValues
  BY <1>2 DEF bytes
<1>4. FromBigEndian(bytes) = v
  BY <1>1, <1>3, DigitsMakeNumber
<1> QED BY <1>4 DEF bytes

LEMMA SignedReadsBack ==
  ASSUME NEW v \in Int, Shifted(Magnitude(v), 3) < ByteValues \div 2
  PROVE  FromTwosComplement(BigEndian(v, 4)) = v
<1> DEFINE bytes == BigEndian(v, 4)
           m == Magnitude(v)
           half == ByteValues \div 2
           rest == [i \in DOMAIN bytes |-> ByteValues - 1 - bytes[i]]
<1>0. Shifted(m, 3) < half
  OBVIOUS
<1>1. half \in Nat /\ half + half <= ByteValues /\ ByteValues \in Nat /\ half < ByteValues
  BY ByteFacts
<1>2. /\ bytes \in Seq(Byte) /\ Len(bytes) = 4 /\ m \in Nat
      /\ \A i \in 1..4 : bytes[i] = IF v < 0 THEN ByteValues - 1 - (Shifted(m, 4 - i) % ByteValues)
                                    ELSE Shifted(m, 4 - i) % ByteValues
  BY BigEndianBytes
<1> HIDE DEF bytes
<1> HIDE DEF half
<1>3. Shifted(m, 3) \in Nat /\ Shifted(m, 3) < half /\ Shifted(m, 3) % ByteValues = Shifted(m, 3)
  <2>1. Shifted(m, 3) \in Nat
    BY <1>2, ShiftedNext
  <2> QED BY <1>0, <1>1, <2>1, SmallRest
<1>4. CASE v >= 0
  <2>1. bytes[1] = Shifted(m, 3) /\ m = v
    BY <1>2, <1>3, <1>4 DEF Magnitude
  <2>2. \A i \in 1..Len(bytes) : bytes[i] = Shifted(m, Len(bytes) - i) % ByteValues
    BY <1>2, <1>4
  <2>3. Len(bytes) - 1 = 3 /\ Len(bytes) > 0
    BY <1>2
  <2> HIDE DEF m
  <2>4. FromBigEndian(bytes) = m
    <3>1. Shifted(m, Len(bytes) - 1) < ByteValues
      <4>1. Shifted(m, 3) < ByteValues
        BY <1>1, <1>3
      <4> QED BY <2>3, <4>1, Zenon
    <3> QED BY <1>2, <2>2, <2>3, <3>1, DigitsMakeNumber
  <2> QED BY <1>3, <2>1, <2>4 DEF FromTwosComplement, bytes, half
<1>5. CASE v < 0
  <2>1. bytes[1] = ByteValues - 1 - Shifted(m, 3) /\ m = -(v + 1)
    BY <1>2, <1>3, <1>5 DEF Magnitude
  <2>2. ~ (bytes[1] < half)
    BY <1>1, <1>3, <2>1
  <2>3. \A i \in 1..4 : rest[i] = Shifted(m, 4 - i) % ByteValues /\ rest[i] \in Byte
    <3>1. ASSUME NEW i \in 1..4
          PROVE  rest[i] = Shifted(m, 4 - i) % ByteValues /\ rest[i] \in Byte
      <4>1. rest[i] = ByteValues - 1 - bytes[i]
        BY <1>2
      <4>2. bytes[i] = ByteValues - 1 - (Shifted(m, 4 - i) % ByteValues)
        BY <1>2, <1>5
      <4>3. 4 - i \in Nat
        OBVIOUS
      <4>4. Shifted(m, 4 - i) % ByteValues \in Byte
        BY <1>2, <4>3, ShiftedNext, ByteDivision DEF Byte
      <4> HIDE DEF m, rest
      <4> QED BY <1>1, <4>1, <4>2, <4>4 DEF Byte
    <3> QED BY <3>1
  <2>4. rest \in Seq(Byte) /\ Len(rest) = 4
    <3>1. rest = [i \in 1..4 |-> rest[i]]
      BY <1>2
    <3> HIDE DEF rest
    <3> QED BY <2>3, <3>1
  <2> HIDE DEF rest, m
  <2>5. FromBigEndian(rest) = m
    <3>1. Len(rest) - 1 = 3 /\ Len(rest) > 0
      BY <2>4
    <3>2. Shifted(m, Len(rest) - 1) < ByteValues
      <4>1. Shifted(m, 3) < ByteValues
        BY <1>1, <1>3
      <4> QED BY <3>1, <4>1, Zenon
    <3>3. \A i \in 1..Len(rest) : rest[i] = Shifted(m, Len(rest) - i) % ByteValues
      BY <2>3, <2>4
    <3> QED BY <1>2, <2>4, <3>1, <3>2, <3>3, DigitsMakeNumber
  <2>6. FromTwosComplement(bytes) = -(FromBigEndian(rest) + 1)
    BY <2>2 DEF FromTwosComplement, rest, half
  <2> QED BY <2>1, <2>5, <2>6 DEF bytes
<1> QED BY <1>4, <1>5

-----------------------------------------------------------------------------
(***************************************************************************)
(* Pieces of a byte sequence.                                              *)
(***************************************************************************)

\* s lies in bytes, behind position a.
At(bytes, a, s) ==
  /\ a \in Nat /\ a + Len(s) <= Len(bytes)
  /\ \A i \in 1..Len(s) : bytes[a + i] = s[i]

LEMMA Joined ==
  ASSUME NEW S, NEW x \in Seq(S), NEW y \in Seq(S)
  PROVE  x \o y \in Seq(S) /\ Len(x \o y) = Len(x) + Len(y)
OBVIOUS

LEMMA Elements ==
  ASSUME NEW S, NEW x \in Seq(S)
  PROVE  \A i \in 1..Len(x) : x[i] \in S
OBVIOUS

LEMMA AtSub ==
  ASSUME NEW bytes \in Seq(Byte), NEW s \in Seq(Byte), NEW a, At(bytes, a, s)
  PROVE  SubSeq(bytes, a + 1, a + Len(s)) = s
<1> DEFINE t == SubSeq(bytes, a + 1, a + Len(s))
<1>1. a \in Nat /\ Len(s) \in Nat /\ a + Len(s) <= Len(bytes) /\ \A i \in 1..Len(s) : bytes[a + i] = s[i]
  BY DEF At
<1>2. t \in Seq(Byte) /\ Len(t) = Len(s) /\ \A i \in 1..Len(s) : t[i] = bytes[a + i]
  BY <1>1
<1> HIDE DEF t
<1>3. t = s
  <2>1. \A i \in 1..Len(s) : t[i] = s[i]
    BY <1>1, <1>2
  <2> QED BY <1>2, <2>1
<1> QED BY <1>3 DEF t

LEMMA AtParts ==
  ASSUME NEW bytes \in Seq(Byte), NEW x \in Seq(Byte), NEW y \in Seq(Byte), NEW a, At(bytes, a, x \o y)
  PROVE  At(bytes, a, x) /\ At(bytes, a + Len(x), y)
<1> DEFINE z == x \o y
<1>1. /\ z \in Seq(Byte) /\ Len(z) = Len(x) + Len(y) /\ Len(x) \in Nat /\ Len(y) \in Nat
      /\ \A i \in 1..Len(x) : z[i] = x[i]
      /\ \A i \in 1..Len(y) : z[Len(x) + i] = y[i]
  OBVIOUS
<1>2. a \in Nat /\ a + Len(z) <= Len(bytes) /\ \A i \in 1..Len(z) : bytes[a + i] = z[i]
  BY DEF At
<1> HIDE DEF z
<1>3. \A i \in 1..Len(x) : bytes[a + i] = x[i]
  BY <1>1, <1>2
<1>4. \A i \in 1..Len(y) : bytes[(a + Len(x)) + i] = y[i]
  <2>1. ASSUME NEW i \in 1..Len(y)
        PROVE  bytes[(a + Len(x)) + i] = y[i]
    <3>1. Len(x) + i \in 1..Len(z) /\ (a + Len(x)) + i = a + (Len(x) + i)
      BY <1>1, <1>2
    <3> QED BY <1>1, <1>2, <3>1
  <2> QED BY <2>1
<1> QED BY <1>1, <1>2, <1>3, <1>4 DEF At

\* One piece after the other.
Pieces(W, pieces, n) ==
  /\ W \in [0..n -> Seq(Byte)] /\ W[0] = <<>>
  /\ \A k \in 1..n : W[k] = W[k - 1] \o pieces[k]

LEMMA PiecesAreThere ==
  ASSUME NEW n \in Nat, NEW pieces, \A k \in 1..n : pieces[k] \in Seq(Byte),
         NEW W, Pieces(W, pieces, n)
  PROVE  \A k \in 1..n : At(W[n], Len(W[k - 1]), pieces[k])
<1>1. \A k \in 0..n : W[k] \in Seq(Byte)
  BY DEF Pieces
<1>2. ASSUME NEW k \in 1..n
      PROVE  At(W[n], Len(W[k - 1]), pieces[k])
  <2> DEFINE a == Len(W[k - 1])
             T == {m \in 0..n : m < k \/ At(W[m], a, pieces[k])}
  <2>1. k - 1 \in 0..n /\ k \in 0..n
    OBVIOUS
  <2>2. a \in Nat /\ pieces[k] \in Seq(Byte) /\ W[k - 1] \in Seq(Byte)
    BY <1>1, <2>1
  <2>3. 0 \in T
    OBVIOUS
  <2>4. ASSUME NEW m \in 1..n, m - 1 \in T
        PROVE  m \in T
    <3>1. W[m] = W[m - 1] \o pieces[m] /\ W[m - 1] \in Seq(Byte) /\ pieces[m] \in Seq(Byte)
      <4>1. m - 1 \in 0..n
        OBVIOUS
      <4> QED BY <1>1, <4>1 DEF Pieces
    <3>2. CASE m < k
      BY <3>2
    <3>3. CASE m = k
      <4> DEFINE x == W[m - 1]
                 y == pieces[m]
      <4>1. x \in Seq(Byte) /\ y \in Seq(Byte) /\ a = Len(x) /\ W[m] = x \o y
        BY <3>1, <3>3
      <4> HIDE DEF x, y, a
      <4>2. At(W[m], a, y)
        BY <4>1 DEF At
      <4> QED BY <3>3, <4>2 DEF y
    <3>4. CASE m > k
      <4> DEFINE x == W[m - 1]
                 y == pieces[m]
                 z == pieces[k]
      <4>1. At(x, a, z)
        BY <2>4, <3>4
      <4>2. x \in Seq(Byte) /\ y \in Seq(Byte) /\ z \in Seq(Byte) /\ W[m] = x \o y
        BY <2>2, <3>1
      <4> HIDE DEF x, y, z, a
      <4>3. At(W[m], a, z)
        BY <2>2, <4>1, <4>2 DEF At
      <4> QED BY <4>3 DEF z
    <3> QED BY <3>2, <3>3, <3>4
  <2>5. n \in T
    <3> HIDE DEF T
    <3> QED BY <2>3, <2>4, Rounds
  <2> QED BY <2>5
<1> QED BY <1>2

LEMMA FlattenIs ==
  ASSUME NEW n \in Nat, NEW pieces, pieces = [k \in 1..n |-> pieces[k]],
         \A k \in 1..n : pieces[k] \in Seq(Byte)
  PROVE  \E W : Pieces(W, pieces, n) /\ FlattenSeq(pieces) = W[n]
<1> DEFINE Then(s, k) == s \o pieces[k]
           step == [k \in 1..n |-> [s \in Seq(Byte) |-> Then(s, k)]]
           IsRun(f) == f = [k \in 1..Len(pieces) |-> IF k = 1 THEN pieces[k] ELSE f[k - 1] \o pieces[k]]
           run == CHOOSE f : IsRun(f)
<1>0. Len(pieces) = n /\ DOMAIN pieces = 1..n /\ (n = 0 => pieces = <<>>)
  OBVIOUS
<1>1. \A k \in 1..n : \A s \in Seq(Byte) : Then(s, k) \in Seq(Byte)
  OBVIOUS
<1> HIDE DEF Then
<1>2. \A k \in 1..n : \A s \in Seq(Byte) : step[k][s] = Then(s, k)
  OBVIOUS
<1> HIDE DEF step
<1>3. <<>> \in Seq(Byte)
  OBVIOUS
<1>4. PICK W : Runs(W, n, Seq(Byte), <<>>, step)
  BY <1>1, <1>2, <1>3, LoopExists
<1>5. Pieces(W, pieces, n)
  <2>1. W \in [0..n -> Seq(Byte)] /\ W[0] = <<>>
    BY <1>4 DEF Runs
  <2>2. ASSUME NEW k \in 1..n
        PROVE  W[k] = W[k - 1] \o pieces[k]
    <3>1. W[k] = step[k][W[k - 1]]
      BY <1>4 DEF Runs
    <3>2. k - 1 \in 0..n
      OBVIOUS
    <3>3. W[k - 1] \in Seq(Byte)
      BY <2>1, <3>2
    <3> QED BY <1>2, <3>1, <3>3 DEF Then
  <2> QED BY <2>1, <2>2 DEF Pieces
<1>6. CASE n = 0
  <2>1. FlattenSeq(pieces) = <<>>
    BY <1>0, <1>6 DEF FlattenSeq
  <2> QED BY <1>5, <1>6, <2>1 DEF Pieces
<1>7. CASE n # 0
  <2> DEFINE f == [k \in 1..n |-> W[k]]
  <2>1. \A k \in 1..n : k # 1 => k - 1 \in 1..n
    OBVIOUS
  <2>2. W[1] = pieces[1]
    <3>1. 1 \in 1..n /\ 1 - 1 = 0
      BY <1>7
    <3>2. W[1] = <<>> \o pieces[1] /\ pieces[1] \in Seq(Byte)
      BY <1>5, <3>1 DEF Pieces
    <3> QED BY <3>2
  <2>3. \A k \in 1..n : f[k] = IF k = 1 THEN pieces[k] ELSE f[k - 1] \o pieces[k]
    BY <1>5, <2>1, <2>2 DEF Pieces
  <2>4. f = [k \in 1..n |-> f[k]]
    OBVIOUS
  <2> HIDE DEF f
  <2>5. IsRun(f)
    BY <1>0, <2>3, <2>4
  <2>6. IsRun(run)
    <3> HIDE DEF IsRun
    <3> QED BY <2>5
  <2>7. FlattenSeq(pieces) = run[n]
    BY <1>0, <1>7 DEF FlattenSeq
  <2> HIDE DEF run
  <2>8. \A k \in 1..n : run[k] = IF k = 1 THEN pieces[k] ELSE run[k - 1] \o pieces[k]
    BY <1>0, <2>6
  <2> DEFINE T == {k \in 0..n : k = 0 \/ run[k] = W[k]}
  <2>9. 0 \in T
    OBVIOUS
  <2>10. ASSUME NEW k \in 1..n, k - 1 \in T
         PROVE  k \in T
    <3>1. CASE k = 1
      BY <2>2, <2>8, <3>1
    <3>2. CASE k # 1
      <4>1. run[k - 1] = W[k - 1]
        BY <2>10, <3>2
      <4>2. run[k] = run[k - 1] \o pieces[k]
        BY <2>8, <3>2
      <4>3. W[k] = W[k - 1] \o pieces[k]
        BY <1>5 DEF Pieces
      <4>4. run[k] = W[k]
        BY <4>1, <4>2, <4>3
      <4> QED BY <4>4
    <3> QED BY <3>1, <3>2
  <2>11. n \in T
    <3> HIDE DEF T
    <3> QED BY <2>9, <2>10, Rounds
  <2> QED BY <1>5, <1>7, <2>7, <2>11
<1> QED BY <1>6, <1>7

-----------------------------------------------------------------------------
(***************************************************************************)
(* Fields.                                                                 *)
(***************************************************************************)

Kinds == {"bool", "u8", "u32", "i32", "u64", "text"}

\* A value that a field of this kind can hold.
Holds(kind, v) ==
  IF kind = "data" THEN v \in Seq(Byte) /\ Fits(Len(v), 4) ELSE kind \in Kinds /\ IsSample(kind, v)

LEMMA Widths ==
  /\ Width["bool"] = 1 /\ Width["u8"] = 1 /\ Width["u32"] = 4 /\ Width["i32"] = 4 /\ Width["u64"] = 8
BY DEF Width

LEMMA TextFits ==
  ASSUME NEW v, IsSample("text", v)
  PROVE  /\ v \in Seq(1..ByteValues-1) /\ v \in Seq(Byte) /\ Len(v) \in Nat
         /\ Fits(Len(v), 4) /\ Fits(16 * (Len(v) + 64), 4)
<1>1. v \in Seq(1..ByteValues-1) /\ Fits(16 * (Len(v) + 64), 4)
  BY DEF IsSample
<1>2. Len(v) \in Nat /\ Len(v) <= 16 * (Len(v) + 64)
  BY <1>1
<1>3. Fits(Len(v), 4)
  <2> DEFINE n == Len(v)
  <2> HIDE DEF n
  <2>1. Fits(n, 4)
    BY <1>1, <1>2, SmallerFits DEF n
  <2> QED BY <2>1 DEF n
<1>4. v \in Seq(Byte)
  BY <1>1, ByteFacts DEF Byte
<1> QED BY <1>1, <1>2, <1>3, <1>4

\* Texts and data: a length, and what it is the length of.
LEMMA LengthAndRest ==
  ASSUME NEW v \in Seq(Byte), Fits(Len(v), 4)
  PROVE  /\ WriteText(v) \in Seq(Byte) /\ Len(WriteText(v)) = 4 + Len(v)
         /\ \A bytes \in Seq(Byte), a \in Nat : At(bytes, a, WriteText(v)) =>
              /\ FromBigEndian(SubSeq(bytes, a + 1, a + 4)) = Len(v)
              /\ SubSeq(bytes, a + 5, a + 4 + Len(v)) = v
<1> DEFINE head == BigEndian(Len(v), 4)
<1>0. Len(v) \in Nat /\ Len(v) \in Int
  OBVIOUS
<1>1. head \in Seq(Byte) /\ Len(head) = 4 /\ FromBigEndian(head) = Len(v) /\ Len(v) \in Nat
  <2> DEFINE n == Len(v)
  <2>1. n \in Int /\ Fits(n, 4)
    BY <1>0
  <2> HIDE DEF n
  <2>2. BigEndian(n, 4) \in Seq(Byte) /\ Len(BigEndian(n, 4)) = 4
    BY <2>1, BigEndianBytes
  <2>3. FromBigEndian(BigEndian(n, 4)) = n
    BY <2>1, NumberReadsBack
  <2> QED BY <1>0, <2>2, <2>3 DEF n
<1>2. WriteText(v) = head \o v
  BY DEF WriteText
<1> HIDE DEF head
<1>3. WriteText(v) \in Seq(Byte) /\ Len(WriteText(v)) = 4 + Len(v)
  <2>1. head \o v \in Seq(Byte) /\ Len(head \o v) = Len(head) + Len(v)
    BY <1>1, Joined, Zenon
  <2> QED BY <1>1, <1>2, <2>1
<1>4. ASSUME NEW bytes \in Seq(Byte), NEW a \in Nat, At(bytes, a, WriteText(v))
      PROVE  /\ FromBigEndian(SubSeq(bytes, a + 1, a + 4)) = Len(v)
             /\ SubSeq(bytes, a + 5, a + 4 + Len(v)) = v
  <2>1. At(bytes, a, head) /\ At(bytes, a + 4, v)
    BY <1>1, <1>2, <1>4, AtParts
  <2>2. SubSeq(bytes, a + 1, a + 4) = head
    BY <1>1, <2>1, AtSub
  <2>3. SubSeq(bytes, (a + 4) + 1, (a + 4) + Len(v)) = v
    BY <2>1, AtSub
  <2>4. (a + 4) + 1 = a + 5 /\ (a + 4) + Len(v) = a + 4 + Len(v)
    BY <1>1
  <2> QED BY <1>1, <2>2, <2>3, <2>4
<1> QED BY <1>3, <1>4

LEMMA Numbers ==
  ASSUME NEW kind \in {"u8", "u32", "i32", "u64"}, NEW v, IsSample(kind, v)
  PROVE  /\ v \in Int /\ Width[kind] \in Nat /\ WriteField(kind, v) = BigEndian(v, Width[kind])
         /\ kind = "i32" => FromTwosComplement(BigEndian(v, Width[kind])) = v
         /\ kind # "i32" => FromBigEndian(BigEndian(v, Width[kind])) = v
<1>1. CASE kind = "i32"
  <2>1. v \in Int /\ Shifted(Magnitude(v), 3) < ByteValues \div 2
    BY <1>1 DEF IsSample
  <2>2. FromTwosComplement(BigEndian(v, 4)) = v
    BY <2>1, SignedReadsBack
  <2> QED BY <1>1, <2>1, <2>2, Widths DEF WriteField
<1>2. CASE kind # "i32"
  <2>1. Fits(v, Width[kind])
    BY <1>2 DEF IsSample
  <2>2. Width[kind] \in Nat \ {0}
    BY <1>2, Widths
  <2>3. v \in Nat
    BY <2>1 DEF Fits
  <2> QED BY <1>2, <2>1, <2>2, <2>3, NumberReadsBack DEF WriteField
<1> QED BY <1>1, <1>2

LEMMA WrittenField ==
  ASSUME NEW kind, NEW v, Holds(kind, v)
  PROVE  /\ WriteField(kind, v) \in Seq(Byte) /\ Len(WriteField(kind, v)) = SizeOf(kind, v)
         /\ SizeOf(kind, v) \in Nat
<1>1. CASE kind \in {"text", "data"}
  <2>1. v \in Seq(Byte) /\ Fits(Len(v), 4)
    BY <1>1, TextFits DEF Holds
  <2> QED BY <1>1, <2>1, LengthAndRest DEF WriteField, SizeOf
<1>2. CASE kind = "bool"
  <2>1. v \in BOOLEAN
    BY <1>2 DEF Holds, IsSample
  <2>2. WriteField(kind, v) = <<IF v THEN 1 ELSE 0>>
    BY <1>2 DEF WriteField
  <2>3. (IF v THEN 1 ELSE 0) \in Byte
    BY ByteFacts DEF Byte
  <2> DEFINE b == IF v THEN 1 ELSE 0
  <2> HIDE DEF b
  <2>4. WriteField(kind, v) = <<b>> /\ b \in Byte
    BY <2>2, <2>3 DEF b
  <2>5. <<b>> \in Seq(Byte) /\ Len(<<b>>) = 1
    BY <2>4
  <2>6. SizeOf(kind, v) = 1
    BY <1>2, Widths DEF SizeOf
  <2> QED BY <2>4, <2>5, <2>6
<1>3. CASE kind \in {"u8", "u32", "i32", "u64"}
  <2>1. v \in Int /\ Width[kind] \in Nat /\ WriteField(kind, v) = BigEndian(v, Width[kind])
    BY <1>3, Numbers DEF Holds
  <2> QED BY <1>3, <2>1, BigEndianBytes DEF SizeOf
<1> QED BY <1>1, <1>2, <1>3 DEF Holds, Kinds

LEMMA TextReadsBack ==
  ASSUME NEW v, IsSample("text", v), NEW bytes \in Seq(Byte), NEW a \in Nat, At(bytes, a, WriteText(v))
  PROVE  ReadText(bytes, a).value = v /\ ReadText(bytes, a).next = a + 4 + Len(v)
<1>1. v \in Seq(1..ByteValues-1) /\ v \in Seq(Byte) /\ Fits(Len(v), 4)
  BY TextFits
<1>2. FromBigEndian(SubSeq(bytes, a + 1, a + 4)) = Len(v) /\ SubSeq(bytes, a + 5, a + 4 + Len(v)) = v
  BY <1>1, LengthAndRest
<1>3. SelectInSeq(v, LAMBDA c : c = 0) = 0
  <2>1. ASSUME NEW i \in 1..Len(v)
        PROVE  v[i] # 0
    <3>1. v[i] \in 1..ByteValues-1
      BY <1>1, Elements, Zenon
    <3> QED BY <3>1, ByteFacts
  <2> QED BY <2>1 DEF SelectInSeq
<1> QED BY <1>2, <1>3 DEF ReadText

LEMMA FieldReadsBack ==
  ASSUME NEW kind, NEW v, Holds(kind, v),
         NEW bytes \in Seq(Byte), NEW a \in Nat, At(bytes, a, WriteField(kind, v))
  PROVE  ReadField(kind, bytes, a).value = v /\ ReadField(kind, bytes, a).next = a + SizeOf(kind, v)
<1> DEFINE digits == SubSeq(bytes, a + 1, a + Width[kind])
<1>1. CASE kind = "text"
  <2>1. IsSample("text", v) /\ At(bytes, a, WriteText(v))
    BY <1>1 DEF Holds, WriteField
  <2>2. v \in Seq(Byte)
    BY <2>1, TextFits
  <2>3. a + 4 + Len(v) = a + (4 + Len(v))
    BY <2>2
  <2> QED BY <1>1, <2>1, <2>3, TextReadsBack DEF ReadField, SizeOf
<1>2. CASE kind = "data"
  <2>1. v \in Seq(Byte) /\ Fits(Len(v), 4) /\ At(bytes, a, WriteText(v))
    BY <1>2 DEF Holds, WriteField
  <2>2. FromBigEndian(SubSeq(bytes, a + 1, a + 4)) = Len(v) /\ SubSeq(bytes, a + 5, a + 4 + Len(v)) = v
    BY <2>1, LengthAndRest
  <2>3. a + 4 + Len(v) = a + (4 + Len(v))
    BY <2>1
  <2> QED BY <1>2, <2>2, <2>3 DEF ReadField, SizeOf
<1>3. CASE kind = "bool"
  <2>1. v \in BOOLEAN /\ WriteField(kind, v) = <<IF v THEN 1 ELSE 0>>
    BY <1>3 DEF Holds, IsSample, WriteField
  <2> DEFINE b == IF v THEN 1 ELSE 0
  <2>2. b \in Byte /\ (v = (b # 0))
    BY <2>1, ByteFacts DEF Byte
  <2>3. WriteField(kind, v) = <<b>>
    BY <2>1
  <2> HIDE DEF b
  <2>4. <<b>> \in Seq(Byte) /\ Len(<<b>>) = 1
    BY <2>2
  <2>5. SubSeq(bytes, a + 1, a + 1) = <<b>>
    BY <2>3, <2>4, AtSub
  <2>6. digits[1] = b
    <3>1. digits = <<b>>
      BY <1>3, <2>5, Widths
    <3> HIDE DEF digits
    <3> QED BY <3>1
  <2>7. ReadField(kind, bytes, a).value = (digits[1] # 0) /\ ReadField(kind, bytes, a).next = a + Width[kind]
    BY <1>3 DEF ReadField
  <2> QED BY <1>3, <2>2, <2>6, <2>7 DEF SizeOf
<1>4. CASE kind \in {"u8", "u32", "i32", "u64"}
  <2> DEFINE s == BigEndian(v, Width[kind])
  <2>1. /\ v \in Int /\ Width[kind] \in Nat /\ WriteField(kind, v) = s
        /\ kind = "i32" => FromTwosComplement(s) = v
        /\ kind # "i32" => FromBigEndian(s) = v
    BY <1>4, Numbers DEF Holds
  <2>2. s \in Seq(Byte) /\ Len(s) = Width[kind]
    BY <2>1, BigEndianBytes
  <2> HIDE DEF s
  <2>3. digits = s
    <3>1. SubSeq(bytes, a + 1, a + Len(s)) = s
      BY <2>1, <2>2, AtSub
    <3> QED BY <2>2, <3>1
  <2>4. /\ kind = "i32" => ReadField(kind, bytes, a).value = FromTwosComplement(digits)
        /\ kind # "i32" => ReadField(kind, bytes, a).value = FromBigEndian(digits)
        /\ ReadField(kind, bytes, a).next = a + Width[kind]
    BY <1>4 DEF ReadField
  <2> QED BY <1>4, <2>1, <2>3, <2>4 DEF SizeOf
<1> QED BY <1>1, <1>2, <1>3, <1>4 DEF Holds, Kinds

-----------------------------------------------------------------------------
(***************************************************************************)
(* Lists of fields.                                                        *)
(***************************************************************************)

FieldList(fs) ==
  /\ Len(fs) \in Nat /\ DOMAIN fs = 1..Len(fs)
  /\ \A i, j \in 1..Len(fs) : fs[i].name = fs[j].name => i = j

AllHold(fs, values) == \A i \in 1..Len(fs) : Holds(fs[i].kind, values[fs[i].name])

LEMMA Names ==
  ASSUME NEW fs, FieldList(fs)
  PROVE  /\ \A i \in 1..Len(fs) : fs[i].name \in NamesOf(fs) /\ IndexOf(fs, fs[i].name) = i
         /\ \A name \in NamesOf(fs) : IndexOf(fs, name) \in 1..Len(fs) /\ fs[IndexOf(fs, name)].name = name
<1>1. ASSUME NEW i \in 1..Len(fs)
      PROVE  fs[i].name \in NamesOf(fs) /\ IndexOf(fs, fs[i].name) = i
  BY DEF FieldList, NamesOf, IndexOf
<1>2. ASSUME NEW name \in NamesOf(fs)
      PROVE  IndexOf(fs, name) \in 1..Len(fs) /\ fs[IndexOf(fs, name)].name = name
  BY DEF FieldList, NamesOf, IndexOf
<1> QED BY <1>1, <1>2

LEMMA WrittenIs ==
  ASSUME NEW fs, NEW values, FieldList(fs), AllHold(fs, values)
  PROVE  \E W : /\ W \in [0..Len(fs) -> Seq(Byte)] /\ W[0] = <<>> /\ WriteFields(fs, values) = W[Len(fs)]
                /\ \A k \in 1..Len(fs) :
                     /\ At(W[Len(fs)], Len(W[k - 1]), WriteField(fs[k].kind, values[fs[k].name]))
                     /\ Len(W[k]) = Len(W[k - 1]) + SizeOf(fs[k].kind, values[fs[k].name])
<1> DEFINE n == Len(fs)
           piece(k) == WriteField(fs[k].kind, values[fs[k].name])
           pieces == [k \in 1..n |-> piece(k)]
<1>1. n \in Nat
  BY DEF FieldList
<1>2. \A k \in 1..n : /\ piece(k) \in Seq(Byte)
                      /\ Len(piece(k)) = SizeOf(fs[k].kind, values[fs[k].name])
  BY WrittenField DEF AllHold
<1>3. WriteFields(fs, values) = FlattenSeq(pieces)
  BY DEF WriteFields
<1>4. (\A k \in 1..n : pieces[k] = piece(k)) /\ pieces = [k \in 1..n |-> pieces[k]]
  OBVIOUS
<1> HIDE DEF pieces, piece, n
<1>5. \A k \in 1..n : pieces[k] \in Seq(Byte)
  BY <1>2, <1>4
<1>6. PICK W : Pieces(W, pieces, n) /\ FlattenSeq(pieces) = W[n]
  BY <1>1, <1>4, <1>5, FlattenIs
<1>7. \A k \in 1..n : At(W[n], Len(W[k - 1]), pieces[k])
  BY <1>1, <1>5, <1>6, PiecesAreThere
<1>8. ASSUME NEW k \in 1..n
      PROVE  /\ At(W[n], Len(W[k - 1]), WriteField(fs[k].kind, values[fs[k].name]))
             /\ Len(W[k]) = Len(W[k - 1]) + SizeOf(fs[k].kind, values[fs[k].name])
  <2>1. k - 1 \in 0..n
    BY <1>1
  <2>2. W[k - 1] \in Seq(Byte) /\ W[k] = W[k - 1] \o pieces[k]
    BY <1>6, <2>1 DEF Pieces
  <2>3. Len(W[k]) = Len(W[k - 1]) + Len(pieces[k])
    BY <1>5, <2>2, Joined
  <2> QED BY <1>2, <1>4, <1>7, <2>3 DEF piece
<1> QED BY <1>3, <1>6, <1>8 DEF Pieces, n

\* What is read is what was written.
LEMMA RoundTrip ==
  ASSUME NEW fs, NEW values, FieldList(fs), AllHold(fs, values),
         values = [name \in NamesOf(fs) |-> values[name]]
  PROVE  WriteFields(fs, values) \in Seq(Byte) /\ ReadFields(fs, WriteFields(fs, values)) = values
<1> DEFINE n == Len(fs)
           v(k) == values[fs[k].name]
           bytes == WriteFields(fs, values)
           IsRun(f) == f = [k \in 0..n |-> IF k = 0 THEN 0 ELSE ReadField(fs[k].kind, bytes, f[k - 1]).next]
           end == CHOOSE f : IsRun(f)
           value(k) == ReadField(fs[k].kind, bytes, end[k - 1]).value
<1>0. n \in Nat
  BY DEF FieldList
<1>1. PICK W : /\ W \in [0..n -> Seq(Byte)] /\ W[0] = <<>> /\ bytes = W[n]
               /\ \A k \in 1..n :
                    /\ At(W[n], Len(W[k - 1]), WriteField(fs[k].kind, v(k)))
                    /\ Len(W[k]) = Len(W[k - 1]) + SizeOf(fs[k].kind, v(k))
  BY WrittenIs
<1>2. ReadFields(fs, bytes) = [name \in NamesOf(fs) |-> value(IndexOf(fs, name))]
  BY DEF ReadFields
<1>3. bytes \in Seq(Byte) /\ \A k \in 0..n : W[k] \in Seq(Byte) /\ Len(W[k]) \in Nat
  BY <1>0, <1>1
<1>4. \A k \in 1..n : Holds(fs[k].kind, v(k))
  BY DEF AllHold
<1> HIDE DEF bytes, n, v
<1>5. ASSUME NEW k \in 1..n
      PROVE  /\ ReadField(fs[k].kind, bytes, Len(W[k - 1])).value = v(k)
             /\ ReadField(fs[k].kind, bytes, Len(W[k - 1])).next = Len(W[k])
  <2>1. k - 1 \in 0..n
    BY <1>0
  <2>2. Len(W[k - 1]) \in Nat
    BY <1>3, <2>1
  <2>3. At(bytes, Len(W[k - 1]), WriteField(fs[k].kind, v(k)))
    BY <1>1
  <2>4. /\ ReadField(fs[k].kind, bytes, Len(W[k - 1])).value = v(k)
        /\ ReadField(fs[k].kind, bytes, Len(W[k - 1])).next = Len(W[k - 1]) + SizeOf(fs[k].kind, v(k))
    BY <1>3, <1>4, <2>2, <2>3, FieldReadsBack
  <2> QED BY <1>1, <2>4
<1>6. IsRun(end)
  <2> DEFINE f == [k \in 0..n |-> Len(W[k])]
             next(k, a) == ReadField(fs[k].kind, bytes, a).next
  <2>1. \A k \in 1..n : next(k, Len(W[k - 1])) = Len(W[k])
    BY <1>5
  <2> HIDE DEF next
  <2>2. \A k \in 0..n : f[k] = Len(W[k])
    OBVIOUS
  <2>3. f = [k \in 0..n |-> f[k]]
    OBVIOUS
  <2> HIDE DEF f
  <2>4. ASSUME NEW k \in 0..n
        PROVE  f[k] = IF k = 0 THEN 0 ELSE next(k, f[k - 1])
    <3>1. CASE k = 0
      BY <1>1, <2>2, <3>1
    <3>2. CASE k # 0
      <4>1. k \in 1..n /\ k - 1 \in 0..n
        BY <1>0, <3>2
      <4>2. f[k - 1] = Len(W[k - 1])
        BY <2>2, <4>1
      <4> QED BY <2>1, <2>2, <3>2, <4>1, <4>2
    <3> QED BY <3>1, <3>2
  <2>5. f = [k \in 0..n |-> IF k = 0 THEN 0 ELSE next(k, f[k - 1])]
    BY <2>3, <2>4
  <2>6. IsRun(f)
    BY <2>5 DEF next
  <2> HIDE DEF IsRun
  <2> QED BY <2>6
<1> HIDE DEF end
<1>7. \A k \in 0..n : end[k] = Len(W[k])
  <2> DEFINE T == {k \in 0..n : end[k] = Len(W[k])}
  <2>1. \A k \in 0..n : end[k] = IF k = 0 THEN 0 ELSE ReadField(fs[k].kind, bytes, end[k - 1]).next
    BY <1>6, Zenon
  <2>2. 0 \in T
    BY <1>0, <1>1, <2>1
  <2>3. \A k \in 1..n : k - 1 \in T => k \in T
    <3>1. ASSUME NEW k \in 1..n, k - 1 \in T
          PROVE  k \in T
      <4>1. end[k - 1] = Len(W[k - 1]) /\ k \in 0..n /\ k # 0
        BY <1>0, <3>1
      <4>2. end[k] = Len(W[k])
        BY <1>5, <2>1, <4>1
      <4> QED BY <4>1, <4>2
    <3> QED BY <3>1
  <2>4. ASSUME NEW m \in 0..n
        PROVE  m \in T
    <3>1. m \in Nat /\ \A k \in 1..m : k \in 1..n
      BY <1>0
    <3> HIDE DEF T
    <3> QED BY <2>2, <2>3, <3>1, Rounds
  <2> QED BY <2>4
<1>8. ASSUME NEW k \in 1..n
      PROVE  value(k) = v(k)
  <2>1. k - 1 \in 0..n
    BY <1>0
  <2>2. end[k - 1] = Len(W[k - 1])
    BY <1>7, <2>1
  <2> QED BY <1>5, <2>2
<1> HIDE DEF value
<1>9. ASSUME NEW name \in NamesOf(fs)
      PROVE  value(IndexOf(fs, name)) = values[name]
  <2>1. IndexOf(fs, name) \in 1..n /\ fs[IndexOf(fs, name)].name = name
    BY Names DEF n
  <2> QED BY <1>8, <2>1 DEF v
<1>10. [name \in NamesOf(fs) |-> value(IndexOf(fs, name))] = [name \in NamesOf(fs) |-> values[name]]
  BY <1>9
<1>11. ReadFields(fs, bytes) = values
  BY <1>2, <1>10, Zenon DEF value
<1> QED BY <1>3, <1>11 DEF bytes

-----------------------------------------------------------------------------
(***************************************************************************)
(* The packet classes.                                                     *)
(***************************************************************************)

IsField(f) == f.kind \in Kinds \cup {"data"} /\ (f.kind = "data" <=> f.name = "entityData")

Fields(fs) == FieldList(fs) /\ \A i \in 1..Len(fs) : IsField(fs[i])

\* A class reads and counts what it writes.
Consistent(class) ==
  /\ class.read = class.written /\ class.sized = class.written
  /\ Fields(class.written) /\ Len(class.written) <= 7 /\ class.number \in 0..14

LEMMA FIs == \A name, kind : F(name, kind).name = name /\ F(name, kind).kind = kind
BY DEF F

LEMMA ServerClientLoadWorldIsConsistent == Consistent(ServerClientLoadWorld) /\ ServerClientLoadWorld.number = 0
BY FIs DEF ServerClientLoadWorld, ServerClientLoadWorldOrder, Order, Class, Consistent, Fields, FieldList, IsField, Kinds

LEMMA ClientServerWorldLoadedIsConsistent == Consistent(ClientServerWorldLoaded) /\ ClientServerWorldLoaded.number = 1
BY FIs DEF ClientServerWorldLoaded, ClientServerWorldLoadedOrder, Order, Class, Consistent, Fields, FieldList, IsField, Kinds

LEMMA ServerClientEntityUpdateIsConsistent == Consistent(ServerClientEntityUpdate) /\ ServerClientEntityUpdate.number = 2
BY FIs DEF ServerClientEntityUpdate, ServerClientEntityUpdateOrder, Order, Class, Consistent, Fields, FieldList, IsField, Kinds

LEMMA ServerClientSetPlayerDetailsIsConsistent == Consistent(ServerClientSetPlayerDetails) /\ ServerClientSetPlayerDetails.number = 3
BY FIs DEF ServerClientSetPlayerDetails, ServerClientSetPlayerDetailsOrder, Order, Class, Consistent, Fields, FieldList, IsField, Kinds

LEMMA ClientServerTestUdpIsConsistent == Consistent(ClientServerTestUdp) /\ ClientServerTestUdp.number = 4
BY FIs DEF ClientServerTestUdp, ClientServerTestUdpOrder, Order, Class, Consistent, Fields, FieldList, IsField, Kinds

LEMMA ClientServerEntityUpdateIsConsistent == Consistent(ClientServerEntityUpdate) /\ ClientServerEntityUpdate.number = 5
BY FIs DEF ClientServerEntityUpdate, ClientServerEntityUpdateOrder, Order, Class, Consistent, Fields, FieldList, IsField, Kinds

LEMMA ServerClientPlayerJoinedWorldIsConsistent == Consistent(ServerClientPlayerJoinedWorld) /\ ServerClientPlayerJoinedWorld.number = 6
BY FIs DEF ServerClientPlayerJoinedWorld, ServerClientPlayerJoinedWorldOrder, Order, Class, Consistent, Fields, FieldList, IsField, Kinds

LEMMA ServerClientPlayerLeftWorldIsConsistent == Consistent(ServerClientPlayerLeftWorld) /\ ServerClientPlayerLeftWorld.number = 7
BY FIs DEF ServerClientPlayerLeftWorld, ServerClientPlayerLeftWorldOrder, Order, Class, Consistent, Fields, FieldList, IsField, Kinds

LEMMA ServerClientRemoveEntityFromWorldIsConsistent == Consistent(ServerClientRemoveEntityFromWorld) /\ ServerClientRemoveEntityFromWorld.number = 8
BY FIs DEF ServerClientRemoveEntityFromWorld, ServerClientRemoveEntityFromWorldOrder, Order, Class, Consistent, Fields, FieldList, IsField, Kinds

LEMMA ServerClientCharacterSetDetailsIsConsistent == Consistent(ServerClientCharacterSetDetails) /\ ServerClientCharacterSetDetails.number = 9
BY FIs DEF ServerClientCharacterSetDetails, ServerClientCharacterSetDetailsOrder, Order, Class, Consistent, Fields, FieldList, IsField, Kinds

LEMMA ClientServerPlayerAuthenticateIsConsistent == Consistent(ClientServerPlayerAuthenticate) /\ ClientServerPlayerAuthenticate.number = 10
BY FIs DEF ClientServerPlayerAuthenticate, ClientServerPlayerAuthenticateOrder, Order, Class, Consistent, Fields, FieldList, IsField, Kinds

LEMMA ClientServerRequestHashedPasswordIsConsistent == Consistent(ClientServerRequestHashedPassword) /\ ClientServerRequestHashedPassword.number = 11
BY FIs DEF ClientServerRequestHashedPassword, ClientServerRequestHashedPasswordOrder, Order, Class, Consistent, Fields, FieldList, IsField, Kinds

LEMMA ServerClientSendHashedPasswordIsConsistent == Consistent(ServerClientSendHashedPassword) /\ ServerClientSendHashedPassword.number = 12
BY FIs DEF ServerClientSendHashedPassword, ServerClientSendHashedPasswordOrder, Order, Class, Consistent, Fields, FieldList, IsField, Kinds

LEMMA ClientServerChatboxMessageIsConsistent == Consistent(ClientServerChatboxMessage) /\ ClientServerChatboxMessage.number = 13
BY FIs DEF ClientServerChatboxMessage, ClientServerChatboxMessageOrder, Order, Class, Consistent, Fields, FieldList, IsField, Kinds

LEMMA ServerClientChatboxMessageIsConsistent == Consistent(ServerClientChatboxMessage) /\ ServerClientChatboxMessage.number = 14
BY FIs DEF ServerClientChatboxMessage, ServerClientChatboxMessageOrder, Order, Class, Consistent, Fields, FieldList, IsField, Kinds

LEMMA ServerDataFields ==
  /\ ServerDataRead = ServerDataWritten /\ Fields(ServerDataWritten) /\ Len(ServerDataWritten) <= 9
  /\ \A i \in 1..Len(ServerDataWritten) : ServerDataWritten[i].kind \in Kinds
BY FIs DEF ServerDataRead, ServerDataWritten, Fields, FieldList, IsField, Kinds

LEMMA ClientDataFields ==
  /\ ClientDataRead = ClientDataWritten /\ Fields(ClientDataWritten) /\ Len(ClientDataWritten) <= 9
  /\ \A i \in 1..Len(ClientDataWritten) : ClientDataWritten[i].kind \in Kinds
BY FIs DEF ClientDataRead, ClientDataWritten, Fields, FieldList, IsField, Kinds

LEMMA ClassFacts ==
  ASSUME NEW class \in Classes
  PROVE  Consistent(class) /\ CreatePacket(class.number) = class
<1> DEFINE N(c) == c.number
<1>1. Consistent(class)
  BY ServerClientLoadWorldIsConsistent, ClientServerWorldLoadedIsConsistent,
     ServerClientEntityUpdateIsConsistent, ServerClientSetPlayerDetailsIsConsistent,
     ClientServerTestUdpIsConsistent, ClientServerEntityUpdateIsConsistent,
     ServerClientPlayerJoinedWorldIsConsistent, ServerClientPlayerLeftWorldIsConsistent,
     ServerClientRemoveEntityFromWorldIsConsistent, ServerClientCharacterSetDetailsIsConsistent,
     ClientServerPlayerAuthenticateIsConsistent, ClientServerRequestHashedPasswordIsConsistent,
     ServerClientSendHashedPasswordIsConsistent, ClientServerChatboxMessageIsConsistent,
     ServerClientChatboxMessageIsConsistent DEF Classes
<1>2. ASSUME NEW c \in Classes, c.number = class.number
      PROVE  c = class
  BY <1>2, ServerClientLoadWorldIsConsistent, ClientServerWorldLoadedIsConsistent,
     ServerClientEntityUpdateIsConsistent, ServerClientSetPlayerDetailsIsConsistent,
     ClientServerTestUdpIsConsistent, ClientServerEntityUpdateIsConsistent,
     ServerClientPlayerJoinedWorldIsConsistent, ServerClientPlayerLeftWorldIsConsistent,
     ServerClientRemoveEntityFromWorldIsConsistent, ServerClientCharacterSetDetailsIsConsistent,
     ClientServerPlayerAuthenticateIsConsistent, ClientServerRequestHashedPasswordIsConsistent,
     ServerClientSendHashedPasswordIsConsistent, ClientServerChatboxMessageIsConsistent,
     ServerClientChatboxMessageIsConsistent DEF Classes
<1> QED BY <1>1, <1>2 DEF CreatePacket

-----------------------------------------------------------------------------
(***************************************************************************)
(* The packets explored fit.                                               *)
(***************************************************************************)

\* No sample is longer than this many bytes.
Room(U) ==
  /\ U \in Nat /\ U >= 8 /\ Fits(16 * U + 5, 4)
  /\ \A kind \in Kinds, i \in 1..3 :
       Holds(kind, Samples[kind][i]) /\ SizeOf(kind, Samples[kind][i]) <= U

LEMMA ThereIsRoom == \E U : Room(U)
<1>1. \A kind \in Kinds, i \in 1..3 : IsSample(kind, Samples[kind][i]) /\ Holds(kind, Samples[kind][i])
  BY PacketsAssumption DEF Kinds, Holds
<1> DEFINE L(i) == Len(Samples["text"][i])
<1>2. \A i \in 1..3 : L(i) \in Nat /\ Fits(16 * (L(i) + 64), 4)
  <2>1. \A i \in 1..3 : IsSample("text", Samples["text"][i])
    BY <1>1 DEF Kinds
  <2> QED BY <2>1, TextFits
<1>3. \A i \in 1..3 : SizeOf("text", Samples["text"][i]) = 4 + L(i)
  BY DEF SizeOf
<1> HIDE DEF L
<1>4. PICK m \in 1..3 : \A i \in 1..3 : L(i) <= L(m)
  <2>1. L(1) \in Nat /\ L(2) \in Nat /\ L(3) \in Nat
    BY <1>2
  <2>2. \A i \in 1..3 : i = 1 \/ i = 2 \/ i = 3
    OBVIOUS
  <2> QED BY <2>1, <2>2
<1> DEFINE U == L(m) + 8
<1>5. L(m) \in Nat /\ Fits(16 * (L(m) + 64), 4)
  BY <1>2
<1>6. U \in Nat /\ U >= 8 /\ Fits(16 * U + 5, 4)
  <2>1. 16 * U + 5 \in Nat /\ 16 * U + 5 <= 16 * (L(m) + 64) /\ U \in Nat /\ U >= 8
    BY <1>5
  <2> DEFINE x == 16 * U + 5
             y == 16 * (L(m) + 64)
  <2>2. x \in Nat /\ x <= y /\ Fits(y, 4)
    BY <1>5, <2>1
  <2> HIDE DEF x, y
  <2>3. Fits(x, 4)
    BY <2>2, SmallerFits
  <2> QED BY <2>1, <2>3 DEF x
<1>7. ASSUME NEW kind \in Kinds, NEW i \in 1..3
      PROVE  SizeOf(kind, Samples[kind][i]) <= U
  <2>1. CASE kind = "text"
    BY <1>2, <1>3, <1>4, <1>5, <2>1
  <2>2. CASE kind # "text"
    <3>1. SizeOf(kind, Samples[kind][i]) = Width[kind] /\ Width[kind] <= 8
      BY <2>2, Widths DEF Kinds, SizeOf
    <3>2. Width[kind] \in Nat
      BY <2>2, Widths DEF Kinds
    <3> QED BY <1>5, <3>1, <3>2
  <2> QED BY <2>1, <2>2
<1> HIDE DEF U
<1>8. Room(U)
  BY <1>1, <1>6, <1>7 DEF Room
<1> QED BY <1>8

\* No field but one is longer than U bytes, and that one by at most E.
LEMMA LengthIsBounded ==
  ASSUME NEW fs, NEW values, FieldList(fs), AllHold(fs, values),
         NEW U \in Nat, NEW E \in Nat, NEW d,
         \A k \in 1..Len(fs) : SizeOf(fs[k].kind, values[fs[k].name]) <= (IF k = d THEN U + E ELSE U)
  PROVE  Len(WriteFields(fs, values)) <= Len(fs) * U + E
<1> DEFINE n == Len(fs)
           size(k) == SizeOf(fs[k].kind, values[fs[k].name])
           extra(k) == IF d \in 1..k THEN E ELSE 0
<1>0. n \in Nat
  BY DEF FieldList
<1>1. PICK W : /\ W \in [0..n -> Seq(Byte)] /\ W[0] = <<>> /\ WriteFields(fs, values) = W[n]
               /\ \A k \in 1..n : Len(W[k]) = Len(W[k - 1]) + size(k)
  BY WrittenIs
<1>2. \A k \in 1..n : size(k) \in Nat /\ size(k) <= (IF k = d THEN U + E ELSE U)
  BY WrittenField DEF AllHold
<1> HIDE DEF n, size
<1> DEFINE T == {k \in 0..n : Len(W[k]) <= k * U + extra(k)}
<1>3. 0 \in T
  BY <1>0, <1>1
<1>4. ASSUME NEW k \in 1..n, k - 1 \in T
      PROVE  k \in T
  <2>1. k - 1 \in 0..n /\ k \in 0..n
    BY <1>0
  <2>2. Len(W[k - 1]) \in Nat
    BY <1>1, <2>1
  <2>3. k * U = (k - 1) * U + U /\ (k - 1) * U \in Nat /\ k * U \in Nat
    <3>1. k - 1 \in Nat /\ k \in Nat
      BY <1>0
    <3>2. (k - 1) * U \in Nat
      BY <3>1
    <3>3. k * U \in Nat
      BY <3>1
    <3>4. k * U = (k - 1) * U + U
      BY <3>1
    <3> QED BY <3>2, <3>3, <3>4
  <2> DEFINE x == (k - 1) * U
             y == k * U
             l == Len(W[k - 1])
  <2>4. l <= x + extra(k - 1)
    BY <1>4
  <2>5. extra(k - 1) + (IF k = d THEN E ELSE 0) <= extra(k) /\ extra(k) \in Nat /\ extra(k - 1) \in Nat
    BY <1>0
  <2>6. Len(W[k]) = l + size(k) /\ size(k) \in Nat /\ size(k) <= (IF k = d THEN U + E ELSE U)
    BY <1>1, <1>2
  <2>7. l \in Nat /\ x \in Nat /\ y \in Nat /\ y = x + U
    BY <2>2, <2>3
  <2> HIDE DEF l, x, extra
  <2>8. Len(W[k]) <= y + extra(k)
    <3> HIDE DEF y
    <3> QED BY <2>4, <2>5, <2>6, <2>7
  <2> QED BY <2>1, <2>8 DEF extra
<1>5. n \in T
  <2> HIDE DEF T
  <2> QED BY <1>0, <1>3, <1>4, Rounds
<1>6. Len(W[n]) <= n * U + extra(n) /\ extra(n) <= E /\ Len(W[n]) \in Nat /\ extra(n) \in Nat
  BY <1>0, <1>1, <1>5
<1>7. n * U \in Nat
  BY <1>0
<1> DEFINE y == n * U
<1>8. y \in Nat /\ Len(W[n]) <= y + extra(n)
  BY <1>6, <1>7
<1> HIDE DEF y, extra
<1>9. Len(W[n]) <= y + E
  BY <1>6, <1>8
<1> QED BY <1>1, <1>9 DEF y, n

LEMMA SampleIsOne ==
  ASSUME NEW fs, FieldList(fs), NEW c \in 0..2, NEW k \in 1..Len(fs)
  PROVE  \E i \in 1..3 : Sample(fs, c, fs[k].name) = Samples[fs[k].kind][i]
<1>1. IndexOf(fs, fs[k].name) = k
  BY Names
<1>2. ((c + k) % 3) + 1 \in 1..3
  BY DEF FieldList
<1> QED BY <1>1, <1>2 DEF Sample

\* The data of a character.
LEMMA PickedReadsBack ==
  ASSUME NEW U, Room(U), NEW fs, Fields(fs), Len(fs) <= 9,
         \A i \in 1..Len(fs) : fs[i].kind \in Kinds, NEW c \in 0..2
  PROVE  /\ WriteFields(fs, Pick(fs, c)) \in Seq(Byte) /\ Len(WriteFields(fs, Pick(fs, c))) <= 9 * U
         /\ ReadFields(fs, WriteFields(fs, Pick(fs, c))) = Pick(fs, c)
<1> DEFINE values == Pick(fs, c)
           n == Len(fs)
<1>1. FieldList(fs) /\ n \in Nat /\ n <= 9 /\ U \in Nat
  BY DEF Fields, FieldList, Room
<1>2. values = [name \in NamesOf(fs) |-> Sample(fs, c, name)]
  BY DEF Pick
<1>3. values = [name \in NamesOf(fs) |-> values[name]]
  BY <1>2
<1>4. ASSUME NEW k \in 1..n
      PROVE  Holds(fs[k].kind, values[fs[k].name]) /\ SizeOf(fs[k].kind, values[fs[k].name]) <= U
  <2>1. values[fs[k].name] = Sample(fs, c, fs[k].name)
    BY <1>1, <1>2, Names
  <2>2. PICK i \in 1..3 : Sample(fs, c, fs[k].name) = Samples[fs[k].kind][i]
    BY <1>1, SampleIsOne
  <2> QED BY <2>1, <2>2 DEF Room
<1> HIDE DEF values
<1>5. AllHold(fs, values)
  BY <1>4 DEF AllHold
<1>6. Len(WriteFields(fs, values)) <= n * U + 0
  <2>1. \A k \in 1..n : SizeOf(fs[k].kind, values[fs[k].name]) <= (IF k = 0 THEN U + 0 ELSE U)
    BY <1>4
  <2> QED BY <1>1, <1>5, <2>1, LengthIsBounded
<1>7. WriteFields(fs, values) \in Seq(Byte) /\ ReadFields(fs, WriteFields(fs, values)) = values
  BY <1>1, <1>3, <1>5, RoundTrip
<1>8. n * U <= 9 * U /\ n * U \in Nat
  <2>1. 9 - n \in Nat
    BY <1>1
  <2>2. (9 - n) * U \in Nat /\ n * U \in Nat
    <3> HIDE DEF n
    <3> QED BY <1>1, <2>1
  <2>3. 9 * U = (9 - n) * U + n * U
    BY <1>1
  <2> DEFINE x == (9 - n) * U
             y == n * U
             z == 9 * U
  <2>4. x \in Nat /\ y \in Nat /\ z = x + y
    BY <2>2, <2>3
  <2> HIDE DEF x, y, z
  <2>5. y <= z
    BY <2>4
  <2> QED BY <2>2, <2>5 DEF y, z
<1>9. Len(WriteFields(fs, values)) <= 9 * U
  <2> DEFINE l == Len(WriteFields(fs, values))
             y == n * U
             z == 9 * U
  <2>1. l \in Nat /\ l <= y + 0 /\ y \in Nat /\ y <= z /\ z \in Nat
    BY <1>1, <1>6, <1>7, <1>8
  <2> HIDE DEF l, y, z
  <2>2. l <= z
    BY <2>1
  <2> QED BY <2>2 DEF l, z
<1> QED BY <1>7, <1>9 DEF values

LEMMA EntityDataIs ==
  ASSUME NEW U, Room(U), NEW number, NEW c \in 0..2
  PROVE  /\ EntityData(number, c) \in Seq(Byte) /\ Len(EntityData(number, c)) <= 9 * U
         /\ number = 2 => ReadFields(ServerDataRead, EntityData(number, c)) = Pick(ServerDataWritten, c)
         /\ number # 2 => ReadFields(ClientDataRead, EntityData(number, c)) = Pick(ClientDataWritten, c)
<1>1. ServerClientEntityUpdate.number = 2
  BY ServerClientEntityUpdateIsConsistent
<1>2. /\ WriteFields(ServerDataWritten, Pick(ServerDataWritten, c)) \in Seq(Byte)
      /\ Len(WriteFields(ServerDataWritten, Pick(ServerDataWritten, c))) <= 9 * U
      /\ ReadFields(ServerDataRead, WriteFields(ServerDataWritten, Pick(ServerDataWritten, c))) = Pick(ServerDataWritten, c)
  BY ServerDataFields, PickedReadsBack
<1>3. /\ WriteFields(ClientDataWritten, Pick(ClientDataWritten, c)) \in Seq(Byte)
      /\ Len(WriteFields(ClientDataWritten, Pick(ClientDataWritten, c))) <= 9 * U
      /\ ReadFields(ClientDataRead, WriteFields(ClientDataWritten, Pick(ClientDataWritten, c))) = Pick(ClientDataWritten, c)
  BY ClientDataFields, PickedReadsBack
<1> QED BY <1>1, <1>2, <1>3 DEF EntityData

LEMMA PacketFields ==
  ASSUME NEW U, Room(U), NEW class \in Classes, NEW c \in 0..2
  PROVE  LET fs == class.written
             p  == PacketOf(class, c)
         IN  /\ p = [number |-> class.number, values |-> p.values]
             /\ p.values = [name \in NamesOf(fs) |-> p.values[name]]
             /\ AllHold(fs, p.values)
             /\ Len(WriteFields(fs, p.values)) <= 16 * U
             /\ "entityData" \in NamesOf(fs) => p.values["entityData"] = EntityData(class.number, c)
<1> DEFINE fs == class.written
           p == PacketOf(class, c)
           values == p.values
           n == Len(fs)
           data == EntityData(class.number, c)
<1>1. Consistent(class)
  BY ClassFacts
<1>2. FieldList(fs) /\ n \in Nat /\ n <= 7 /\ U \in Nat /\ U >= 8 /\ \A k \in 1..n : IsField(fs[k])
  BY <1>1 DEF Consistent, Fields, FieldList, Room
<1>3. /\ p = [number |-> class.number, values |-> p.values]
      /\ values = [name \in NamesOf(fs) |-> IF name = "entityData" THEN data ELSE Sample(fs, c, name)]
  BY DEF PacketOf
<1>4. values = [name \in NamesOf(fs) |-> values[name]]
  BY <1>3
<1>5. \A name \in NamesOf(fs) : values[name] = IF name = "entityData" THEN data ELSE Sample(fs, c, name)
  BY <1>3
<1>6. data \in Seq(Byte) /\ Len(data) <= 9 * U
  BY EntityDataIs
<1>7. Holds("data", data) /\ SizeOf("data", data) <= U + 9 * U
  <2>1. Len(data) \in Nat /\ Len(data) <= 16 * U + 5 /\ 16 * U + 5 \in Nat
    BY <1>2, <1>6
  <2>2. Fits(16 * U + 5, 4)
    BY DEF Room
  <2> DEFINE l == Len(data)
             x == 16 * U + 5
  <2>3. l \in Nat /\ l <= x /\ x \in Nat /\ Fits(x, 4)
    BY <2>1, <2>2
  <2> HIDE DEF l, x
  <2>4. Fits(l, 4)
    BY <2>3, SmallerFits
  <2>5. SizeOf("data", data) = 4 + Len(data)
    BY DEF SizeOf
  <2> QED BY <1>2, <1>6, <2>1, <2>4, <2>5 DEF l, Holds
<1>8. ASSUME NEW k \in 1..n
      PROVE  /\ Holds(fs[k].kind, values[fs[k].name])
             /\ SizeOf(fs[k].kind, values[fs[k].name]) <= IF fs[k].kind = "data" THEN U + 9 * U ELSE U
  <2>1. fs[k].name \in NamesOf(fs)
    BY <1>2, Names
  <2>2. CASE fs[k].kind = "data"
    <3>1. fs[k].name = "entityData"
      BY <1>2, <2>2 DEF IsField
    <3>2. values[fs[k].name] = data
      BY <1>5, <2>1, <3>1
    <3> QED BY <1>7, <2>2, <3>2
  <2>3. CASE fs[k].kind # "data"
    <3>1. fs[k].name # "entityData" /\ fs[k].kind \in Kinds
      BY <1>2, <2>3 DEF IsField
    <3>2. values[fs[k].name] = Sample(fs, c, fs[k].name)
      BY <1>5, <2>1, <3>1
    <3>3. PICK i \in 1..3 : Sample(fs, c, fs[k].name) = Samples[fs[k].kind][i]
      BY <1>2, SampleIsOne
    <3> QED BY <2>3, <3>1, <3>2, <3>3 DEF Room
  <2> QED BY <2>2, <2>3
<1> HIDE DEF values, data, p
<1>9. AllHold(fs, values)
  BY <1>8 DEF AllHold
<1>10. Len(WriteFields(fs, values)) <= n * U + 9 * U
  <2> DEFINE d == CHOOSE k \in 1..n : fs[k].kind = "data"
             E == 9 * U
  <2>1. \A k \in 1..n : fs[k].kind = "data" => k = d
    <3>1. \A k, j \in 1..n : fs[k].kind = "data" /\ fs[j].kind = "data" => k = j
      BY <1>2 DEF IsField, FieldList
    <3> QED BY <3>1
  <2>2. E \in Nat
    BY <1>2
  <2> HIDE DEF d, E
  <2>3. \A k \in 1..n : SizeOf(fs[k].kind, values[fs[k].name]) <= IF k = d THEN U + E ELSE U
    <3>1. ASSUME NEW k \in 1..n
          PROVE  SizeOf(fs[k].kind, values[fs[k].name]) <= IF k = d THEN U + E ELSE U
      <4> DEFINE s == SizeOf(fs[k].kind, values[fs[k].name])
      <4>1. s \in Nat
        BY <1>8, WrittenField
      <4>2. s <= IF fs[k].kind = "data" THEN U + E ELSE U
        BY <1>8 DEF E
      <4> HIDE DEF s
      <4>3. s <= IF k = d THEN U + E ELSE U
        BY <1>2, <2>1, <2>2, <4>1, <4>2
      <4> QED BY <4>3 DEF s
    <3> QED BY <3>1
  <2>4. Len(WriteFields(fs, values)) <= n * U + E
    BY <1>2, <1>9, <2>2, <2>3, LengthIsBounded
  <2> QED BY <2>4 DEF E
<1>11. WriteFields(fs, values) \in Seq(Byte)
  BY <1>2, <1>4, <1>9, RoundTrip
<1>12. Len(WriteFields(fs, values)) <= 16 * U
  <2> DEFINE l == Len(WriteFields(fs, values))
             x == (7 - n) * U
             y == n * U
  <2>1. l \in Nat /\ l <= y + 9 * U
    BY <1>10, <1>11
  <2>2. 7 - n \in Nat
    BY <1>2
  <2>3. x \in Nat /\ y \in Nat /\ x + y = 7 * U
    <3> DEFINE m == 7 - n
    <3>1. m \in Nat /\ n \in Nat /\ U \in Nat /\ m + n = 7
      BY <1>2, <2>2
    <3>2. m * U \in Nat /\ n * U \in Nat
      <4> HIDE DEF m, n
      <4> QED BY <3>1
    <3>3. m * U + n * U = 7 * U
      BY <1>2
    <3> QED BY <3>2, <3>3
  <2> HIDE DEF l, x, y
  <2>4. l <= 16 * U
    BY <1>2, <2>1, <2>3
  <2> QED BY <2>4 DEF l
<1>13. "entityData" \in NamesOf(fs) => values["entityData"] = data
  BY <1>5
<1> QED BY <1>3, <1>4, <1>9, <1>12, <1>13 DEF values, p, data

-----------------------------------------------------------------------------
(***************************************************************************)
(* A packet as bytes.                                                      *)
(***************************************************************************)

\* The size that is announced is that of the bytes.
LEMMA SizeIsOfBytes ==
  ASSUME NEW p, NEW fs, CreatePacket(p.number).sized = fs, FieldList(fs), AllHold(fs, p.values)
  PROVE  PacketSize(p) = 5 + Len(WriteFields(fs, p.values))
<1> DEFINE n == Len(fs)
           size(k) == SizeOf(fs[k].kind, p.values[fs[k].name])
           IsRun(f) == f = [k \in 0..n |-> IF k = 0 THEN 4 + 1 ELSE f[k - 1] + size(k)]
           run == CHOOSE f : IsRun(f)
<1>0. n \in Nat
  BY DEF FieldList
<1>1. PacketSize(p) = run[n]
  BY DEF PacketSize
<1>2. PICK W : /\ W \in [0..n -> Seq(Byte)] /\ W[0] = <<>> /\ WriteFields(fs, p.values) = W[n]
               /\ \A k \in 1..n : Len(W[k]) = Len(W[k - 1]) + size(k)
  BY WrittenIs
<1>3. \A k \in 0..n : Len(W[k]) \in Nat
  BY <1>2
<1>4. \A k \in 1..n : size(k) \in Nat
  BY WrittenField DEF AllHold
<1> HIDE DEF size, n
<1>5. IsRun(run)
  <2> DEFINE f == [k \in 0..n |-> 5 + Len(W[k])]
  <2>1. \A k \in 0..n : f[k] = 5 + Len(W[k])
    OBVIOUS
  <2>2. f = [k \in 0..n |-> f[k]]
    OBVIOUS
  <2> HIDE DEF f
  <2>3. ASSUME NEW k \in 0..n
        PROVE  f[k] = IF k = 0 THEN 4 + 1 ELSE f[k - 1] + size(k)
    <3>1. CASE k = 0
      BY <1>2, <2>1, <3>1
    <3>2. CASE k # 0
      <4>1. k \in 1..n /\ k - 1 \in 0..n
        BY <1>0, <3>2
      <4>2. f[k - 1] = 5 + Len(W[k - 1]) /\ Len(W[k - 1]) \in Nat
        BY <1>3, <2>1, <4>1
      <4> QED BY <1>2, <1>4, <2>1, <3>2, <4>1, <4>2
    <3> QED BY <3>1, <3>2
  <2>4. IsRun(f)
    BY <2>2, <2>3
  <2> HIDE DEF IsRun
  <2> QED BY <2>4
<1> HIDE DEF run
<1>6. \A k \in 0..n : run[k] = IF k = 0 THEN 4 + 1 ELSE run[k - 1] + size(k)
  BY <1>5, Zenon
<1> DEFINE T == {k \in 0..n : run[k] = 5 + Len(W[k])}
<1>7. 0 \in T
  BY <1>0, <1>2, <1>6
<1>8. ASSUME NEW k \in 1..n, k - 1 \in T
      PROVE  k \in T
  <2>1. k \in 0..n /\ k # 0 /\ k - 1 \in 0..n
    BY <1>0
  <2>2. run[k - 1] = 5 + Len(W[k - 1]) /\ Len(W[k - 1]) \in Nat
    BY <1>3, <1>8, <2>1
  <2> QED BY <1>2, <1>4, <1>6, <2>1, <2>2
<1>9. n \in T
  <2> HIDE DEF T
  <2> QED BY <1>0, <1>7, <1>8, Rounds
<1> QED BY <1>1, <1>2, <1>9

\* What a receiver finds in the bytes of a packet.
Readable(p, bytes) ==
  /\ bytes \in Seq(Byte) /\ Len(bytes) >= 5
  /\ FromBigEndian(SubSeq(bytes, 1, 4)) = Len(bytes)
  /\ FromBytes(bytes[5], SubSeq(bytes, 6, Len(bytes))) = p

LEMMA PacketIsReadable ==
  ASSUME NEW class \in Classes, NEW c \in 0..2
  PROVE  Readable(PacketOf(class, c), GetBytes(PacketOf(class, c)))
<1> DEFINE fs == class.written
           p == PacketOf(class, c)
           size == PacketSize(p)
           body == WriteFields(fs, p.values)
           head == BigEndian(size, 4)
           type == BigEndian(class.number, 1)
           bytes == GetBytes(p)
<1>1. PICK U : Room(U)
  BY ThereIsRoom
<1>2. Consistent(class) /\ CreatePacket(class.number) = class
  BY ClassFacts
<1>3. /\ p = [number |-> class.number, values |-> p.values]
      /\ p.values = [name \in NamesOf(fs) |-> p.values[name]]
      /\ AllHold(fs, p.values) /\ Len(body) <= 16 * U
  BY <1>1, PacketFields
<1>4. /\ FieldList(fs) /\ class.sized = fs /\ class.read = fs
      /\ class.number \in Nat /\ class.number < ByteValues /\ p.number = class.number
  BY <1>2, <1>3, ByteFacts DEF Consistent, Fields
<1>5. body \in Seq(Byte) /\ ReadFields(fs, body) = p.values
  BY <1>3, <1>4, RoundTrip
<1> HIDE DEF p
<1>6. size = 5 + Len(body)
  BY <1>2, <1>3, <1>4, SizeIsOfBytes
<1>7. head \in Seq(Byte) /\ Len(head) = 4 /\ FromBigEndian(head) = size
  <2>1. 16 * U + 5 \in Nat /\ U \in Nat /\ Fits(16 * U + 5, 4)
    BY <1>1 DEF Room
  <2> DEFINE x == 16 * U + 5
  <2>2. size \in Nat /\ size <= x
    BY <1>3, <1>5, <1>6, <2>1
  <2>3. Fits(x, 4) /\ x \in Nat
    BY <2>1
  <2> HIDE DEF size, x
  <2>4. Fits(size, 4)
    BY <2>2, <2>3, SmallerFits
  <2>5. FromBigEndian(BigEndian(size, 4)) = size
    BY <2>4, NumberReadsBack
  <2>6. BigEndian(size, 4) \in Seq(Byte) /\ Len(BigEndian(size, 4)) = 4
    <3>1. size \in Int /\ 4 \in Nat
      BY <2>2
    <3> QED BY <3>1, BigEndianBytes, Zenon
  <2> QED BY <2>5, <2>6
<1>8. type \in Seq(Byte) /\ Len(type) = 1 /\ type[1] = class.number
  <2>1. class.number \in Int /\ ~(class.number < 0) /\ Magnitude(class.number) = class.number
    BY <1>4 DEF Magnitude
  <2>2. type \in Seq(Byte) /\ Len(type) = 1 /\ type[1] = Shifted(class.number, 0) % ByteValues
    <3> DEFINE m == class.number
    <3>1. m \in Int /\ ~(m < 0) /\ Magnitude(m) = m
      BY <2>1
    <3> HIDE DEF m
    <3>2. BigEndian(m, 1) \in Seq(Byte) /\ Len(BigEndian(m, 1)) = 1
      BY <3>1, BigEndianBytes
    <3>3. BigEndian(m, 1)[1] = Shifted(m, 1 - 1) % ByteValues
      BY <3>1, BigEndianBytes
    <3> QED BY <3>2, <3>3 DEF m
  <2> QED BY <1>4, <2>2, ShiftedNext, SmallRest
<1>9. bytes = (head \o type) \o body
  BY <1>2, <1>4 DEF GetBytes
<1> HIDE DEF head, type, body, bytes, size, fs
<1>10. /\ head \o type \in Seq(Byte) /\ Len(head \o type) = 5
       /\ bytes \in Seq(Byte) /\ Len(bytes) = 5 + Len(body)
  <2>1. head \o type \in Seq(Byte) /\ Len(head \o type) = 5
    <3>1. head \o type \in Seq(Byte) /\ Len(head \o type) = Len(head) + Len(type)
      BY <1>7, <1>8, Joined, Zenon
    <3> QED BY <1>7, <1>8, <3>1
  <2> DEFINE x == head \o type
  <2>2. x \in Seq(Byte) /\ Len(x) = 5 /\ bytes = x \o body
    BY <1>9, <2>1
  <2> HIDE DEF x
  <2>3. bytes \in Seq(Byte) /\ Len(bytes) = 5 + Len(body)
    BY <1>5, <2>2, Joined
  <2> QED BY <2>1, <2>3
<1>11. At(bytes, 0, head) /\ At(bytes, 4, type) /\ At(bytes, 5, body)
  <2>1. At(bytes, 0, bytes)
    BY <1>10 DEF At
  <2> DEFINE x == head \o type
  <2>2. x \in Seq(Byte) /\ Len(x) = 5 /\ bytes = x \o body
    BY <1>9, <1>10
  <2>3. At(bytes, 0, x) /\ At(bytes, 0 + Len(x), body)
    <3> HIDE DEF x
    <3>1. At(bytes, 0, x \o body)
      BY <2>1, <2>2
    <3> QED BY <1>5, <1>10, <2>2, <3>1, AtParts
  <2>4. At(bytes, 0, head) /\ At(bytes, 0 + Len(head), type)
    BY <1>7, <1>8, <1>10, <2>3, AtParts
  <2>5. 0 + Len(head) = 4 /\ 0 + Len(x) = 5
    BY <1>7, <2>2
  <2> QED BY <2>3, <2>4, <2>5
<1>12. SubSeq(bytes, 1, 4) = head
  <2>1. SubSeq(bytes, 0 + 1, 0 + Len(head)) = head
    BY <1>7, <1>10, <1>11, AtSub
  <2> QED BY <1>7, <2>1
<1>13. bytes[5] = class.number
  <2>1. 1 \in 1..Len(type) /\ 4 + 1 = 5
    BY <1>8
  <2>2. bytes[4 + 1] = type[1]
    BY <1>11, <2>1 DEF At
  <2> QED BY <1>8, <2>1, <2>2
<1>14. SubSeq(bytes, 6, Len(bytes)) = body
  <2>1. SubSeq(bytes, 5 + 1, 5 + Len(body)) = body
    BY <1>5, <1>10, <1>11, AtSub
  <2> QED BY <1>10, <2>1
<1>15. FromBytes(class.number, body) = p
  <2>1. ReadFields(class.read, body) = p.values
    BY <1>4, <1>5
  <2>2. FromBytes(class.number, body) = [number |-> class.number, values |-> ReadFields(class.read, body)]
    BY <1>2 DEF FromBytes
  <2> QED BY <1>3, <2>1, <2>2
<1>16. Len(bytes) >= 5 /\ FromBigEndian(SubSeq(bytes, 1, 4)) = Len(bytes)
  <2>1. Len(body) \in Nat
    BY <1>5
  <2>2. size = Len(bytes) /\ Len(bytes) >= 5
    BY <1>6, <1>10, <2>1
  <2>3. FromBigEndian(SubSeq(bytes, 1, 4)) = size
    BY <1>7, <1>12, Zenon
  <2> QED BY <2>2, <2>3, Zenon
<1>17. FromBytes(bytes[5], SubSeq(bytes, 6, Len(bytes))) = p
  BY <1>13, <1>14, <1>15, Zenon
<1>18. Readable(p, bytes)
  BY <1>10, <1>16, <1>17 DEF Readable
<1> QED BY <1>18 DEF bytes, p

-----------------------------------------------------------------------------
(***************************************************************************)
(* Packets behind each other.                                              *)
(***************************************************************************)

Packet == {PacketOf(class, c) : class \in Classes, c \in 0..2}

LEMMA PacketFacts ==
  ASSUME NEW p \in Packet
  PROVE  Readable(p, GetBytes(p)) /\ GetBytes(p) \in Seq(Byte)
<1>1. PICK class \in Classes, c \in 0..2 : p = PacketOf(class, c)
  BY DEF Packet
<1>2. Readable(p, GetBytes(p))
  BY <1>1, PacketIsReadable
<1> QED BY <1>2 DEF Readable

LEMMA WriteAllIs ==
  ASSUME NEW packets \in Seq(Packet)
  PROVE  \E W : /\ W \in [0..Len(packets) -> Seq(Byte)] /\ W[0] = <<>> /\ WriteAll(packets) = W[Len(packets)]
                /\ \A k \in 1..Len(packets) : W[k] = W[k - 1] \o GetBytes(packets[k])
<1> DEFINE n == Len(packets)
           piece(k) == GetBytes(packets[k])
           pieces == [k \in 1..n |-> piece(k)]
<1>1. n \in Nat
  OBVIOUS
<1>2. ASSUME NEW k \in 1..n
      PROVE  piece(k) \in Seq(Byte)
  <2>1. packets[k] \in Packet
    BY <1>1
  <2> QED BY <2>1, PacketFacts
<1>3. WriteAll(packets) = FlattenSeq(pieces)
  BY DEF WriteAll
<1>4. (\A k \in 1..n : pieces[k] = piece(k)) /\ pieces = [k \in 1..n |-> pieces[k]]
  OBVIOUS
<1> HIDE DEF pieces, piece, n
<1>5. \A k \in 1..n : pieces[k] \in Seq(Byte)
  BY <1>2, <1>4
<1>6. PICK W : Pieces(W, pieces, n) /\ FlattenSeq(pieces) = W[n]
  BY <1>1, <1>4, <1>5, FlattenIs
<1> QED BY <1>3, <1>4, <1>6 DEF Pieces, n, piece

LEMMA WriteAllNone == WriteAll(<<>>) = <<>>
<1>1. <<>> \in Seq(Packet) /\ Len(<<>>) = 0
  OBVIOUS
<1>2. PICK W : W[0] = <<>> /\ WriteAll(<<>>) = W[0]
  BY <1>1, WriteAllIs
<1> QED BY <1>2

LEMMA WriteAllNext ==
  ASSUME NEW packets \in Seq(Packet), NEW p \in Packet
  PROVE  /\ WriteAll(packets) \in Seq(Byte)
         /\ WriteAll(Append(packets, p)) = WriteAll(packets) \o GetBytes(p)
<1> DEFINE n == Len(packets)
           more == Append(packets, p)
<1>1. n \in Nat /\ more \in Seq(Packet) /\ Len(more) = n + 1 /\ more[n + 1] = p
      /\ \A k \in 1..n : more[k] = packets[k]
  OBVIOUS
<1>2. PICK W : /\ W \in [0..n -> Seq(Byte)] /\ W[0] = <<>> /\ WriteAll(packets) = W[n]
               /\ \A k \in 1..n : W[k] = W[k - 1] \o GetBytes(packets[k])
  BY WriteAllIs
<1> HIDE DEF more, n
<1>3. PICK V : /\ V \in [0..(n+1) -> Seq(Byte)] /\ V[0] = <<>> /\ WriteAll(more) = V[n + 1]
               /\ \A k \in 1..(n+1) : V[k] = V[k - 1] \o GetBytes(more[k])
  <2>1. \E V : /\ V \in [0..Len(more) -> Seq(Byte)] /\ V[0] = <<>> /\ WriteAll(more) = V[Len(more)]
               /\ \A k \in 1..Len(more) : V[k] = V[k - 1] \o GetBytes(more[k])
    BY <1>1, WriteAllIs
  <2> QED BY <1>1, <2>1, Zenon
<1> DEFINE T == {k \in 0..n : V[k] = W[k]}
<1>4. 0 \in T
  BY <1>1, <1>2, <1>3
<1>5. ASSUME NEW k \in 1..n, k - 1 \in T
      PROVE  k \in T
  <2>1. k \in 1..(n+1) /\ k \in 0..n /\ V[k - 1] = W[k - 1] /\ more[k] = packets[k]
    BY <1>1, <1>5
  <2>2. V[k] = V[k - 1] \o GetBytes(more[k]) /\ W[k] = W[k - 1] \o GetBytes(packets[k])
    BY <1>2, <1>3, <2>1
  <2>3. V[k] = W[k]
    BY <2>1, <2>2
  <2> QED BY <2>1, <2>3
<1>6. n \in T
  <2> HIDE DEF T
  <2> QED BY <1>1, <1>4, <1>5, Rounds
<1>7. V[n + 1] = V[n] \o GetBytes(p)
  <2>1. n + 1 \in 1..(n+1) /\ (n + 1) - 1 = n
    BY <1>1
  <2> QED BY <1>1, <1>3, <2>1
<1>8. WriteAll(more) = WriteAll(packets) \o GetBytes(p)
  BY <1>2, <1>3, <1>6, <1>7
<1>9. WriteAll(packets) \in Seq(Byte)
  BY <1>1, <1>2
<1> QED BY <1>8, <1>9 DEF more

\* Where the next packet is.
LEMMA NextPacketIsThere ==
  ASSUME NEW packets \in Seq(Packet), NEW n \in Nat, n < Len(packets)
  PROVE  At(WriteAll(packets), Len(WriteAll(SubSeq(packets, 1, n))), GetBytes(packets[n + 1]))
<1> DEFINE m == Len(packets)
           first(k) == SubSeq(packets, 1, k)
           V == [k \in 0..m |-> WriteAll(first(k))]
           piece(k) == GetBytes(packets[k])
           pieces == [k \in 1..m |-> piece(k)]
<1>1. m \in Nat /\ first(0) = <<>> /\ first(m) = packets /\ \A k \in 0..m : first(k) \in Seq(Packet)
  OBVIOUS
<1>2. ASSUME NEW k \in 1..m
      PROVE  first(k) = Append(first(k - 1), packets[k]) /\ packets[k] \in Packet
  OBVIOUS
<1>3. (\A k \in 0..m : V[k] = WriteAll(first(k))) /\ \A k \in 1..m : pieces[k] = piece(k)
  OBVIOUS
<1>4. V = [k \in 0..m |-> V[k]]
  OBVIOUS
<1> HIDE DEF V, pieces, first, m
<1>5. \A k \in 1..m : pieces[k] \in Seq(Byte)
  BY <1>2, <1>3, PacketFacts
<1>6. ASSUME NEW k \in 1..m
      PROVE  V[k] = V[k - 1] \o pieces[k] /\ V[k - 1] \in Seq(Byte) /\ V[k] \in Seq(Byte)
  <2>1. k - 1 \in 0..m /\ k \in 0..m
    BY <1>1
  <2>2. /\ WriteAll(first(k - 1)) \in Seq(Byte)
        /\ WriteAll(Append(first(k - 1), packets[k])) = WriteAll(first(k - 1)) \o GetBytes(packets[k])
    BY <1>1, <1>2, <2>1, WriteAllNext
  <2>3. V[k] = V[k - 1] \o pieces[k] /\ V[k - 1] \in Seq(Byte)
    BY <1>2, <1>3, <2>1, <2>2
  <2>4. pieces[k] \in Seq(Byte)
    BY <1>5
  <2> DEFINE x == V[k - 1]
             y == pieces[k]
  <2>5. x \o y \in Seq(Byte)
    BY <2>3, <2>4, Joined, Zenon
  <2> QED BY <2>3, <2>5
<1>7. Pieces(V, pieces, m)
  <2>1. V[0] = <<>>
    BY <1>1, <1>3, WriteAllNone
  <2>2. \A k \in 0..m : V[k] \in Seq(Byte)
    <3>1. <<>> \in Seq(Byte)
      OBVIOUS
    <3>2. \A k \in 0..m : k = 0 \/ k \in 1..m
      BY <1>1
    <3> QED BY <1>6, <2>1, <3>1, <3>2
  <2>3. V \in [0..m -> Seq(Byte)]
    BY <1>4, <2>2
  <2> QED BY <1>6, <2>1, <2>3 DEF Pieces
<1>8. \A k \in 1..m : At(V[m], Len(V[k - 1]), pieces[k])
  BY <1>1, <1>5, <1>7, PiecesAreThere
<1>9. n + 1 \in 1..m /\ (n + 1) - 1 = n /\ n \in 0..m /\ m \in 0..m
  BY <1>1 DEF m
<1>10. At(V[m], Len(V[n]), pieces[n + 1])
  BY <1>8, <1>9
<1>11. V[m] = WriteAll(packets) /\ V[n] = WriteAll(first(n)) /\ pieces[n + 1] = GetBytes(packets[n + 1])
  BY <1>1, <1>3, <1>9
<1> QED BY <1>10, <1>11 DEF first

-----------------------------------------------------------------------------
(***************************************************************************)
(* The stream holds what is written and not yet read.                      *)
(***************************************************************************)

StreamHoldsTheRest ==
  /\ packetsSent \in Seq(Packet) /\ packetsRead \in Seq(Packet) /\ stream \in Seq(Byte)
  /\ IsPrefix(packetsRead, packetsSent)
  /\ WriteAll(packetsRead) \o stream = WriteAll(packetsSent)

DatagramsArePackets ==
  /\ \A d \in datagrams : \E p \in Packet : d = GetBytes(p)
  /\ heard \subseteq Packet

LEMMA Associative ==
  ASSUME NEW x \in Seq(Byte), NEW y \in Seq(Byte), NEW z \in Seq(Byte)
  PROVE  (x \o y) \o z = x \o (y \o z)
OBVIOUS

\* What follows x in x \o y.
LEMMA Behind ==
  ASSUME NEW x \in Seq(Byte), NEW y \in Seq(Byte), NEW s \in Seq(Byte), At(x \o y, Len(x), s)
  PROVE  At(y, 0, s)
<1> DEFINE z == x \o y
<1>1. /\ z \in Seq(Byte) /\ Len(z) = Len(x) + Len(y) /\ Len(x) \in Nat /\ Len(y) \in Nat
      /\ \A i \in 1..Len(y) : z[Len(x) + i] = y[i]
  OBVIOUS
<1>2. Len(x) + Len(s) <= Len(z) /\ \A i \in 1..Len(s) : z[Len(x) + i] = s[i]
  BY DEF At
<1> HIDE DEF z
<1>3. Len(s) \in Nat /\ Len(s) <= Len(y)
  BY <1>1, <1>2
<1>4. \A i \in 1..Len(s) : y[0 + i] = s[i]
  BY <1>1, <1>2, <1>3
<1> QED BY <1>3, <1>4 DEF At

\* Taking s off the front.
LEMMA TakenOff ==
  ASSUME NEW y \in Seq(Byte), NEW s \in Seq(Byte), At(y, 0, s)
  PROVE  LET rest == SubSeq(y, Len(s) + 1, Len(y)) IN rest \in Seq(Byte) /\ y = s \o rest
<1> DEFINE rest == SubSeq(y, Len(s) + 1, Len(y))
           z == s \o rest
<1>1. Len(s) \in Nat /\ Len(y) \in Nat /\ Len(s) <= Len(y) /\ \A i \in 1..Len(s) : y[i] = s[i]
  BY DEF At
<1>2. /\ rest \in Seq(Byte) /\ Len(rest) = Len(y) - Len(s)
      /\ \A i \in 1..Len(rest) : rest[i] = y[Len(s) + i]
  BY <1>1
<1> HIDE DEF rest
<1>3. /\ z \in Seq(Byte) /\ Len(z) = Len(y)
      /\ \A i \in 1..Len(s) : z[i] = s[i]
      /\ \A i \in 1..Len(rest) : z[Len(s) + i] = rest[i]
  BY <1>1, <1>2
<1> HIDE DEF z
<1>4. ASSUME NEW i \in 1..Len(y)
      PROVE  z[i] = y[i]
  <2>1. CASE i <= Len(s)
    BY <1>1, <1>3, <2>1
  <2>2. CASE i > Len(s)
    <3>1. i - Len(s) \in 1..Len(rest) /\ Len(s) + (i - Len(s)) = i
      BY <1>1, <1>2, <2>2
    <3> QED BY <1>2, <1>3, <3>1
  <2> QED BY <1>1, <2>1, <2>2
<1>5. z = y
  BY <1>3, <1>4
<1> QED BY <1>2, <1>5 DEF rest, z

LEMMA SameFront ==
  ASSUME NEW y \in Seq(Byte), NEW s \in Seq(Byte), At(y, 0, s), Len(s) >= 5
  PROVE  /\ SubSeq(y, 1, 4) = SubSeq(s, 1, 4) /\ y[5] = s[5]
         /\ SubSeq(y, 6, Len(s)) = SubSeq(s, 6, Len(s))
<1>1. Len(s) \in Nat /\ Len(y) \in Nat /\ Len(s) <= Len(y) /\ \A i \in 1..Len(s) : y[i] = s[i]
  BY DEF At
<1>2. y[5] = s[5]
  BY <1>1
<1>3. SubSeq(y, 1, 4) = SubSeq(s, 1, 4)
  BY <1>1
<1>4. SubSeq(y, 6, Len(s)) = SubSeq(s, 6, Len(s))
  BY <1>1
<1> QED BY <1>2, <1>3, <1>4

LEMMA StreamInit == PacketsInit => StreamHoldsTheRest
<1> SUFFICES ASSUME PacketsInit
             PROVE  StreamHoldsTheRest
  OBVIOUS
<1>1. stream = <<>> /\ packetsSent = <<>> /\ packetsRead = <<>>
  BY DEF PacketsInit
<1>2. <<>> \in Seq(Packet) /\ <<>> \in Seq(Byte) /\ IsPrefix(<<>>, <<>>) /\ <<>> \o <<>> = <<>>
  BY DEF IsPrefix
<1> QED BY <1>1, <1>2, WriteAllNone DEF StreamHoldsTheRest

LEMMA SendKeepsStream ==
  ASSUME StreamHoldsTheRest, NEW class \in Classes, NEW c \in 0..2, NEW forced \in BOOLEAN,
         SendPacket(class, c, forced)
  PROVE  StreamHoldsTheRest'
<1> DEFINE p == PacketOf(class, c)
           g == GetBytes(p)
<1>1. p \in Packet
  BY DEF Packet
<1>2. g \in Seq(Byte)
  BY <1>1, PacketFacts
<1>3. packetsRead' = packetsRead
  BY DEF SendPacket
<1>4. CASE class.vital \/ forced
  <2>1. stream' = stream \o g /\ packetsSent' = Append(packetsSent, p)
    BY <1>4 DEF SendPacket
  <2> HIDE DEF p, g
  <2>2. packetsSent \in Seq(Packet) /\ packetsRead \in Seq(Packet) /\ stream \in Seq(Byte)
    BY DEF StreamHoldsTheRest
  <2>3. packetsSent' \in Seq(Packet) /\ stream' \in Seq(Byte)
    BY <1>1, <1>2, <2>1, <2>2
  <2>4. IsPrefix(packetsRead, packetsSent')
    <3>1. Len(packetsRead) <= Len(packetsSent) /\ SubSeq(packetsRead, 1, Len(packetsRead)) = SubSeq(packetsSent, 1, Len(packetsRead))
      BY DEF StreamHoldsTheRest, IsPrefix
    <3>2. SubSeq(packetsSent', 1, Len(packetsRead)) = SubSeq(packetsSent, 1, Len(packetsRead))
          /\ Len(packetsRead) <= Len(packetsSent')
      BY <1>1, <2>1, <2>2, <3>1
    <3> QED BY <3>1, <3>2 DEF IsPrefix
  <2>5. WriteAll(packetsSent') = WriteAll(packetsSent) \o g
    BY <1>1, <2>1, <2>2, WriteAllNext DEF g
  <2>6. WriteAll(packetsRead) \in Seq(Byte)
    BY <1>1, <2>2, WriteAllNext
  <2>7. WriteAll(packetsRead) \o (stream \o g) = (WriteAll(packetsRead) \o stream) \o g
    BY <1>2, <2>2, <2>6, Associative, Zenon
  <2>8. WriteAll(packetsRead) \o stream' = WriteAll(packetsSent')
    BY <2>1, <2>5, <2>7, Zenon DEF StreamHoldsTheRest
  <2> QED BY <1>3, <2>2, <2>3, <2>4, <2>8, Zenon DEF StreamHoldsTheRest
<1>5. CASE ~(class.vital \/ forced)
  <2>1. UNCHANGED <<stream, packetsSent, packetsRead>>
    BY <1>5 DEF SendPacket
  <2> QED BY <2>1 DEF StreamHoldsTheRest
<1> QED BY <1>4, <1>5

LEMMA ReadKeepsStream ==
  ASSUME StreamHoldsTheRest, CheckTCPSocket
  PROVE  StreamHoldsTheRest'
<1> DEFINE n == Len(packetsRead)
           p == packetsSent[n + 1]
           g == GetBytes(p)
           size == FromBigEndian(SubSeq(stream, 1, 4))
           before == WriteAll(packetsRead)
           rest == SubSeq(stream, size + 1, Len(stream))
<1>1. /\ packetsSent \in Seq(Packet) /\ packetsRead \in Seq(Packet) /\ stream \in Seq(Byte)
      /\ n \in Nat /\ n <= Len(packetsSent) /\ packetsRead = SubSeq(packetsSent, 1, n)
      /\ before \o stream = WriteAll(packetsSent) /\ stream # <<>>
  <2>1. /\ packetsSent \in Seq(Packet) /\ packetsRead \in Seq(Packet) /\ stream \in Seq(Byte)
        /\ n \in Nat /\ n <= Len(packetsSent) /\ SubSeq(packetsRead, 1, n) = SubSeq(packetsSent, 1, n)
    BY DEF StreamHoldsTheRest, IsPrefix
  <2>2. SubSeq(packetsRead, 1, n) = packetsRead
    BY <2>1
  <2>3. before \o stream = WriteAll(packetsSent) /\ stream # <<>>
    BY DEF StreamHoldsTheRest, CheckTCPSocket
  <2> QED BY <2>1, <2>2, <2>3
<1>2. /\ packetsRead' = Append(packetsRead, FromBytes(stream[5], SubSeq(stream, 6, size)))
      /\ stream' = rest /\ packetsSent' = packetsSent
  BY DEF CheckTCPSocket
<1>3. n < Len(packetsSent)
  <2>1. ASSUME n = Len(packetsSent)
        PROVE  FALSE
    <3>1. packetsRead = packetsSent
      BY <1>1, <2>1
    <3>2. \E q \in Packet : TRUE
      BY DEF Packet, Classes
    <3>3. before \in Seq(Byte)
      BY <1>1, <3>2, WriteAllNext
    <3>4. before \o stream = before
      BY <1>1, <3>1, Zenon
    <3>5. Len(before \o stream) = Len(before) + Len(stream)
      BY <1>1, <3>3, Joined, Zenon
    <3>6. Len(stream) = 0
      <4>1. Len(before) \in Nat /\ Len(stream) \in Nat
        BY <1>1, <3>3
      <4> DEFINE l == Len(before)
                 m == Len(stream)
      <4>2. l = l + m /\ l \in Nat /\ m \in Nat
        BY <3>4, <3>5, <4>1, Zenon
      <4> HIDE DEF l, m
      <4>3. m = 0
        BY <4>2
      <4> QED BY <4>3 DEF m
    <3> QED BY <1>1, <3>6
  <2> QED BY <1>1, <2>1
<1>4. p \in Packet
  BY <1>1, <1>3
<1> HIDE DEF p
<1>5. g \in Seq(Byte) /\ Readable(p, g)
  BY <1>4, PacketFacts
<1>6. before \in Seq(Byte) /\ WriteAll(Append(packetsRead, p)) = before \o g
  BY <1>1, <1>4, WriteAllNext
<1>7. At(before \o stream, Len(before), g)
  <2>1. At(WriteAll(packetsSent), Len(WriteAll(SubSeq(packetsSent, 1, n))), GetBytes(packetsSent[n + 1]))
    BY <1>1, <1>3, NextPacketIsThere
  <2> QED BY <1>1, <2>1, Zenon DEF p
<1> HIDE DEF before, g, n
<1>8. At(stream, 0, g)
  BY <1>1, <1>5, <1>6, <1>7, Behind
<1>9. Len(g) >= 5 /\ FromBigEndian(SubSeq(g, 1, 4)) = Len(g) /\ FromBytes(g[5], SubSeq(g, 6, Len(g))) = p
  BY <1>5 DEF Readable
<1>10. /\ SubSeq(stream, 1, 4) = SubSeq(g, 1, 4) /\ stream[5] = g[5]
       /\ SubSeq(stream, 6, Len(g)) = SubSeq(g, 6, Len(g))
  BY <1>1, <1>5, <1>8, <1>9, SameFront
<1>11. size = Len(g)
  BY <1>9, <1>10, Zenon
<1>12. packetsRead' = Append(packetsRead, p)
  BY <1>2, <1>9, <1>10, <1>11, Zenon
<1>13. rest \in Seq(Byte) /\ stream = g \o rest
  <2>1. SubSeq(stream, Len(g) + 1, Len(stream)) \in Seq(Byte) /\ stream = g \o SubSeq(stream, Len(g) + 1, Len(stream))
    BY <1>1, <1>5, <1>8, TakenOff
  <2> QED BY <1>11, <2>1, Zenon
<1> HIDE DEF rest, size
<1>14. (before \o g) \o rest = before \o (g \o rest)
  BY <1>5, <1>6, <1>13, Associative, Zenon
<1>15. WriteAll(packetsRead') \o stream' = WriteAll(packetsSent')
  BY <1>1, <1>2, <1>6, <1>12, <1>13, <1>14, Zenon
<1>16. packetsRead' \in Seq(Packet) /\ stream' \in Seq(Byte) /\ packetsSent' \in Seq(Packet)
  <2>1. Append(packetsRead, p) \in Seq(Packet)
    BY <1>1, <1>4
  <2> QED BY <1>1, <1>2, <1>12, <1>13, <2>1, Zenon
<1>17. IsPrefix(packetsRead', packetsSent')
  <2>1. packetsRead' = SubSeq(packetsSent, 1, n + 1)
    <3>1. SubSeq(packetsSent, 1, n + 1) = Append(SubSeq(packetsSent, 1, n), packetsSent[n + 1])
      BY <1>1, <1>3
    <3> QED BY <1>1, <1>12, <3>1, Zenon DEF p
  <2>2. Len(packetsRead') = n + 1
    BY <1>1, <1>12 DEF n
  <2>3. SubSeq(packetsRead', 1, n + 1) = packetsRead'
    BY <1>1, <1>16, <2>2
  <2>4. n + 1 <= Len(packetsSent)
    BY <1>1, <1>3
  <2> QED BY <1>2, <2>1, <2>2, <2>3, <2>4 DEF IsPrefix
<1> QED BY <1>15, <1>16, <1>17 DEF StreamHoldsTheRest

LEMMA StreamStep ==
  ASSUME StreamHoldsTheRest, [PacketsNext]_packetVars
  PROVE  StreamHoldsTheRest'
<1>1. CASE UNCHANGED packetVars
  BY <1>1 DEF packetVars, StreamHoldsTheRest
<1>2. ASSUME CheckUDPSocket
      PROVE  StreamHoldsTheRest'
  BY <1>2 DEF CheckUDPSocket, StreamHoldsTheRest
<1> QED BY <1>1, <1>2, SendKeepsStream, ReadKeepsStream DEF PacketsNext

LEMMA DatagramsStep ==
  ASSUME DatagramsArePackets, [PacketsNext]_packetVars
  PROVE  DatagramsArePackets'
<1>1. CASE UNCHANGED packetVars
  BY <1>1 DEF packetVars, DatagramsArePackets
<1>2. ASSUME NEW class \in Classes, NEW c \in 0..2, NEW forced \in BOOLEAN, SendPacket(class, c, forced)
      PROVE  DatagramsArePackets'
  <2>1. PacketOf(class, c) \in Packet
    BY DEF Packet
  <2>2. datagrams' \subseteq datagrams \cup {GetBytes(PacketOf(class, c))} /\ heard' = heard
    BY <1>2 DEF SendPacket
  <2> QED BY <2>1, <2>2 DEF DatagramsArePackets
<1>3. ASSUME CheckTCPSocket
      PROVE  DatagramsArePackets'
  BY <1>3 DEF CheckTCPSocket, DatagramsArePackets
<1>4. ASSUME CheckUDPSocket
      PROVE  DatagramsArePackets'
  <2>1. PICK d \in datagrams : heard' = heard \cup {FromBytes(d[5], SubSeq(d, 6, Len(d)))}
    BY <1>4 DEF CheckUDPSocket
  <2>2. PICK p \in Packet : d = GetBytes(p)
    BY DEF DatagramsArePackets
  <2>3. FromBytes(d[5], SubSeq(d, 6, Len(d))) = p
    BY <2>2, PacketFacts DEF Readable
  <2>4. datagrams' = datagrams
    BY <1>4 DEF CheckUDPSocket
  <2> QED BY <2>1, <2>2, <2>3, <2>4 DEF DatagramsArePackets
<1> QED BY <1>1, <1>2, <1>3, <1>4 DEF PacketsNext

(* Packet::GetBytes announces the bytes that SerializeBytes writes, and each
   class's FromBytes takes them off in the order they were written: so the
   PacketReceiver is never out of step with the stream, whatever vital packets
   and forced updates of entities follow each other on it, provided that a
   packet's bytes are received together and its texts hold no NUL. *)
THEOREM ReadsWhatWasWrittenAlways == PacketsSpec => []ReadsWhatWasWritten
<1>1. PacketsInit => StreamHoldsTheRest
  BY StreamInit
<1>2. StreamHoldsTheRest /\ [PacketsNext]_packetVars => StreamHoldsTheRest'
  BY StreamStep
<1>3. StreamHoldsTheRest => ReadsWhatWasWritten
  BY DEF StreamHoldsTheRest, ReadsWhatWasWritten
<1> QED BY <1>1, <1>2, <1>3, PTL DEF PacketsSpec

(* The GetEntityData and SetData of the two Character classes agree on the
   fields and their order in both directions, and a datagram or, for a forced
   update, the stream carries them as they were written. *)
THEOREM EntityDataIsUnderstoodAlways == PacketsSpec => []EntityDataIsUnderstood
<1>1. PacketsInit => DatagramsArePackets
  BY DEF PacketsInit, DatagramsArePackets
<1>2. DatagramsArePackets /\ [PacketsNext]_packetVars => DatagramsArePackets'
  BY DatagramsStep
<1>3. DatagramsArePackets /\ StreamHoldsTheRest => EntityDataIsUnderstood
  <2>1. PICK U : Room(U)
    BY ThereIsRoom
  <2>2. ASSUME NEW p \in Packet, NEW class \in {ServerClientEntityUpdate, ClientServerEntityUpdate},
               p.number = class.number
        PROVE  \E c \in 0..2 : p.values["entityData"] = EntityData(class.number, c)
    <3>1. PICK k \in Classes, c \in 0..2 : p = PacketOf(k, c)
      BY DEF Packet
    <3>2. p.number = k.number /\ class \in Classes
      BY <3>1 DEF PacketOf, Classes
    <3>3. k = class
      BY <2>2, <3>2, ClassFacts
    <3>4. "entityData" \in NamesOf(class.written)
      <4>1. CASE class = ServerClientEntityUpdate
        <5>1. 6 \in DOMAIN class.written /\ class.written[6].name = "entityData"
          BY <4>1, FIs DEF ServerClientEntityUpdate, ServerClientEntityUpdateOrder, Order, Class
        <5> QED BY <5>1 DEF NamesOf
      <4>2. CASE class = ClientServerEntityUpdate
        <5>1. 5 \in DOMAIN class.written /\ class.written[5].name = "entityData"
          BY <4>2, FIs DEF ClientServerEntityUpdate, ClientServerEntityUpdateOrder, Order, Class
        <5> QED BY <5>1 DEF NamesOf
      <4> QED BY <4>1, <4>2
    <3> QED BY <2>1, <3>1, <3>2, <3>3, <3>4, PacketFields
  <2>3. ServerClientEntityUpdate.number = 2 /\ ClientServerEntityUpdate.number = 5
    BY ServerClientEntityUpdateIsConsistent, ClientServerEntityUpdateIsConsistent
  <2>4. ASSUME NEW p \in Packet, p.number = ServerClientEntityUpdate.number
        PROVE  \E c \in 0..2 : ReadFields(ServerDataRead, p.values["entityData"]) = Pick(ServerDataWritten, c)
    <3>1. PICK c \in 0..2 : p.values["entityData"] = EntityData(2, c)
      BY <2>2, <2>3, <2>4
    <3>2. ReadFields(ServerDataRead, EntityData(2, c)) = Pick(ServerDataWritten, c)
      BY <2>1, EntityDataIs
    <3> QED BY <3>1, <3>2
  <2>5. ASSUME NEW p \in Packet, p.number = ClientServerEntityUpdate.number
        PROVE  \E c \in 0..2 : ReadFields(ClientDataRead, p.values["entityData"]) = Pick(ClientDataWritten, c)
    <3>1. PICK c \in 0..2 : p.values["entityData"] = EntityData(5, c)
      BY <2>2, <2>3, <2>5
    <3>2. ReadFields(ClientDataRead, EntityData(5, c)) = Pick(ClientDataWritten, c)
      BY <2>1, EntityDataIs
    <3> QED BY <3>1, <3>2
  <2>6. ASSUME StreamHoldsTheRest
        PROVE  Range(packetsRead) \subseteq Packet
    BY <2>6 DEF StreamHoldsTheRest, Range
  <2> QED BY <2>4, <2>5, <2>6 DEF DatagramsArePackets, EntityDataIsUnderstood
<1>4. PacketsSpec => []StreamHoldsTheRest
  BY StreamInit, StreamStep, PTL DEF PacketsSpec
<1> QED BY <1>1, <1>2, <1>3, <1>4, PTL DEF PacketsSpec

=============================================================================
