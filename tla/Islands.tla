------------------------------ MODULE Islands -------------------------------
(***************************************************************************)
(* An island of a world, loaded twice from the same files: by the server   *)
(* into grids of plot indexes, by the client into a tile map of pictures   *)
(* and a table that leads from a picture's tile back to a plot.  Both      *)
(* sides then ask which plot is at a position, to decide where characters  *)
(* may go, and the client draws the tiles its camera shows.                *)
(*                                                                         *)
(* A plot is [name, frames, forbids]; a frame is a picture [set, index] of *)
(* a tile set, and how long it is shown.  A file is binary, with a grid    *)
(* for each layer, or JSON, with a default plot, regions and single plots  *)
(* for each layer.                                                         *)
(***************************************************************************)
EXTENDS Integers, SequencesExt, FiniteSetsExt

CONSTANTS PlotTables,   \* the lists of plots explored
          IslandFiles,  \* the files explored
          WidthInTiles, HeightInTiles,
          Pixels,       \* of a tile's side
          ViewportWidth, \* of the camera, in pixels; one row of tiles is looked at
          MaxTime       \* bound: milliseconds of a frame

Cells == (0..WidthInTiles-1) \X (0..HeightInTiles-1)

(* A number of 16 bits that is no plot's and no tile's. *)
EmptyIndex == 65535

(* Every plot has a frame, the indexes of plots have 16 bits and those of tile
   sets 8.  The layers of a file cover the island. *)
IsPlots(t) ==
  /\ t \in Seq(Range(t)) /\ Len(t) <= EmptyIndex
  /\ \A i \in DOMAIN t : t[i].frames \in Seq(Range(t[i].frames)) \ {<<>>}
  /\ Cardinality(UNION {{frame.set : frame \in Range(t[i].frames)} : i \in DOMAIN t}) <= 256

IsFile(f) ==
  /\ f.json \in BOOLEAN
  /\ f.layers \in Seq(Range(f.layers))
  /\ \A l \in DOMAIN f.layers :
       IF f.json THEN /\ f.layers[l].regions \in Seq(Range(f.layers[l].regions))
                      /\ f.layers[l].plots \in Seq(Range(f.layers[l].plots))
                 ELSE f.layers[l].grid \in [Cells -> Int]

ASSUME IslandsAssumption ==
  /\ WidthInTiles \in Nat \ {0} /\ HeightInTiles \in Nat \ {0}
  /\ Pixels \in Nat \ {0} /\ ViewportWidth \in Nat /\ MaxTime \in Nat \ {0}
  /\ \A t \in PlotTables : IsPlots(t)
  /\ \A f \in IslandFiles : IsFile(f)

VARIABLES plots,      \* Plots::_plots, the same on both sides
          file,       \* the island's file
          grids,      \* the server's _layers, << >> before they are loaded
          tileSets,   \* names of the tile map's tile sets, in their order
          tiles,      \* TileMap::_tiles
          layerTiles, \* the tile map's layers: cells to indexes of tiles
          plotOfTile, \* _tileMapPlotMap
          client,     \* "new", "loaded" or "failed"
          viewport    \* the camera's x, in pixels from the island's edge

islandVars == <<plots, file, grids, tileSets, tiles, layerTiles, plotOfTile, client, viewport>>

(* The cells in the order of the loops over y and x. *)
CellAt(n) == <<n % WidthInTiles, n \div WidthInTiles>>
NumberOfCells == WidthInTiles * HeightInTiles

(* Plots::GetPlotIndexByName, GetIndexByName. *)
PlotIndexByName(name) ==
  LET n == SelectInSeq(plots, LAMBDA p : p.name = name)
  IN  IF n = 0 THEN EmptyIndex ELSE n - 1

----------------------------------------------------------------------------
(* The layers of a file, as both sides read them. *)

RegionsAt(layer, c) ==
  {i \in DOMAIN layer.regions :
     LET region == layer.regions[i]
     IN  /\ region.x <= c[1] /\ c[1] < region.x + region.w
         /\ region.y <= c[2] /\ c[2] < region.y + region.h}

PlotsAt(layer, c) == {i \in DOMAIN layer.plots : <<layer.plots[i].x, layer.plots[i].y>> = c}

(* What the loops over regions and then over plots leave at a cell: what was
   written there last. *)
JsonLayer(base, layer) ==
  [c \in Cells |->
     IF PlotsAt(layer, c) # {} THEN PlotIndexByName(layer.plots[Max(PlotsAt(layer, c))].name)
     ELSE IF RegionsAt(layer, c) # {} THEN PlotIndexByName(layer.regions[Max(RegionsAt(layer, c))].name)
     ELSE base]

(* A layer of a JSON file without a default plot: the server's grid is full of
   the first plot, the client's is empty. *)
ServerLayerFromJson(layer) ==
  JsonLayer(IF layer.default = "" THEN 0 ELSE PlotIndexByName(layer.default), layer)

ClientLayerFromJson(layer) ==
  JsonLayer(IF layer.default = "" THEN EmptyIndex ELSE PlotIndexByName(layer.default), layer)

ServerLayerFromBinary(layer) ==
  [c \in Cells |-> (IF layer.grid[c] = -1 THEN EmptyIndex ELSE layer.grid[c]) % 65536]

CreateLayer(layer) ==
  [c \in Cells |-> (IF layer.grid[c] = -1 THEN EmptyIndex ELSE layer.grid[c]) % 65536]

BuildLayers ==
  [l \in DOMAIN file.layers |->
     IF file.json THEN ClientLayerFromJson(file.layers[l]) ELSE CreateLayer(file.layers[l])]

----------------------------------------------------------------------------
(* The client's tile map. *)

(* Island::IndexTileSets: the tile sets of the plots, in the order they are
   met. *)
WithTileSet(sets, set) == IF Contains(sets, set) THEN sets ELSE Append(sets, set)

WithTileSetsOf(p, sets) ==
  LET upTo[f \in 0..Len(p.frames)] ==
        IF f = 0 THEN sets ELSE WithTileSet(upTo[f - 1], p.frames[f].set)
  IN  upTo[Len(p.frames)]

IndexedTileSets ==
  LET upTo[i \in 0..Len(plots)] == IF i = 0 THEN <<>> ELSE WithTileSetsOf(plots[i], upTo[i - 1])
  IN  upTo[Len(plots)]

TileSetIndex(sets, set) == SelectInSeq(sets, LAMBDA s : s = set) - 1

(* _tileMapIndexes: by the name of a plot, the tile set of its last frame; a
   name that is no plot's is given 0. *)
TileMapIndex(sets, name) ==
  LET its == {i \in DOMAIN plots : plots[i].name = name}
  IN  IF its = {} THEN 0 ELSE TileSetIndex(sets, Last(plots[Max(its)].frames).set)

(* The pictures of an animation are looked up under the name of their tile
   set, where only plots have entries. *)
GetAnimationInfoFromPlot(sets, p) ==
  [f \in DOMAIN p.frames |-> [set   |-> TileMapIndex(sets, p.frames[f].set),
                              index |-> p.frames[f].index,
                              time  |-> p.frames[f].time]]

NewTile(frames) == [frames |-> frames, current |-> 1, time |-> 0]

(* A tile map under construction: [tiles, layerTiles, plotOfTile]. *)
Put(tm, l, c, n) == [tm EXCEPT !.layerTiles[l][c] = (n - 1) % 65536]

WithTile(tm, l, c, n, tile) ==
  IF n # 0 THEN Put(tm, l, c, n)
  ELSE Put([tm EXCEPT !.tiles = Append(@, tile)], l, c, Len(tm.tiles) + 1)

(* TileMap::SetTileIndex, for a picture and for an animation.  A picture is
   also found in an animated tile that begins with it. *)
SetTileIndex(tm, l, c, set, index) ==
  LET n == SelectInSeq(tm.tiles, LAMBDA t : t.frames[t.current].set = set /\ t.frames[t.current].index = index)
  IN  WithTile(tm, l, c, n, NewTile(<<[set |-> set, index |-> index, time |-> 0]>>))

SetAnimatedTileIndex(tm, l, c, frames) ==
  WithTile(tm, l, c, SelectInSeq(tm.tiles, LAMBDA t : t.frames = frames), NewTile(frames))

WithEntry(table, t, plotIndex) ==
  [k \in DOMAIN table \cup {t} |-> IF k = t THEN plotIndex ELSE table[k]]

(* Island::UpdatePlotOnTileMap: the tile that now lies there leads to the plot,
   whatever it led to before. *)
UpdatePlotOnTileMap(sets, tm, plotIndex, l, c) ==
  LET p   == plots[plotIndex + 1]
      put == IF Len(p.frames) > 1
             THEN SetAnimatedTileIndex(tm, l, c, GetAnimationInfoFromPlot(sets, p))
             ELSE SetTileIndex(tm, l, c, TileMapIndex(sets, p.name), p.frames[1].index)
  IN  [put EXCEPT !.plotOfTile = WithEntry(@, put.layerTiles[l][c], plotIndex)]

CellRefreshed(sets, layers, tm, l, c) ==
  IF layers[l][c] = EmptyIndex THEN tm ELSE UpdatePlotOnTileMap(sets, tm, layers[l][c], l, c)

LayerRefreshed(sets, layers, tm, l) ==
  LET upTo[n \in 0..NumberOfCells] ==
        IF n = 0 THEN tm ELSE CellRefreshed(sets, layers, upTo[n - 1], l, CellAt(n - 1))
  IN  upTo[NumberOfCells]

RefreshTileSet(sets, layers) ==
  LET empty == [tiles |-> <<>>, plotOfTile |-> <<>>,
                layerTiles |-> [l \in DOMAIN layers |-> [c \in Cells |-> EmptyIndex]]]
      upTo[l \in 0..Len(layers)] ==
        IF l = 0 THEN empty ELSE LayerRefreshed(sets, layers, upTo[l - 1], l)
  IN  upTo[Len(layers)]

----------------------------------------------------------------------------
IslandsInit ==
  /\ plots \in PlotTables /\ file \in IslandFiles
  /\ grids = <<>> /\ tileSets = <<>> /\ tiles = <<>> /\ layerTiles = <<>> /\ plotOfTile = <<>>
  /\ client = "new" /\ viewport = 0

(* The server's Island::LoadFromJson, LoadFromBinary, with what they do for a
   layer. *)
ServerLoad ==
  /\ grids = <<>>
  /\ grids' = [l \in DOMAIN file.layers |->
                 IF file.json THEN ServerLayerFromJson(file.layers[l]) ELSE ServerLayerFromBinary(file.layers[l])]
  /\ UNCHANGED <<plots, file, tileSets, tiles, layerTiles, plotOfTile, client, viewport>>

(* The client's.  A picture that its tile set does not have fails the load;
   what was built is not used then. *)
ClientLoad(fails) ==
  /\ client = "new"
  /\ LET tm == RefreshTileSet(IndexedTileSets, BuildLayers)
     IN  /\ tileSets' = IndexedTileSets
         /\ tiles' = tm.tiles
         /\ layerTiles' = tm.layerTiles
         /\ plotOfTile' = tm.plotOfTile
  /\ client' = IF fails THEN "failed" ELSE "loaded"
  /\ UNCHANGED <<plots, file, grids, viewport>>

(* TileMap::Tick: the animated tiles go on by the time of a frame. *)
Ticked(tile, dt) ==
  LET n == Len(tile.frames)
  IN  IF n <= 1 THEN tile
      ELSE IF tile.time + dt <= tile.frames[tile.current].time THEN [tile EXCEPT !.time = @ + dt]
      ELSE [tile EXCEPT !.time = 0, !.current = IF @ + 1 > n THEN 1 ELSE @ + 1]

IslandTick ==
  /\ client = "loaded"
  /\ \E dt \in 1..MaxTime : tiles' = [i \in DOMAIN tiles |-> Ticked(tiles[i], dt)]
  /\ UNCHANGED <<plots, file, grids, tileSets, layerTiles, plotOfTile, client, viewport>>

(* The camera follows the character. *)
MoveCamera ==
  /\ client = "loaded"
  /\ viewport' \in (viewport - 1)..(viewport + 1)
  /\ viewport' >= -Pixels /\ viewport' < WidthInTiles * Pixels
  /\ UNCHANGED <<plots, file, grids, tileSets, tiles, layerTiles, plotOfTile, client>>

IslandsNext == ServerLoad \/ (\E fails \in BOOLEAN : ClientLoad(fails)) \/ IslandTick \/ MoveCamera

IslandsSpec == IslandsInit /\ [][IslandsNext]_islandVars

----------------------------------------------------------------------------
(* Which plot is at a cell: the topmost layer that is not empty there.  A
   position on the far edge of the island is taken for a cell beyond it; it is
   not looked at here. *)
Topmost(layers, c) ==
  LET full == {l \in DOMAIN layers : layers[l][c] # EmptyIndex}
  IN  IF full = {} THEN EmptyIndex ELSE layers[Max(full)][c]

ServerPlotIndexAt(c) == Topmost(grids, c)

(* Faulty variant: the lowest layer decides. *)
ClientPlotIndexBelow(c) ==
  LET full == {l \in DOMAIN layerTiles : layerTiles[l][c] # EmptyIndex}
  IN  IF full = {} THEN EmptyIndex ELSE plotOfTile[layerTiles[Min(full)][c]]

ClientPlotIndexAt(c) ==
  LET tile == Topmost(layerTiles, c) IN IF tile = EmptyIndex THEN EmptyIndex ELSE plotOfTile[tile]

(* Faulty variant: no column more than fit into the viewport. *)
ColumnsThatFit ==
  LET from  == Max({(viewport + Pixels) \div Pixels - 1, 0})
      width == Min({ViewportWidth \div Pixels, WidthInTiles})
  IN  from..(Min({from + width, WidthInTiles}) - 1)

(* Island::SetRenderBounds and TileMap::RenderLayer: the columns drawn. *)
ColumnsDrawn ==
  LET from  == Max({(viewport + Pixels) \div Pixels - 1, 0})
      width == Min({ViewportWidth \div Pixels + 1, WidthInTiles})
  IN  from..(Min({from + width, WidthInTiles}) - 1)

(* The picture a layer shows at a cell. *)
PictureAt(l, c) ==
  LET tile == tiles[layerTiles[l][c] + 1]
      frame == tile.frames[tile.current]
  IN  [set |-> tileSets[frame.set + 1], index |-> frame.index]

----------------------------------------------------------------------------
(* What the files must keep to, because pictures stand for plots: no two plots
   share the number of a picture; *)
Indexes(p) == {p.frames[i].index : i \in DOMAIN p.frames}

PicturesAreOwn == \A i, j \in DOMAIN plots : i # j => Indexes(plots[i]) \cap Indexes(plots[j]) = {}

(* no two plots share a name, and an animation uses the first tile set, whose
   name is no plot's; *)
TileSetsAreFound ==
  /\ \A i, j \in DOMAIN plots : i # j => plots[i].name # plots[j].name
  /\ \A i \in DOMAIN plots :
       Len(plots[i].frames) > 1 =>
         \A f \in DOMAIN plots[i].frames :
           /\ plots[i].frames[f].set = plots[1].frames[1].set
           /\ \A j \in DOMAIN plots : plots[j].name # plots[i].frames[f].set

(* a binary file has no other numbers than those of plots and -1; *)
PlotsAreInTable ==
  ~file.json => \A l \in DOMAIN file.layers, c \in Cells : file.layers[l].grid[c] \in -1..Len(plots)-1

(* and a layer of a JSON file has a default plot. *)
DefaultsAreGiven == file.json => \A l \in DOMAIN file.layers : file.layers[l].default # ""

(* Client and server decide alike where a character may go, although the client
   finds the plot through the picture that lies there: the two sides' plots
   forbid the same states at every cell, also while animations go on. *)
PlotsAgree ==
  PicturesAreOwn /\ PlotsAreInTable /\ DefaultsAreGiven /\ grids # <<>> /\ client = "loaded" =>
    \A c \in Cells :
      LET s == ServerPlotIndexAt(c)  k == ClientPlotIndexAt(c)
      IN  (s = EmptyIndex) = (k = EmptyIndex) /\ (s # EmptyIndex => plots[s + 1].forbids = plots[k + 1].forbids)

(* The player sees the plots the character walks on: every cell shows a
   picture of its plot, and no cell that is wholly in view is left out. *)
ShowsThePlots ==
  client = "loaded" =>
    /\ PicturesAreOwn /\ TileSetsAreFound /\ PlotsAreInTable =>
         \A l \in DOMAIN layerTiles, c \in Cells :
           layerTiles[l][c] # EmptyIndex =>
             \E f \in Range(plots[plotOfTile[layerTiles[l][c]] + 1].frames) :
               PictureAt(l, c) = [set |-> f.set, index |-> f.index]
    /\ \A x \in 0..WidthInTiles-1 :
         viewport <= x * Pixels /\ (x + 1) * Pixels <= viewport + ViewportWidth => x \in ColumnsDrawn
=============================================================================
