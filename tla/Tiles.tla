--------------------------------- MODULE Tiles ---------------------------------
(***************************************************************************)
(* How the entries of a range are fetched from a tile-based log:           *)
(* getTileIndex and GetEntriesByIndexRange of pkg/rekor/v2/client.go.  An  *)
(* entry bundle ("tile") holds TileWidth entries, the last one of a tree   *)
(* possibly fewer; an entry is fetched by fetching the bundle it is in.    *)
(***************************************************************************)
EXTENDS Integers

CONSTANT TileWidth    \* layout.TileWidth

ASSUME TileWidthAssumption == TileWidth \in Nat \ {0}

\* The bundle that holds the last entry of a tree of treeSize entries.  Go's
\* division rounds toward zero, so a size below 0 (a configured startIndex below
\* -1) is not put in the tile before the first but in tile 0.
getTileIndex(checkpointIndex) ==
  LET treeSize == checkpointIndex + 1
      fullTilesCount == IF treeSize >= 0 THEN treeSize \div TileWidth
                                         ELSE -((-treeSize) \div TileWidth)
  IN IF treeSize % TileWidth = 0 THEN fullTilesCount - 1 ELSE fullTilesCount

\* The indices getEntriesFromTile brings: the first width entries of the bundle,
\* all of them if width is 0.
getEntriesFromTile(tile, width) ==
  LET first == tile * TileWidth
  IN IF width = 0 THEN first..(first + TileWidth - 1)
                  ELSE first..(first + width - 1)

\* What is left to read of the tile the range starts in, if it ends in a later
\* one.  Go's remainder has the sign of the size: one of a size below 0 is not
\* positive.
StartTile(start, end) ==
  LET tile == getTileIndex(start)
      read == IF start >= 0 THEN (start + 1) % TileWidth ELSE 0
  IN IF tile < getTileIndex(end) /\ read > 0
     THEN {i \in getEntriesFromTile(tile, 0) : i >= tile * TileWidth + read}
     ELSE {}

\* The tiles strictly between the two.
FullTiles(start, end) ==
  UNION {getEntriesFromTile(t, 0) :
           t \in (getTileIndex(start) + 1)..(getTileIndex(end) - 1)}

\* Mutation: the width of the last tile is the index, not the size, modulo
\* TileWidth.
EndTile_Index(end) == getEntriesFromTile(getTileIndex(end), end % TileWidth)

\* All that the last tile has up to the end of the range.  The width is a uint8,
\* TileWidth is 2^8: a negative remainder is converted to the residue that % gives.
EndTile(end) == getEntriesFromTile(getTileIndex(end), (end + 1) % TileWidth)

\* The indices fetched for the range after start, up to end.
GetEntriesByIndexRange(start, end) ==
  IF start = end THEN {}
  ELSE StartTile(start, end) \cup FullTiles(start, end) \cup EndTile(end)
=============================================================================
