------------------------------ MODULE RekorV2Proofs -----------------------------
(***************************************************************************)
(* Theorems about RekorV2, for every number of shards, every log in them,  *)
(* every configuration and every tile width: which entries the tiles of a  *)
(* range bring, and what the monitor stores across the shard rotations.    *)
(***************************************************************************)
EXTENDS RekorV2, MonitorLoopProofs, FiniteSetTheorems, WellFoundedInduction

-----------------------------------------------------------------------------
(* The tiles of a range (pkg/rekor/v2/client.go).                           *)

\* Division with remainder, on which all of the tile arithmetic rests.
LEMMA DivMod ==
  \A n \in Int :
    /\ n \div TileWidth \in Int
    /\ n % TileWidth \in 0..(TileWidth - 1)
    /\ n = (n \div TileWidth) * TileWidth + (n % TileWidth)
BY TileWidthAssumption, SMT

\* A tile t holds the entries from t * TileWidth on and before the next tile.
LEMMA TileIsUnique ==
  \A n, t \in Int :
    t * TileWidth <= n /\ n < (t + 1) * TileWidth => t = n \div TileWidth
BY DivMod, TileWidthAssumption, SMT

\* An earlier entry is not in a later tile.
LEMMA TilesAreOrdered ==
  \A m, n \in Int : m <= n => m \div TileWidth <= n \div TileWidth
<1> SUFFICES ASSUME NEW m \in Int, NEW n \in Int, m <= n,
                    n \div TileWidth < m \div TileWidth
             PROVE  FALSE
  BY DivMod, SMT
<1> DEFINE a == m \div TileWidth
           b == n \div TileWidth
<1>1. /\ a \in Int /\ b \in Int
      /\ m >= a * TileWidth
      /\ n < b * TileWidth + TileWidth
  BY DivMod, TileWidthAssumption, SMT
<1>2. b + 1 <= a
  BY <1>1, SMT
<1> HIDE DEF a, b
<1>3. (b + 1) * TileWidth <= a * TileWidth
  BY <1>1, <1>2, TileWidthAssumption, SMT
<1>4. (b + 1) * TileWidth = b * TileWidth + TileWidth
  BY <1>1, TileWidthAssumption, SMT
<1> QED
  BY <1>1, <1>3, <1>4, TileWidthAssumption, SMT

\* getTileIndex finds the tile of the last entry, also when that tile is full, or
\* when there is no entry yet (-1).
LEMMA TileOfIndex ==
  \A n \in Int : n >= -1 => getTileIndex(n) = n \div TileWidth
<1> SUFFICES ASSUME NEW n \in Int, n >= -1
             PROVE  getTileIndex(n) = n \div TileWidth
  OBVIOUS
<1> DEFINE size == n + 1
           full == size \div TileWidth
           rest == size % TileWidth
<1>1. full \in Int /\ rest \in 0..(TileWidth - 1) /\ size = full * TileWidth + rest
  BY DivMod
<1>2. getTileIndex(n) = IF rest = 0 THEN full - 1 ELSE full
  <2>1. size >= 0
    OBVIOUS
  <2> QED  BY <2>1 DEF getTileIndex
<1>3. CASE rest = 0
  <2>1. (full - 1) * TileWidth <= n /\ n < ((full - 1) + 1) * TileWidth
    BY <1>1, <1>3, TileWidthAssumption, SMT
  <2> QED
    BY <1>1, <1>2, <1>3, <2>1, TileIsUnique
<1>4. CASE rest # 0
  <2>1. full * TileWidth <= n /\ n < (full + 1) * TileWidth
    BY <1>1, <1>4, TileWidthAssumption, SMT
  <2> QED
    BY <1>1, <1>2, <1>4, <2>1, TileIsUnique
<1> QED
  BY <1>3, <1>4

\* What the last tile gives ends at the end of the range: the partial width asked
\* for is 0, for a full tile, only if the range ends with the tile.
LEMMA EndTileIs ==
  \A end \in Int :
    end >= -1 => EndTile(end) = ((end \div TileWidth) * TileWidth)..end
<1> SUFFICES ASSUME NEW end \in Int, end >= -1
             PROVE  EndTile(end) = ((end \div TileWidth) * TileWidth)..end
  OBVIOUS
<1> DEFINE t == end \div TileWidth
           width == (end + 1) % TileWidth
<1>1. t \in Int /\ t * TileWidth <= end /\ end < t * TileWidth + TileWidth
  BY DivMod, TileWidthAssumption, SMT
<1>2. width \in 0..(TileWidth - 1)
  BY DivMod
<1>3. width = 0 => end = t * TileWidth + TileWidth - 1
  <2> SUFFICES ASSUME width = 0
               PROVE  end = t * TileWidth + TileWidth - 1
    OBVIOUS
  <2> DEFINE u == (end + 1) \div TileWidth
  <2>0. u \in Int /\ end + 1 = u * TileWidth + width
    BY DivMod
  <2>1. u \in Int /\ end + 1 = u * TileWidth
    <3> HIDE DEF u, width
    <3> QED
      BY <2>0, TileWidthAssumption, SMT
  <2>2. (u - 1) * TileWidth <= end /\ end < ((u - 1) + 1) * TileWidth
    BY <2>1, TileWidthAssumption, SMT
  <2>3. u - 1 = t
    BY <2>1, <2>2, TileIsUnique
  <2> HIDE DEF t, u
  <2> QED
    BY <1>1, <2>1, <2>3, TileWidthAssumption, SMT
<1>4. width # 0 => end = t * TileWidth + width - 1
  <2> SUFFICES ASSUME width # 0
               PROVE  end = t * TileWidth + width - 1
    OBVIOUS
  <2> DEFINE u == (end + 1) \div TileWidth
  <2>1. u \in Int /\ end + 1 = u * TileWidth + width
    BY DivMod
  <2>2. u * TileWidth <= end /\ end < (u + 1) * TileWidth
    BY <1>2, <2>1, TileWidthAssumption, SMT
  <2>3. u = t
    BY <2>1, <2>2, TileIsUnique
  <2> HIDE DEF t, u, width
  <2> QED
    BY <2>1, <2>3, <1>1, <1>2, TileWidthAssumption, SMT
<1>5. EndTile(end) = getEntriesFromTile(t, width)
  BY TileOfIndex DEF EndTile
<1> HIDE DEF t, width
<1> QED
  BY <1>1, <1>2, <1>3, <1>4, <1>5, TileWidthAssumption, SMT
     DEF getEntriesFromTile, t

\* No entry of a range is left out: what is left of the tile the range starts in,
\* the full tiles and the last tile cover it without a hole, wherever the range
\* starts and ends in its tiles (RekorV2's search gets every entry after startIndex
\* up to endIndex, however many tiles they span).  It holds from -1, the place
\* before the first entry: the range after -2 leaves the first tile out.
THEOREM RangeIsFetched ==
  ASSUME NEW start \in Int, NEW end \in Int, -1 <= start, start < end
  PROVE  (start + 1)..end \subseteq GetEntriesByIndexRange(start, end)
<1> SUFFICES ASSUME NEW i \in Int, start < i, i <= end
             PROVE  i \in GetEntriesByIndexRange(start, end)
  BY SMT
<1> DEFINE a == start \div TileWidth
           k == i \div TileWidth
           b == end \div TileWidth
<1>1. /\ a \in Int /\ k \in Int /\ b \in Int
      /\ a <= k /\ k <= b
  BY DivMod, TilesAreOrdered
<1>2. k * TileWidth <= i /\ i < k * TileWidth + TileWidth
  BY DivMod, TileWidthAssumption, SMT
<1>3. getTileIndex(start) = a /\ getTileIndex(end) = b
  BY TileOfIndex
<1>4. CASE k = b
  <2>1. EndTile(end) = (b * TileWidth)..end
    BY EndTileIs
  <2>2. i \in EndTile(end)
    <3> HIDE DEF b, k
    <3> QED
      BY <1>1, <1>2, <1>4, <2>1, TileWidthAssumption, SMT
  <2> QED
    BY <2>2, SMT DEF GetEntriesByIndexRange
<1>5. CASE a < k /\ k < b
  <2>1. i \in getEntriesFromTile(k, 0)
    <3> HIDE DEF k
    <3> QED
      BY <1>1, <1>2, TileWidthAssumption, SMT DEF getEntriesFromTile
  <2>2. k \in (a + 1)..(b - 1)
    BY <1>1, <1>5, SMT
  <2>3. i \in FullTiles(start, end)
    BY <1>3, <2>1, <2>2 DEF FullTiles
  <2> QED
    BY <2>3, SMT DEF GetEntriesByIndexRange
<1>6. CASE a = k /\ k < b
  <2> DEFINE read == (start + 1) % TileWidth
  <2>1. a * TileWidth <= start
    BY DivMod, TileWidthAssumption, SMT
  <2>2. read = start + 1 - a * TileWidth
    <3> DEFINE u == (start + 1) \div TileWidth
    <3>1. a = u
      <4> HIDE DEF a, k
      <4>1. a * TileWidth <= start + 1 /\ start + 1 < (a + 1) * TileWidth
        BY <1>1, <1>2, <1>6, <2>1, TileWidthAssumption, SMT
      <4> QED
        BY <1>1, <4>1, TileIsUnique
    <3>2. start + 1 = u * TileWidth + read /\ read \in 0..(TileWidth - 1)
      BY DivMod
    <3> HIDE DEF a, u, read
    <3> QED
      BY <1>1, <3>1, <3>2, TileWidthAssumption, SMT
  <2>3. read > 0 /\ i >= a * TileWidth + read
    <3> HIDE DEF a, read
    <3> QED
      BY <1>1, <2>1, <2>2, TileWidthAssumption, SMT
  <2>4. start >= 0
    <3> HIDE DEF a, k
    <3>1. (a + 1) * TileWidth > 0
      BY <1>1, <1>2, <1>6, TileWidthAssumption, SMT
    <3>2. a + 1 > 0
      BY <1>1, <3>1, TileWidthAssumption, SMT
    <3>3. a * TileWidth >= 0
      BY <1>1, <3>2, TileWidthAssumption, SMT
    <3> QED
      BY <1>1, <2>1, <3>3, TileWidthAssumption, SMT
  <2>5. i \in getEntriesFromTile(a, 0)
    <3> HIDE DEF a, k
    <3> QED
      BY <1>1, <1>2, <1>6, TileWidthAssumption, SMT DEF getEntriesFromTile
  <2>6. i \in StartTile(start, end)
    <3> HIDE DEF a, b
    <3> QED
      BY <1>3, <1>6, <2>3, <2>4, <2>5, SMT DEF StartTile, a, b
  <2> QED
    BY <2>6, SMT DEF GetEntriesByIndexRange
<1> HIDE DEF a, b, k
<1> QED
  BY <1>1, <1>4, <1>5, <1>6, SMT

\* Nothing after the end of the range is fetched, nor anything before the tile the
\* range starts in: what the search fetches a second time is at most that tile.
THEOREM FetchStaysInTiles ==
  ASSUME NEW start \in Int, NEW end \in Int, -1 <= start, start < end,
         NEW i \in GetEntriesByIndexRange(start, end)
  PROVE  (start \div TileWidth) * TileWidth <= i /\ i <= end
<1> DEFINE a == start \div TileWidth
           b == end \div TileWidth
<1>1. /\ a \in Int /\ b \in Int /\ a <= b
      /\ getTileIndex(start) = a /\ getTileIndex(end) = b
  BY DivMod, TilesAreOrdered, TileOfIndex
<1>2. b * TileWidth <= end
  BY DivMod, TileWidthAssumption, SMT
<1>3. a * TileWidth <= b * TileWidth
  <2> HIDE DEF a, b
  <2> QED
    BY <1>1, TileWidthAssumption, SMT
<1>4. CASE i \in EndTile(end)
  <2>1. i \in (b * TileWidth)..end
    <3>1. end >= -1
      OBVIOUS
    <3> QED
      BY <1>4, <3>1, EndTileIs
  <2>2. a * TileWidth <= i /\ i <= end
    <3> HIDE DEF a, b
    <3> QED
      BY <1>1, <1>3, <2>1, TileWidthAssumption, SMT
  <2> QED
    BY <2>2
<1>5. ASSUME NEW t \in Int, a <= t, t < b, i \in getEntriesFromTile(t, 0)
      PROVE  a * TileWidth <= i /\ i <= end
  <2> HIDE DEF a, b
  <2>1. t * TileWidth <= i /\ i < t * TileWidth + TileWidth /\ i \in Int
    BY <1>5, TileWidthAssumption, SMT DEF getEntriesFromTile
  <2>2. a * TileWidth <= t * TileWidth
    BY <1>1, <1>5, TileWidthAssumption, SMT
  <2>3. (t + 1) * TileWidth <= b * TileWidth
    BY <1>1, <1>5, TileWidthAssumption, SMT
  <2>4. (t + 1) * TileWidth = t * TileWidth + TileWidth
    BY <1>5, TileWidthAssumption, SMT
  <2> QED
    BY <1>1, <1>2, <2>1, <2>2, <2>3, <2>4, TileWidthAssumption, SMT
<1>6. CASE i \in StartTile(start, end)
  <2>1. i \in getEntriesFromTile(a, 0) /\ a < b
    BY <1>1, <1>6 DEF StartTile
  <2> QED
    BY <1>1, <1>5, <2>1
<1>7. CASE i \in FullTiles(start, end)
  <2>1. PICK t \in (a + 1)..(b - 1) : i \in getEntriesFromTile(t, 0)
    BY <1>1, <1>7 DEF FullTiles
  <2>2. t \in Int /\ a <= t /\ t < b
    BY <1>1, <2>1, SMT
  <2> QED
    BY <1>5, <2>1, <2>2
<1> QED
  BY <1>4, <1>6, <1>7, SMT DEF GetEntriesByIndexRange

-----------------------------------------------------------------------------
(* The shards.                                                             *)

\* Shards can be counted, however many there will be.
LEMMA ShardsAreFinite ==
  ASSUME NEW shards \in SUBSET Shards
  PROVE  IsFiniteSet(shards) /\ shards \subseteq Int
<1>1. 1 \in Int /\ MaxShards \in Int
  BY V2Assumption
<1>2. IsFiniteSet(Shards)
  BY <1>1, FS_Interval DEF Shards
<1>3. IsFiniteSet(shards)
  BY <1>2, FS_Subset
<1>4. shards \subseteq Int
  BY <1>1 DEF Shards
<1> QED  BY <1>3, <1>4

\* Of sets of shards, some one has no other strictly within it.
LEMMA SmallestSet ==
  ASSUME NEW sets \in SUBSET (SUBSET Shards), sets # {}
  PROVE  \E S \in sets : \A T \in sets : ~(T \subseteq S /\ T # S)
<1>1. sets \subseteq FiniteSubsetsOf(Shards)
  BY ShardsAreFinite DEF FiniteSubsetsOf
<1>2. PICK S \in sets : \A T \in sets : ~(<<T, S>> \in StrictSubsetOrdering(Shards))
  BY <1>1, WFMin, FS_StrictSubsetOrderingWellFounded
<1>3. ASSUME NEW T \in sets, T \subseteq S, T # S
      PROVE  FALSE
  <2>1. <<T, S>> \in FiniteSubsetsOf(Shards) \X FiniteSubsetsOf(Shards)
    BY <1>1
  <2>2. <<T, S>> \in StrictSubsetOrdering(Shards)
    BY <1>3, <2>1 DEF StrictSubsetOrdering
  <2> QED  BY <1>2, <2>2
<1> QED  BY <1>3

\* A set of shards has a newest one.
LEMMA NewestShard ==
  ASSUME NEW shards \in SUBSET Shards, shards # {}
  PROVE  Newest(shards) \in shards /\ \A s \in shards : s <= Newest(shards)
<1> DEFINE Newer(s) == {r \in shards : r > s}
           sets == {Newer(s) : s \in shards}
<1>1. shards \subseteq Int
  BY ShardsAreFinite
<1>2. \E S \in sets : \A T \in sets : ~(T \subseteq S /\ T # S)
  <2>1. sets \in SUBSET (SUBSET Shards) /\ sets # {}
    OBVIOUS
  <2> HIDE DEF sets
  <2> QED  BY <2>1, SmallestSet
<1>3. PICK s \in shards :
             \A r \in shards : ~(Newer(r) \subseteq Newer(s) /\ Newer(r) # Newer(s))
  <2>1. PICK S \in sets : \A T \in sets : ~(T \subseteq S /\ T # S)
    BY <1>2
  <2>2. PICK s \in shards : S = Newer(s)
    OBVIOUS
  <2>3. ASSUME NEW r \in shards PROVE Newer(r) \in sets
    OBVIOUS
  <2> HIDE DEF sets, Newer
  <2> QED  BY <2>1, <2>2, <2>3
<1>4. ASSUME NEW r \in shards, r > s PROVE FALSE
  <2>1. r \in Int /\ s \in Int /\ \A q \in shards : q \in Int
    BY <1>1
  <2>2. ASSUME NEW q \in Newer(r) PROVE q \in Newer(s)
    BY <1>4, <2>1
  <2>3. r \in Newer(s) /\ r \notin Newer(r)
    BY <1>4, <2>1
  <2> HIDE DEF Newer
  <2> QED  BY <1>3, <2>2, <2>3
<1>5. \E x \in shards : \A y \in shards : x >= y
  BY <1>1, <1>4
<1>6. Newest(shards) \in shards /\ \A y \in shards : Newest(shards) >= y
  BY <1>5 DEF Newest, Max
<1> QED  BY <1>1, <1>6

\* And an oldest one.
LEMMA OldestShard ==
  ASSUME NEW shards \in SUBSET Shards, shards # {}
  PROVE  Min(shards) \in shards /\ \A s \in shards : Min(shards) <= s
<1> DEFINE Older(s) == {r \in shards : r < s}
           sets == {Older(s) : s \in shards}
<1>1. shards \subseteq Int
  BY ShardsAreFinite
<1>2. \E S \in sets : \A T \in sets : ~(T \subseteq S /\ T # S)
  <2>1. sets \in SUBSET (SUBSET Shards) /\ sets # {}
    OBVIOUS
  <2> HIDE DEF sets
  <2> QED  BY <2>1, SmallestSet
<1>3. PICK s \in shards :
             \A r \in shards : ~(Older(r) \subseteq Older(s) /\ Older(r) # Older(s))
  <2>1. PICK S \in sets : \A T \in sets : ~(T \subseteq S /\ T # S)
    BY <1>2
  <2>2. PICK s \in shards : S = Older(s)
    OBVIOUS
  <2>3. ASSUME NEW r \in shards PROVE Older(r) \in sets
    OBVIOUS
  <2> HIDE DEF sets, Older
  <2> QED  BY <2>1, <2>2, <2>3
<1>4. ASSUME NEW r \in shards, r < s PROVE FALSE
  <2>1. r \in Int /\ s \in Int /\ \A q \in shards : q \in Int
    BY <1>1
  <2>2. ASSUME NEW q \in Older(r) PROVE q \in Older(s)
    BY <1>4, <2>1
  <2>3. r \in Older(s) /\ r \notin Older(r)
    BY <1>4, <2>1
  <2> HIDE DEF Older
  <2> QED  BY <1>3, <2>2, <2>3
<1>5. \E x \in shards : \A y \in shards : x =< y
  BY <1>1, <1>4
<1> QED  BY <1>5 DEF Min

\* RefreshShards leaves the check with the shards that are listed now: comparing
\* their number and looking each new one up tells any two sets of shards apart.
LEMMA CheckedAreListed ==
  ASSUME NEW shards \in SUBSET Shards, NEW now \in SUBSET Shards,
         ~ShardsNeedUpdating(shards, now)
  PROVE  shards = now
<1>1. IsFiniteSet(Shards)
  BY V2Assumption, FS_Interval DEF Shards
<1>2. now \subseteq shards /\ Cardinality(shards) = Cardinality(now)
  BY DEF ShardsNeedUpdating
<1> QED  BY <1>1, <1>2, FS_Subset

-----------------------------------------------------------------------------
(* Types.                                                                  *)

ShardsOK ==
  /\ trees \in [Shards -> Seq(Entries)]
  /\ listed \in (SUBSET Shards) \ {{}}
  /\ rekorShards \in SUBSET Shards
  /\ Running => rekorShards # {}

FilesOK ==
  /\ file \in Checkpoint \cup {EmptyFile}
  /\ recorded \subseteq Shards \X Index
  /\ latestIndex \in OptionalIndex

HistoryOK ==
  /\ searched \subseteq Shards \X Index
  /\ waived \subseteq Shards \X Index
  /\ delivered \subseteq Reports
  /\ anchor \in Checkpoint \cup {NoCheckpoint}

\* The loop, and what it hands to the calls it makes.
LoopOK ==
  /\ LoopTypeOK(Checkpoint)
  /\ pc \in {"search", "notify"} =>
       startIndex \in Int /\ endIndex \in Int /\ startIndex <= endIndex
  /\ pc \in {"search", "notify", "write"} => curCheckpoint \in Checkpoint
  /\ pc = "notify" => outbox # <<>>

Shape == LoopOK /\ ShardsOK /\ FilesOK /\ HistoryOK

BooleansOK == LoopBooleansOK /\ rewritten \in BOOLEAN

\* The steps that end the process.
Ends ==
  \/ Crash
  \/ GracefulExit
  \/ StartAfterEnd
  \/ ShardMissing
  \/ FetchFails
  \/ IdentitySearchFails
  \/ NotifyFails
  \/ WriteCheckpointFails

\* They forget the round; a search that fails at its files may leave some of its
\* matches there.
LEMMA EndForgets ==
  ASSUME Ends
  PROVE  /\ LoopReturns
         /\ UNCHANGED <<shardVars, file, latestIndex, waived, delivered, anchor,
                        rewritten>>
         /\ \E written \in SUBSET MatchedIndices(Matching) :
              recorded' = recorded \cup EntriesOf(SearchedShard, written)
         /\ searched \subseteq searched'
         /\ UNCHANGED <<recorded, searched>> \/ IdentitySearchFails
<1>1. recorded = recorded \cup EntriesOf(SearchedShard, {})
  BY DEF EntriesOf
<1>2. CASE IdentitySearchFails
  BY <1>2 DEF IdentitySearchFails
<1>3. CASE Crash \/ GracefulExit \/ StartAfterEnd \/ ShardMissing \/ FetchFails
             \/ NotifyFails \/ WriteCheckpointFails
  BY <1>1, <1>3 DEF Crash, ProcessDies, GracefulExit, Shutdown, StartAfterEnd,
     CheckRefusesRange, ShardMissing, FetchFails, NotifyFails, SendFails,
     WriteCheckpointFails, files, history
<1> QED  BY <1>2, <1>3 DEF Ends

\* Every step is one of these.
LEMMA NextSorts ==
  ASSUME [Next]_vars
  PROVE  \/ LogAppends
         \/ LogRewrites
         \/ ShardAdded
         \/ ShardRemoved
         \/ Start
         \/ Ends /\ ShardsKept
         \/ Signal /\ ShardsKept
         \/ NextRound /\ ShardsKept
         \/ ConsistencyFails /\ ShardsKept
         \/ RunConsistencyCheck /\ ShardsKept
         \/ IdentitySearch /\ ShardsKept
         \/ Notify /\ ShardsKept
         \/ WriteCheckpoint /\ ShardsKept
         \/ UNCHANGED vars
  BY DEF Next, ProcessNext, Ends

\* A monitor that never ran, beside an empty first shard.
LEMMA InitShape == Init => Shape
<1> SUFFICES ASSUME Init PROVE Shape
  OBVIOUS
<1>1. LoopOK
  BY EmptySeq DEF Init, LoopInit, LoopOK, LoopTypeOK, PCs, OptionalIndex
<1>2. trees \in [Shards -> Seq(Entries)]
  BY EmptySeq DEF Init
<1>3. listed \in (SUBSET Shards) \ {{}}
  BY V2Assumption DEF Init, Shards
<1>4. ShardsOK
  BY <1>2, <1>3 DEF Init, LoopInit, ShardsOK, Running
<1> QED
  BY <1>1, <1>4 DEF Init, Shape, FilesOK, HistoryOK, OptionalIndex

\* A shard stays a sequence of entries, and the list of shards a list.
LEMMA ShardsChange ==
  ASSUME ShardsOK, LogAppends \/ LogRewrites \/ ShardAdded \/ ShardRemoved
  PROVE  ShardsOK'
<1>1. UNCHANGED <<rekorShards, pc>>
  BY DEF LogAppends, LogRewrites, ShardAdded, ShardRemoved, loopVars
<1>2. CASE LogAppends
  <2>1. PICK s \in listed, e \in Entries : trees' = [trees EXCEPT ![s] = Append(@, e)]
    BY <1>2 DEF LogAppends
  <2>2. Append(trees[s], e) \in Seq(Entries)
    BY AppendProperties DEF ShardsOK
  <2>3. listed' = listed
    BY <1>2 DEF LogAppends
  <2> QED  BY <1>1, <2>1, <2>2, <2>3 DEF ShardsOK, Running
<1>3. CASE LogRewrites
  <2>1. PICK s \in listed :
          /\ trees[s] # <<>>
          /\ \/ trees' = [trees EXCEPT ![s] = Front(@)]
             \/ \E e \in Entries : trees' = [trees EXCEPT ![s] = Append(Front(@), e)]
    BY <1>3 DEF LogRewrites
  <2>2. trees[s] \in Seq(Entries)
    BY DEF ShardsOK
  <2>3. Front(trees[s]) \in Seq(Entries)
    <3>1. \A i \in 1..(Len(trees[s]) - 1) : trees[s][i] \in Entries
      BY <2>2, LenProperties, ElementOfSeq
    <3> QED  BY <2>2, <3>1, SubSeqProperties, LenProperties DEF Front
  <2>4. \A e \in Entries : Append(Front(trees[s]), e) \in Seq(Entries)
    BY <2>3, AppendProperties
  <2>5. listed' = listed
    BY <1>3 DEF LogRewrites
  <2> QED  BY <1>1, <2>1, <2>3, <2>4, <2>5 DEF ShardsOK, Running
<1>4. CASE ShardAdded
  <2>1. Newest(listed) \in Shards
    BY NewestShard DEF ShardsOK
  <2>2. listed' = listed \cup {Newest(listed) + 1} /\ Newest(listed) < MaxShards
        /\ trees' = trees
    BY <1>4 DEF ShardAdded
  <2>3. Newest(listed) + 1 \in Shards
    BY <2>1, <2>2, V2Assumption DEF Shards
  <2> QED  BY <1>1, <2>2, <2>3 DEF ShardsOK, Running
<1>5. CASE ShardRemoved
  <2>1. Min(listed) \in listed
    BY OldestShard DEF ShardsOK
  <2>2. listed' = listed \ {Min(listed)} /\ Cardinality(listed) > 1 /\ trees' = trees
    BY <1>5 DEF ShardRemoved
  <2>3. listed' # {}
    <3>1. ASSUME listed' = {} PROVE FALSE
      <4>1. listed = {Min(listed)}
        BY <2>1, <2>2, <3>1
      <4>2. Cardinality(listed) = 1
        BY <4>1, FS_Singleton
      <4> QED  BY <2>2, <4>2
    <3> QED  BY <3>1
  <2> QED  BY <1>1, <2>2, <2>3 DEF ShardsOK, Running
<1> QED  BY <1>2, <1>3, <1>4, <1>5

\* What a search reports is what it fetched.
LEMMA MatchedAreFetched ==
  ASSUME Shape, Running, Fetched \subseteq 0..(Len(trees[SearchedShard]) - 1)
  PROVE  /\ SearchedShard \in Shards
         /\ Fetched \subseteq Int
         /\ \A kinds : MatchedIndices(kinds) \subseteq Fetched
<1>1. SearchedShard \in Shards
  BY NewestShard DEF Shape, ShardsOK, SearchedShard
<1>2. Len(trees[SearchedShard]) \in Nat
  BY <1>1, LenProperties DEF Shape, ShardsOK
<1>3. Fetched \subseteq Int
  BY <1>2
<1>4. \A kinds : MatchedIndices(kinds) \subseteq Fetched
  BY DEF MatchedIndices
<1> QED  BY <1>1, <1>3, <1>4

\* A process that ends keeps the files and the shards in order.
LEMMA EndShape ==
  ASSUME Shape, Ends, ShardsKept
  PROVE  Shape'
<1>1. LoopReturns /\ UNCHANGED <<trees, listed, file, latestIndex, waived, delivered,
                                 anchor>>
  BY EndForgets DEF shardVars
<1>2. LoopOK'
  BY <1>1, EmptySeq DEF Shape, LoopOK, LoopTypeOK, LoopReturns, Forget, PCs,
     OptionalIndex
<1>3. ShardsOK'
  BY <1>1 DEF Shape, ShardsOK, LoopReturns, ShardsKept, Running
<1>4. recorded' \subseteq Shards \X Index /\ searched' \subseteq Shards \X Index
  <2>1. CASE IdentitySearchFails
    <3>1. pc = "search" /\ Fetched \subseteq 0..(Len(trees[SearchedShard]) - 1)
      BY <2>1 DEF IdentitySearchFails, Fetchable
    <3>2. /\ SearchedShard \in Shards /\ MatchedIndices(Matching) \subseteq Index
          /\ Fetched \subseteq Index
      BY <3>1, MatchedAreFetched DEF Running, Index
    <3>3. PICK written \in SUBSET MatchedIndices(Matching) :
            recorded' = recorded \cup EntriesOf(SearchedShard, written)
      BY EndForgets
    <3>4. searched' = searched \cup EntriesOf(SearchedShard, Fetched)
      BY <2>1 DEF IdentitySearchFails
    <3> QED  BY <3>2, <3>3, <3>4 DEF EntriesOf, Shape, FilesOK, HistoryOK
  <2>2. CASE UNCHANGED <<recorded, searched>>
    BY <2>2 DEF Shape, FilesOK, HistoryOK
  <2> QED  BY <2>1, <2>2, EndForgets
<1> QED  BY <1>1, <1>2, <1>3, <1>4 DEF Shape, FilesOK, HistoryOK

\* So does a step that leaves them alone, and does not end the process.
LEMMA RestKept ==
  ASSUME Shape, UNCHANGED <<shardVars, rekorShards, file, recorded, latestIndex,
                            searched, waived, delivered, anchor>>,
         pc # "down"
  PROVE  ShardsOK' /\ FilesOK' /\ HistoryOK'
  BY DEF Shape, ShardsOK, FilesOK, HistoryOK, shardVars, Running

\* What a shard serves is a checkpoint, and the check works on the listed shards.
LEMMA LatestIsListed ==
  ASSUME ShardsOK
  PROVE  /\ CheckedShards = listed
         /\ Newest(listed) \in listed /\ \A s \in listed : s <= Newest(listed)
         /\ Newest(listed) \in Shards
         /\ Latest \in Checkpoint /\ Latest.origin = Newest(listed)
         /\ Latest.tree = trees[Newest(listed)]
<1>1. CheckedShards = listed
  BY CheckedAreListed DEF ShardsOK, CheckedShards
<1>2. /\ Newest(listed) \in listed /\ \A s \in listed : s <= Newest(listed)
      /\ Newest(listed) \in Shards
  BY NewestShard DEF ShardsOK
<1>3. Latest = [origin |-> Newest(listed), tree |-> trees[Newest(listed)]]
  BY <1>1 DEF Latest, Served
<1>4. trees[Newest(listed)] \in Seq(Entries)
  BY <1>2 DEF ShardsOK
<1> QED  BY <1>1, <1>2, <1>3, <1>4 DEF Checkpoint

\* A checkpoint has a size.
LEMMA SizeType ==
  ASSUME NEW c \in Checkpoint
  PROVE  Size(c) \in Nat /\ c.tree \in Seq(Entries) /\ c.origin \in Shards
  BY LenProperties DEF Checkpoint, Size

\* A check that passes hands the search a range.
LEMMA CheckShape ==
  ASSUME Shape, RunConsistencyCheck, ShardsKept
  PROVE  Shape'
<1>1. /\ pc = "check" /\ pc' \in {"write", "search"}
      /\ CheckPasses(Stored, Latest, GetStartIndex(Stored), GetEndIndex(Latest))
      /\ waived' = waived \cup SteppedOver(Stored, Latest)
      /\ UNCHANGED <<trees, listed, rekorShards, file, recorded, latestIndex, searched,
                     delivered, anchor>>
  BY DEF RunConsistencyCheck, CheckPasses, ShardsKept, shardVars, files
<1>2. Latest \in Checkpoint /\ Stored \in Checkpoint \cup {NoCheckpoint}
  BY LatestIsListed DEF Shape, FilesOK, Stored
<1>3. /\ GetEndIndex(Latest) \in OptionalIndex
      /\ Stored # NoCheckpoint => GetStartIndex(Stored) \in OptionalIndex
  BY <1>2, SizeType DEF GetEndIndex, GetStartIndex, OptionalIndex, Index
<1>4. LoopOK'
  <2> DEFINE from == RangeStart(Stored, GetStartIndex(Stored))
             to   == RangeEnd(GetEndIndex(Latest))
  <2>1. from \in OptionalIndex /\ to \in OptionalIndex
    BY <1>3 DEF RangeStart, RangeEnd, Shape, LoopOK, LoopTypeOK
  <2>2. /\ pc' = "write" => startIndex' \in OptionalIndex /\ endIndex' \in OptionalIndex
        /\ pc' = "search" => startIndex' \in Int /\ endIndex' \in Int
                             /\ startIndex' <= endIndex'
    BY <1>1, <2>1 DEF CheckPasses, OptionalIndex, Index, Shape, LoopOK, LoopTypeOK
  <2>3. /\ prevCheckpoint' = Stored /\ curCheckpoint' = Latest
        /\ UNCHANGED <<flags, inputEndIndex, found, failed, outbox>>
    BY <1>1 DEF CheckPasses
  <2> HIDE DEF from, to
  <2> QED
    BY <1>1, <1>2, <2>2, <2>3 DEF Shape, LoopOK, LoopTypeOK, PCs, OptionalIndex, Index
<1>5. SteppedOver(Stored, Latest) \subseteq Shards \X Index
  <2>1. Latest.origin \in Shards
    BY <1>2, SizeType
  <2> QED  BY <2>1 DEF SteppedOver, EntriesOf, Index
<1> QED
  BY <1>1, <1>4, <1>5 DEF Shape, ShardsOK, FilesOK, HistoryOK, Running

\* A search reports indices of the shard it searched.
LEMMA SearchShape ==
  ASSUME Shape, IdentitySearch, ShardsKept
  PROVE  Shape'
<1>1. /\ pc = "search" /\ Fetched \subseteq 0..(Len(trees[SearchedShard]) - 1)
      /\ SearchReturns(MatchedIndices(Matching), MatchedIndices(Unreadable))
      /\ recorded' = recorded \cup EntriesOf(SearchedShard, MatchedIndices(Matching))
      /\ latestIndex' = endIndex
      /\ searched' = searched \cup EntriesOf(SearchedShard, Fetched)
      /\ UNCHANGED <<trees, listed, file, waived, delivered, anchor>>
  BY DEF IdentitySearch, Fetchable, shardVars
<1>2. /\ SearchedShard \in Shards /\ Fetched \subseteq Int
      /\ \A kinds : MatchedIndices(kinds) \subseteq Fetched
  BY <1>1, MatchedAreFetched DEF Running
<1>3. MatchedIndices(Matching) \subseteq Int /\ MatchedIndices(Unreadable) \subseteq Int
  BY <1>2
<1>4. pc' \in {"notify", "write"} /\ rekorShards' = rekorShards
  BY <1>1 DEF SearchReturns, ShardsKept
<1>5. LoopOK'
  BY <1>1, <1>3, ToSendType DEF SearchReturns, Advance, Shape, LoopOK, LoopTypeOK, PCs,
     OptionalIndex, Index
<1>6. FilesOK' /\ HistoryOK'
  <2>1. endIndex \in Int
    BY <1>1 DEF Shape, LoopOK
  <2> QED
    BY <1>1, <1>2, <1>3, <2>1 DEF Shape, FilesOK, HistoryOK, EntriesOf, OptionalIndex,
       Index
<1> QED
  BY <1>1, <1>4, <1>5, <1>6 DEF Shape, ShardsOK, Running

\* A Send leaves one Send less, and what it carried is accepted.
LEMMA NotifyShape ==
  ASSUME Shape, Notify, ShardsKept
  PROVE  Shape'
<1>1. /\ pc = "notify" /\ outbox' = Tail(outbox)
      /\ \/ pc' = "write" /\ startIndex' = endIndex /\ endIndex' = NoIndex
         \/ Len(outbox) # 1 /\ UNCHANGED <<pc, startIndex, endIndex>>
      /\ UNCHANGED <<flags, inputEndIndex, prevCheckpoint, curCheckpoint, found, failed,
                     shardVars, file, recorded, latestIndex, searched, waived, anchor>>
  BY DEF Notify, SendSucceeds, Advance, files
<1>2. rekorShards' = rekorShards
  BY <1>1 DEF ShardsKept
<1>3. /\ outbox' \in Seq(Sends)
      /\ Len(outbox) # 1 => outbox' # <<>>
      /\ Head(outbox) \in Sends
  <2>1. outbox \in Seq(Sends) /\ outbox # <<>>
    BY <1>1 DEF Shape, LoopOK, LoopTypeOK
  <2>2. Len(outbox) \in Nat \ {0} /\ Len(<<>>) = 0
    BY <2>1, EmptySeq
  <2>3. Len(Tail(outbox)) = Len(outbox) - 1 /\ Tail(outbox) \in Seq(Sends)
        /\ Head(outbox) \in Sends
    BY <2>1, HeadTailProperties
  <2> QED  BY <1>1, <2>2, <2>3
<1>4. LoopOK'
  BY <1>1, <1>3 DEF Shape, LoopOK, LoopTypeOK, PCs, OptionalIndex, Index
<1>5. delivered' \subseteq Reports
  <2> DEFINE send == Head(outbox)
  <2>1. delivered' = delivered \cup
          {<<send.payload, send.platform, e>> :
             e \in EntriesOf(SearchedShard, Reported(send))}
    BY DEF Notify
  <2>2. SearchedShard \in Shards
    BY <1>1, NewestShard DEF Shape, ShardsOK, SearchedShard, Running
  <2>3. Reported(send) \subseteq Index
    BY DEF Reported, Shape, LoopOK, LoopTypeOK
  <2>4. send.payload \in Payloads /\ send.platform \in STRING
    BY <1>3 DEF Sends
  <2> HIDE DEF send
  <2>5. ASSUME NEW e \in EntriesOf(SearchedShard, Reported(send))
        PROVE  <<send.payload, send.platform, e>> \in Reports
    <3>1. e \in Shards \X Index
      BY <2>2, <2>3 DEF EntriesOf
    <3> QED  BY <2>4, <3>1 DEF Reports
  <2> QED  BY <2>1, <2>5 DEF Shape, HistoryOK
<1>6. ShardsOK' /\ FilesOK' /\ HistoryOK'
  BY <1>1, <1>2, <1>5 DEF Shape, ShardsOK, FilesOK, HistoryOK, shardVars, Running
<1> QED  BY <1>4, <1>6 DEF Shape

\* A round either ends the process or waits.
LEMMA WriteShape ==
  ASSUME Shape, WriteCheckpoint, ShardsKept
  PROVE  Shape'
<1>1. /\ pc = "write" /\ curCheckpoint \in Checkpoint
      /\ file' \in {file, curCheckpoint} /\ anchor' \in {anchor, curCheckpoint}
      /\ UNCHANGED <<trees, listed, recorded, latestIndex, searched, waived, delivered>>
  BY DEF WriteCheckpoint, shardVars, Shape, LoopOK
<1>2. FilesOK' /\ HistoryOK'
  BY <1>1 DEF Shape, FilesOK, HistoryOK
<1>3. CASE LoopReturns
  <2>1. LoopOK'
    BY <1>3, EmptySeq DEF Shape, LoopOK, LoopTypeOK, LoopReturns, Forget, PCs,
       OptionalIndex
  <2> QED
    BY <1>1, <1>2, <1>3, <2>1 DEF Shape, ShardsOK, LoopReturns, ShardsKept, Running
<1>4. CASE /\ pc' = "wait" /\ found' = {} /\ failed' = {}
           /\ UNCHANGED <<flags, startIndex, endIndex, inputEndIndex, prevCheckpoint,
                          curCheckpoint, outbox>>
  <2>1. LoopOK'
    BY <1>4 DEF Shape, LoopOK, LoopTypeOK, PCs
  <2> QED
    BY <1>1, <1>2, <1>4, <2>1 DEF Shape, ShardsOK, ShardsKept, Running
<1> QED
  BY <1>3, <1>4 DEF WriteCheckpoint, CheckpointHandled

\* Every operation keeps the types, and hands each call what it needs: a search has
\* a range, and shards to search.
LEMMA ShapeInductive ==
  ASSUME Shape, [Next]_vars
  PROVE  Shape'
<1>1. CASE LogAppends \/ LogRewrites \/ ShardAdded \/ ShardRemoved
  <2>1. UNCHANGED <<loopVars, file, recorded, latestIndex, searched, waived, delivered,
                    anchor>>
    BY <1>1 DEF LogAppends, LogRewrites, ShardAdded, ShardRemoved, files, history
  <2> QED
    BY <1>1, <2>1, ShardsChange DEF Shape, LoopOK, LoopTypeOK, FilesOK, HistoryOK,
       loopVars
<1>2. CASE Start
  <2>1. PICK f \in Flags : flags' = f /\ startIndex' = f.start /\ endIndex' = f.end
                            /\ inputEndIndex' = f.end
    BY <1>2 DEF Start, StartProcess
  <2>2. f.start \in OptionalIndex /\ f.end \in OptionalIndex
    BY FlagsAssumption
  <2>3. LoopOK'
    BY <1>2, <2>1, <2>2 DEF Start, StartProcess, roundVars, Shape, LoopOK, LoopTypeOK, PCs
  <2>4. StartWaived \subseteq Shards \X Index
    BY LatestIsListed DEF StartWaived, EntriesOf, Shape, Index
  <2>5. ShardsOK'
    BY <1>2 DEF Start, shardVars, Shape, ShardsOK
  <2> QED
    BY <1>2, <2>3, <2>4, <2>5 DEF Start, files, Shape, FilesOK, HistoryOK
<1>3. CASE Ends /\ ShardsKept
  BY <1>3, EndShape
<1>4. CASE (Signal \/ NextRound) /\ ShardsKept
  <2>1. /\ pc # "down" /\ pc' # "down" /\ rekorShards' = rekorShards
        /\ UNCHANGED <<shardVars, file, recorded, latestIndex, searched, waived,
                       delivered, anchor>>
    BY <1>4 DEF Signal, CatchSignal, NextRound, Tick, Running, ShardsKept, files,
       history
  <2>2. LoopOK'
    BY <1>4 DEF Signal, CatchSignal, NextRound, Tick, roundVars, Shape, LoopOK,
       LoopTypeOK, PCs
  <2> QED  BY <2>1, <2>2, RestKept DEF Shape
<1>5. CASE ConsistencyFails /\ ShardsKept
  <2>1. pc = "check" /\ UNCHANGED <<trees, listed, file, recorded, latestIndex, searched,
                                    waived, delivered, anchor>>
    BY <1>5 DEF ConsistencyFails, CheckFails, shardVars, files, history
  <2>2. LoopOK' /\ ShardsOK'
    <3>1. CASE flags.once
      BY <1>5, <2>1, <3>1, EmptySeq DEF ConsistencyFails, CheckFails, LoopReturns,
         Forget, Shape, LoopOK, LoopTypeOK, ShardsOK, ShardsKept, PCs, OptionalIndex,
         Running
    <3>2. CASE ~flags.once
      BY <1>5, <2>1, <3>2 DEF ConsistencyFails, CheckFails, roundVars, Shape, LoopOK,
         LoopTypeOK, ShardsOK, ShardsKept, PCs, Running
    <3> QED  BY <3>1, <3>2
  <2> QED  BY <2>1, <2>2 DEF Shape, FilesOK, HistoryOK
<1>6. CASE RunConsistencyCheck /\ ShardsKept
  BY <1>6, CheckShape
<1>7. CASE IdentitySearch /\ ShardsKept
  BY <1>7, SearchShape
<1>8. CASE Notify /\ ShardsKept
  BY <1>8, NotifyShape
<1>9. CASE WriteCheckpoint /\ ShardsKept
  BY <1>9, WriteShape
<1>10. CASE UNCHANGED vars
  BY <1>10 DEF vars, loopVars, shardVars, files, history, Shape, LoopOK, LoopTypeOK,
     ShardsOK, FilesOK, HistoryOK, Running
<1> QED
  BY <1>1, <1>2, <1>3, <1>4, <1>5, <1>6, <1>7, <1>8, <1>9, <1>10, NextSorts

\* The Boolean variables only ever get Boolean values.
LEMMA BooleansInductive ==
  ASSUME BooleansOK, [Next]_vars
  PROVE  BooleansOK'
<1> USE DEF BooleansOK, LoopBooleansOK
<1>1. ASSUME LoopReturns, rewritten' = rewritten PROVE BooleansOK'
  BY <1>1 DEF LoopReturns, Forget
<1>2. ASSUME UNCHANGED <<signalled, failureCounted>>, rewritten' \in {rewritten, TRUE}
      PROVE  BooleansOK'
  BY <1>2
<1>3. CASE LogAppends \/ LogRewrites \/ ShardAdded \/ ShardRemoved \/ UNCHANGED vars
  BY <1>3, <1>2 DEF LogAppends, LogRewrites, ShardAdded, ShardRemoved, vars, loopVars,
     history
<1>4. CASE Start
  BY <1>4, <1>2 DEF Start, StartProcess
<1>5. CASE Ends
  BY <1>5, <1>1, EndForgets DEF history
<1>6. CASE Signal \/ NextRound
  BY <1>6 DEF Signal, CatchSignal, NextRound, Tick, history
<1>7. CASE ConsistencyFails
  BY <1>7, <1>1 DEF ConsistencyFails, CheckFails, history
<1>8. CASE RunConsistencyCheck \/ IdentitySearch \/ Notify
  BY <1>8, <1>2 DEF RunConsistencyCheck, CheckPasses, IdentitySearch, SearchReturns,
     Notify, SendSucceeds, history
<1>9. CASE WriteCheckpoint
  BY <1>9, <1>1, <1>2 DEF WriteCheckpoint, CheckpointHandled
<1> QED
  BY <1>3, <1>4, <1>5, <1>6, <1>7, <1>8, <1>9, NextSorts

\* Every variable always has its type.  Shape, which carries the proof, adds that
\* a search has a range, a process its shards and a write its checkpoint: the nil
\* pointers and the empty shard map that the code dereferences never are.
THEOREM TypeCorrect == Spec => []TypeOK
<1>1. Init => Shape /\ BooleansOK
  <2>1. Init => BooleansOK
    BY DEF Init, LoopInit, BooleansOK, LoopBooleansOK
  <2> QED  BY <2>1, InitShape
<1>2. Shape /\ BooleansOK /\ [Next]_vars => (Shape /\ BooleansOK)'
  BY ShapeInductive, BooleansInductive
<1>3. Shape /\ BooleansOK => TypeOK
  BY DEF Shape, LoopOK, ShardsOK, FilesOK, HistoryOK, BooleansOK, TypeOK
<1> QED
  BY <1>1, <1>2, <1>3, PTL DEF Spec

-----------------------------------------------------------------------------
(* The stored checkpoint.                                                  *)

\* d is of a newer shard than c, or extends it.
Follows(c, d) ==
  c # NoCheckpoint =>
    \/ d.origin > c.origin
    \/ d.origin = c.origin /\ IsPrefix(c.tree, d.tree)

\* The file holds the last checkpoint stored, never an empty one; what a round read
\* from it, it still holds when the round replaces it.
StoredInv ==
  /\ Stored = anchor
  /\ anchor # NoCheckpoint => Size(anchor) # 0
  /\ pc \in {"search", "notify", "write"} =>
       prevCheckpoint = anchor /\ Follows(anchor, curCheckpoint)

SafetyInv == Shape /\ StoredInv

\* The check accepts only what extends the file's checkpoint in the file's shard,
\* and takes its own from the newest.
LEMMA CheckFollows ==
  ASSUME Shape, RunConsistencyCheck
  PROVE  /\ prevCheckpoint' = Stored /\ curCheckpoint' = Latest
         /\ Follows(Stored, Latest)
<1>1. /\ prevCheckpoint' = Stored /\ curCheckpoint' = Latest
      /\ Consistent(Stored)
  BY DEF RunConsistencyCheck, CheckPasses
<1>2. ASSUME Stored # NoCheckpoint
      PROVE  \/ Latest.origin > Stored.origin
             \/ Latest.origin = Stored.origin /\ IsPrefix(Stored.tree, Latest.tree)
  <2>1. Stored.origin \in listed /\ IsPrefix(Stored.tree, trees[Stored.origin])
    BY <1>1, <1>2, LatestIsListed DEF Consistent, Shape
  <2>2. Stored.origin <= Latest.origin
    BY <2>1, LatestIsListed DEF Shape
  <2>3. Stored.origin \in Int /\ Latest.origin \in Int
    BY <2>1, LatestIsListed, ShardsAreFinite DEF Shape, ShardsOK
  <2>4. Latest.tree = trees[Latest.origin]
    BY LatestIsListed DEF Shape
  <2> QED  BY <2>1, <2>2, <2>3, <2>4
<1> QED  BY <1>1, <1>2 DEF Follows

\* The file changes only where a whole checkpoint replaces it.
LEMMA StoredInductive ==
  ASSUME Shape, StoredInv, [Next]_vars
  PROVE  StoredInv'
<1> USE DEF StoredInv, Stored
<1>1. ASSUME UNCHANGED <<file, anchor>>, pc' \in {"down", "check", "wait"}
      PROVE  StoredInv'
  BY <1>1 DEF Size
<1>2. ASSUME UNCHANGED <<file, anchor, prevCheckpoint, curCheckpoint>>,
             pc' = pc \/ (pc \in {"search", "notify"} /\ pc' \in {"notify", "write"})
      PROVE  StoredInv'
  BY <1>2 DEF Size, Follows
<1>3. CASE LogAppends \/ LogRewrites \/ ShardAdded \/ ShardRemoved \/ UNCHANGED vars
  BY <1>3, <1>2 DEF LogAppends, LogRewrites, ShardAdded, ShardRemoved, vars, loopVars,
     files, history
<1>4. CASE Start \/ NextRound \/ ConsistencyFails
  BY <1>4, <1>1 DEF Start, StartProcess, NextRound, Tick, ConsistencyFails, CheckFails,
     LoopReturns, files, history
<1>5. CASE Ends
  BY <1>5, <1>1, EndForgets DEF LoopReturns, history
<1>6. CASE Signal
  BY <1>6, <1>2 DEF Signal, CatchSignal, roundVars, files, history
<1>7. CASE RunConsistencyCheck
  <2>1. UNCHANGED <<file, anchor>>
    BY <1>7 DEF RunConsistencyCheck, files
  <2> QED  BY <1>7, <2>1, CheckFollows DEF Follows, Size
<1>8. CASE IdentitySearch \/ Notify
  BY <1>8, <1>2 DEF IdentitySearch, Fetchable, SearchReturns, Notify, SendSucceeds,
     files, history
<1>9. CASE WriteCheckpoint
  <2>1. /\ pc = "write" /\ pc' \in {"down", "wait"}
        /\ \/ UNCHANGED <<file, anchor>>
           \/ Size(curCheckpoint) # 0 /\ file' = curCheckpoint /\ anchor' = curCheckpoint
    BY <1>9 DEF WriteCheckpoint, CheckpointHandled, LoopReturns, KeepsCheckpoint
  <2>2. curCheckpoint # EmptyFile
    BY <2>1, V2MarksAssumption DEF Shape, LoopOK
  <2> QED  BY <1>1, <2>1, <2>2 DEF Size
<1> QED
  BY <1>3, <1>4, <1>5, <1>6, <1>7, <1>8, <1>9, NextSorts

\* The two parts of the invariant together.
LEMMA SafetyInductive == Spec => []SafetyInv
<1>1. Init => SafetyInv
  BY InitShape DEF SafetyInv, StoredInv, Stored, Init, LoopInit
<1>2. SafetyInv /\ [Next]_vars => SafetyInv'
  BY ShapeInductive, StoredInductive DEF SafetyInv
<1> QED  BY <1>1, <1>2, PTL DEF Spec

\* Only the write of a checkpoint moves the anchor.
LEMMA OnlyWriteAnchors ==
  ASSUME [Next]_vars
  PROVE  anchor' = anchor \/ WriteCheckpoint
<1>1. CASE LogAppends \/ LogRewrites \/ ShardAdded \/ ShardRemoved \/ UNCHANGED vars
           \/ Start \/ Signal \/ NextRound \/ ConsistencyFails \/ RunConsistencyCheck
           \/ IdentitySearch \/ Notify
  BY <1>1 DEF LogAppends, LogRewrites, ShardAdded, ShardRemoved, vars, Start, Signal,
     NextRound, ConsistencyFails, RunConsistencyCheck, IdentitySearch, Notify, history
<1>2. CASE Ends
  BY <1>2, EndForgets DEF history
<1> QED  BY <1>1, <1>2, NextSorts

\* Stored checkpoints form a chain in each shard, and the shards follow one another
\* in their order: however the signing config changes under a running process, no
\* rotation is undone and no shard that rewrote its past accepted.
THEOREM NoForkAcrossShards == Spec => StoredChain
<1>1. ASSUME SafetyInv, [Next]_vars, anchor # NoCheckpoint
      PROVE  /\ anchor' # NoCheckpoint
             /\ \/ anchor'.origin > anchor.origin
                \/ anchor'.origin = anchor.origin /\ IsPrefix(anchor.tree, anchor'.tree)
  <2>1. CASE anchor' = anchor
    <3>1. anchor.tree \in Seq(Entries)
      BY <1>1, SizeType DEF SafetyInv, Shape, HistoryOK
    <3> QED  BY <2>1, <3>1, <1>1, PrefixReflexive
  <2>2. CASE WriteCheckpoint /\ anchor' # anchor
    <3>1. pc = "write" /\ anchor' = curCheckpoint
      BY <2>2 DEF WriteCheckpoint
    <3>2. curCheckpoint # NoCheckpoint
      BY <3>1, <1>1, V2MarksAssumption DEF SafetyInv, Shape, LoopOK
    <3> QED  BY <3>1, <3>2, <1>1 DEF SafetyInv, StoredInv, Follows
  <2> QED  BY <1>1, <2>1, <2>2, OnlyWriteAnchors
<1> QED
  BY <1>1, SafetyInductive, PTL DEF Spec, StoredChain

\* Each round takes its checkpoint from the shard that is the newest one listed when
\* it checks, also in a process started before that shard was.
THEOREM RotationsAreSeen == Spec => RotationSeen
<1>1. ASSUME Shape, [Next]_vars, pc = "check", pc' \in {"search", "write"}
      PROVE  curCheckpoint'.origin = Newest(listed)
  <2>1. CASE RunConsistencyCheck
    BY <2>1, <1>1, CheckFollows, LatestIsListed DEF Shape
  <2>2. CASE LogAppends \/ LogRewrites \/ ShardAdded \/ ShardRemoved \/ UNCHANGED vars
             \/ Start \/ Signal \/ NextRound \/ ConsistencyFails \/ IdentitySearch
             \/ Notify \/ WriteCheckpoint
    BY <2>2, <1>1 DEF LogAppends, LogRewrites, ShardAdded, ShardRemoved, vars, loopVars,
       Start, StartProcess, Signal, CatchSignal, NextRound, Tick, ConsistencyFails,
       CheckFails, LoopReturns, IdentitySearch, Fetchable, Notify, SendSucceeds,
       WriteCheckpoint
  <2>3. CASE Ends
    BY <2>3, <1>1, EndForgets DEF LoopReturns
  <2> QED  BY <1>1, <2>1, <2>2, <2>3, NextSorts
<1>2. Spec => []Shape
  BY InitShape, ShapeInductive, PTL DEF Spec
<1> QED  BY <1>1, <1>2, PTL DEF Spec, RotationSeen

\* A round that ends without a counted failure has stored the checkpoint it checked,
\* or the file held the same one: WriteCheckpointRekorV2 compares the origins and the
\* sizes, and of two consistent checkpoints those make out which one it is.
THEOREM RoundsAreQuietOnlyWhenStored == Spec => []QuietRound
<1>1. Init => QuietRound
  BY DEF Init, LoopInit, QuietRound
<1>2. ASSUME SafetyInv, QuietRound, [Next]_vars PROVE QuietRound'
  <2>1. ASSUME pc' # "wait" PROVE QuietRound'
    BY <2>1 DEF QuietRound
  <2>2. ASSUME UNCHANGED <<pc, failureCounted, curCheckpoint, anchor>>
        PROVE  QuietRound'
    BY <1>2, <2>2 DEF QuietRound, Size
  <2>3. CASE LogAppends \/ LogRewrites \/ ShardAdded \/ ShardRemoved \/ UNCHANGED vars
    BY <2>3, <2>2 DEF LogAppends, LogRewrites, ShardAdded, ShardRemoved, vars, loopVars,
       history
  <2>4. CASE Start \/ NextRound \/ RunConsistencyCheck \/ IdentitySearch \/ Notify
    BY <2>4, <2>1 DEF Start, StartProcess, NextRound, Tick, RunConsistencyCheck,
       CheckPasses, IdentitySearch, SearchReturns, Notify, SendSucceeds
  <2>5. CASE Ends
    BY <2>5, <2>1, EndForgets DEF LoopReturns
  <2>6. CASE Signal
    BY <2>6, <2>2 DEF Signal, CatchSignal, roundVars, history
  <2>7. CASE ConsistencyFails
    BY <2>7, <2>1 DEF ConsistencyFails, CheckFails, LoopReturns, QuietRound
  <2>8. CASE WriteCheckpoint /\ pc' = "wait"
    <3>1. /\ pc = "write" /\ curCheckpoint' = curCheckpoint
          /\ \/ KeepsCheckpoint /\ anchor' = anchor
             \/ anchor' = curCheckpoint
      BY <2>8 DEF WriteCheckpoint, CheckpointHandled, LoopReturns
    <3>2. curCheckpoint \in Checkpoint /\ curCheckpoint # NoCheckpoint
      BY <3>1, <1>2, V2MarksAssumption DEF SafetyInv, Shape, LoopOK
    <3>3. ASSUME anchor # NoCheckpoint, anchor.origin = curCheckpoint.origin,
                 Size(anchor) = Size(curCheckpoint)
          PROVE  anchor = curCheckpoint
      <4>1. anchor \in Checkpoint
        BY <1>2, <3>3 DEF SafetyInv, Shape, HistoryOK
      <4>2. anchor.origin \in Int
        BY <4>1, ShardsAreFinite DEF Checkpoint
      <4>3. IsPrefix(anchor.tree, curCheckpoint.tree)
        BY <3>1, <3>3, <4>2, <1>2 DEF SafetyInv, StoredInv, Follows
      <4>4. anchor.tree = curCheckpoint.tree
        BY <3>2, <3>3, <4>1, <4>3, SizeType, EqualLengthPrefix DEF Size
      <4> QED  BY <3>2, <3>3, <4>1, <4>4 DEF Checkpoint
    <3>4. KeepsCheckpoint => anchor = curCheckpoint \/ Size(curCheckpoint) = 0
      BY <3>1, <3>3, <1>2 DEF KeepsCheckpoint, SafetyInv, StoredInv
    <3> QED  BY <3>1, <3>2, <3>4 DEF QuietRound, Size
  <2> QED
    BY <1>2, <2>1, <2>3, <2>4, <2>5, <2>6, <2>7, <2>8, NextSorts
<1> QED  BY <1>1, <1>2, SafetyInductive, PTL DEF Spec

-----------------------------------------------------------------------------
(* The first shard.                                                        *)
(*                                                                         *)
(* Until the first rotation the process, its shards and its checkpoints    *)
(* are all of shard 1.  FirstShardInv follows the place of the loop        *)
(* through the round, as PlaceInv does for a v1 log: each index it has     *)
(* passed is settled, or held in the lists of the round.  A rotation ends  *)
(* that: the range the round then searches does not begin where the new    *)
(* shard does.                                                             *)

KindOf(payload) == IF payload = "found" THEN Matching ELSE Unreadable

\* The first shard has an entry of some kind at index i.
IsOf(i, kinds) == i \in 0..(Len(trees[1]) - 1) /\ trees[1][i + 1] \in kinds

\* Everything there is to say of the entry at index i has been recorded and reported.
AllSaid(i) ==
  /\ i \in 0..(Len(trees[1]) - 1)
  /\ IsOf(i, Matching) => <<1, i>> \in recorded
  /\ \A payload \in Payloads, n \in 1..Len(Platforms) :
       IsOf(i, KindOf(payload)) => <<payload, Platforms[n], <<1, i>>>> \in delivered

\* The operator does not want it, or it was searched and, if the shard is
\* append-only, all is said.
Settled(i) ==
  \/ <<1, i>> \in waived
  \/ <<1, i>> \in searched /\ (~rewritten => AllSaid(i))

\* It was searched, and what there is to say is in the lists of the round.
Held(i) ==
  /\ <<1, i>> \in searched
  /\ ~rewritten =>
       /\ i \in 0..(Len(trees[1]) - 1)
       /\ \A payload \in Payloads : IsOf(i, KindOf(payload)) => i \in Listed(payload)

\* Nothing of the first shard was missed up to index i.
Covered(i) == \A j \in 0..i : Settled(j)

FirstShardInv ==
  listed = {1} =>
    /\ rekorShards \subseteq {1}
    /\ anchor # NoCheckpoint => anchor.origin = 1 /\ Covered(Size(anchor) - 1)
    /\ pc = "check" => endIndex = inputEndIndex
    /\ pc \in {"check", "wait"} /\ startIndex # NoIndex => Covered(startIndex)
    /\ pc \in {"search", "notify", "write"} => curCheckpoint.origin = 1
    /\ pc = "search" => Covered(startIndex)
    /\ pc = "notify" => \A j \in 0..endIndex : Settled(j) \/ Held(j)
    /\ pc \in {"search", "notify"} =>
         \A j \in 0..(Size(curCheckpoint) - 1) : j > endIndex => <<1, j>> \in waived
    /\ pc = "write" =>
         /\ Covered(Size(curCheckpoint) - 1)
         /\ startIndex # NoIndex /\ inputEndIndex = NoIndex => Covered(startIndex)

\* What the lists of the round hold is in the identities file, and each platform
\* was told of it or is still to be.
SendsDue ==
  /\ \A i \in found : <<1, i>> \in recorded
  /\ \A payload \in Payloads, n \in 1..Len(Platforms) : \A i \in Listed(payload) :
       \/ <<payload, Platforms[n], <<1, i>>>> \in delivered
       \/ Pending(payload, Platforms[n], outbox)

\* While the Sends are made, the lists speak only of what was searched, and truly.
ListsInv ==
  listed = {1} /\ pc = "notify" =>
    /\ SendsDue
    /\ \A payload \in Payloads : \A i \in Listed(payload) :
         <<1, i>> \in searched /\ (~rewritten => IsOf(i, KindOf(payload)))

\* While the shard is append-only, the checkpoint of the round stays a part of it.
PrefixInv ==
  listed = {1} /\ ~rewritten /\ pc \in {"search", "notify", "write"} =>
    IsPrefix(curCheckpoint.tree, trees[1])

\* An index of the log, or the place before its first entry.
InLog(i) == i = NoIndex \/ i >= -1

\* The operator asks for the entries after one of the log, or after the place before
\* the first.  Nothing in the program checks it, and the range after a smaller index
\* leaves the first tile out.
StartsInLog == \A f \in Flags : InLog(f.start)

\* The place of the loop is then in the log, too.
PlaceInLog ==
  /\ pc = "check" => endIndex = inputEndIndex
  /\ pc \in {"check", "wait", "search", "notify"} => InLog(startIndex)
  /\ pc = "write" /\ inputEndIndex = NoIndex => InLog(startIndex)

FirstShardSafe ==
  SafetyInv /\ PlaceInLog /\ FirstShardInv /\ ListsInv /\ PrefixInv

\* A list of shards that begins with the first never returns to it.
LEMMA FirstShardBefore ==
  ASSUME ShardsOK, [Next]_vars, listed' = {1}
  PROVE  listed = {1} /\ Newest(listed) = 1
<1>1. listed = {1}
  <2>1. CASE ShardAdded
    BY <2>1, LatestIsListed DEF ShardAdded, ShardsOK
  <2>2. CASE ShardRemoved
    <3>1. listed' = listed \ {Min(listed)} /\ Min(listed) \in listed
          /\ \A s \in listed : Min(listed) <= s
      BY <2>2, OldestShard DEF ShardRemoved, ShardsOK
    <3>2. 1 \in listed /\ Min(listed) # 1 /\ Min(listed) <= 1
      BY <3>1
    <3>3. Min(listed) \in 1..MaxShards
      BY <3>1 DEF ShardsOK, Shards
    <3> QED  BY <3>2, <3>3, V2Assumption
  <2>3. CASE LogAppends \/ LogRewrites \/ UNCHANGED vars \/ Start \/ Signal \/ NextRound
             \/ ConsistencyFails \/ RunConsistencyCheck \/ IdentitySearch \/ Notify
             \/ WriteCheckpoint
    BY <2>3 DEF LogAppends, LogRewrites, vars, Start, Signal, NextRound,
       ConsistencyFails, RunConsistencyCheck, IdentitySearch, Notify, WriteCheckpoint,
       shardVars
  <2>4. CASE Ends
    BY <2>4, EndForgets DEF shardVars
  <2> QED  BY <2>1, <2>2, <2>3, <2>4, NextSorts
<1>2. Newest(listed) = 1
  BY <1>1, LatestIsListed
<1> QED  BY <1>1, <1>2

\* From now on no history is lost, and an append-only shard keeps its entries.
Grows ==
  /\ searched \subseteq searched'
  /\ waived \subseteq waived'
  /\ recorded \subseteq recorded'
  /\ delivered \subseteq delivered'
  /\ ~rewritten' => ~rewritten /\ IsPrefix(trees[1], trees'[1])

\* The first shard has a tree.
LEMMA FirstTree ==
  ASSUME ShardsOK
  PROVE  1 \in Shards /\ trees[1] \in Seq(Entries) /\ Len(trees[1]) \in Nat
<1>1. 1 \in Shards
  BY V2Assumption DEF Shards
<1> QED  BY <1>1, LenProperties DEF ShardsOK

\* No step takes anything back.
LEMMA EverythingGrows ==
  ASSUME Shape, [Next]_vars
  PROVE  Grows
<1>1. /\ 1 \in Shards /\ trees[1] \in Seq(Entries)
      /\ trees \in [Shards -> Seq(Entries)]
  BY FirstTree DEF Shape, ShardsOK
<1>2. ASSUME trees' = trees, rewritten' = rewritten
      PROVE  ~rewritten' => ~rewritten /\ IsPrefix(trees[1], trees'[1])
  BY <1>1, <1>2, PrefixReflexive
<1>3. CASE LogAppends
  <2>1. PICK s \in Shards, e \in Entries : trees' = [trees EXCEPT ![s] = Append(@, e)]
    BY <1>3 DEF LogAppends, Shape, ShardsOK
  <2>2. IsPrefix(trees[1], trees'[1])
    <3>1. trees'[1] = trees[1] \/ trees'[1] = Append(trees[1], e)
      BY <1>1, <2>1
    <3> QED  BY <1>1, <3>1, AppendPrefix, PrefixReflexive
  <2>3. UNCHANGED <<searched, waived, recorded, delivered, rewritten>>
    BY <1>3 DEF LogAppends, files, history
  <2> QED  BY <2>2, <2>3 DEF Grows
<1>4. CASE LogRewrites
  BY <1>4 DEF LogRewrites, files, Grows
<1>5. CASE Ends
  <2>1. recorded \subseteq recorded'
    <3>1. PICK written \in SUBSET MatchedIndices(Matching) :
            recorded' = recorded \cup EntriesOf(SearchedShard, written)
      BY <1>5, EndForgets
    <3> QED  BY <3>1
  <2>2. /\ UNCHANGED <<trees, waived, delivered, rewritten>>
        /\ searched \subseteq searched'
    BY <1>5, EndForgets DEF shardVars
  <2> QED  BY <1>2, <2>1, <2>2 DEF Grows
<1>6. CASE ShardAdded \/ ShardRemoved \/ UNCHANGED vars \/ Start \/ Signal \/ NextRound
            \/ ConsistencyFails \/ RunConsistencyCheck \/ IdentitySearch \/ Notify
            \/ WriteCheckpoint
  <2>1. /\ searched \subseteq searched' /\ waived \subseteq waived'
        /\ recorded \subseteq recorded' /\ delivered \subseteq delivered'
        /\ trees' = trees /\ rewritten' = rewritten
    BY <1>6 DEF ShardAdded, ShardRemoved, vars, Start, Signal, NextRound,
       ConsistencyFails, RunConsistencyCheck, IdentitySearch, Notify, WriteCheckpoint,
       shardVars, files, history
  <2> QED  BY <1>2, <2>1 DEF Grows
<1> QED  BY <1>3, <1>4, <1>5, <1>6, NextSorts

\* An entry of an append-only shard stays in its place.
LEMMA EntryStays ==
  ASSUME Shape, Shape', Grows, ~rewritten', NEW i \in 0..(Len(trees[1]) - 1)
  PROVE  i \in 0..(Len(trees'[1]) - 1) /\ trees'[1][i + 1] = trees[1][i + 1]
<1>1. /\ trees[1] \in Seq(Entries) /\ trees'[1] \in Seq(Entries)
      /\ IsPrefix(trees[1], trees'[1])
  <2>1. trees[1] \in Seq(Entries) /\ 1 \in Shards
    BY FirstTree DEF Shape
  <2>2. trees'[1] \in Seq(Entries)
    BY <2>1 DEF Shape, ShardsOK
  <2> QED  BY <2>1, <2>2 DEF Grows
<1>2. /\ Len(trees[1]) \in Nat /\ Len(trees'[1]) \in Nat
      /\ Len(trees[1]) <= Len(trees'[1])
      /\ \A k \in 1..Len(trees[1]) : trees'[1][k] = trees[1][k]
  BY <1>1, PrefixElements, LenProperties
<1> QED  BY <1>2

\* And so does what is settled, and what is held while the lists stay.
LEMMA SettledStays ==
  ASSUME Shape, Shape', Grows
  PROVE  \A i : Settled(i) => Settled(i)'
<1> SUFFICES ASSUME NEW i, Settled(i) PROVE Settled(i)'
  OBVIOUS
<1>1. CASE <<1, i>> \in waived
  BY <1>1 DEF Grows, Settled
<1>2. CASE <<1, i>> \in searched /\ (~rewritten => AllSaid(i))
  <2>1. <<1, i>> \in searched'
    BY <1>2 DEF Grows
  <2>2. ASSUME ~rewritten' PROVE AllSaid(i)'
    <3>1. AllSaid(i)
      BY <1>2, <2>2 DEF Grows
    <3>2. i \in 0..(Len(trees'[1]) - 1) /\ trees'[1][i + 1] = trees[1][i + 1]
      BY <2>2, <3>1, EntryStays DEF AllSaid
    <3> QED  BY <3>1, <3>2 DEF Grows, AllSaid, IsOf, KindOf
  <2> QED  BY <2>1, <2>2 DEF Settled
<1> QED  BY <1>1, <1>2 DEF Settled

LEMMA HeldStays ==
  ASSUME Shape, Shape', Grows, found' = found, failed' = failed
  PROVE  \A i : Held(i) => Held(i)'
<1> SUFFICES ASSUME NEW i, Held(i) PROVE Held(i)'
  OBVIOUS
<1>1. <<1, i>> \in searched'
  BY DEF Held, Grows
<1>2. ASSUME ~rewritten'
      PROVE  /\ i \in 0..(Len(trees'[1]) - 1)
             /\ \A payload \in Payloads :
                  IsOf(i, KindOf(payload))' => i \in Listed(payload)'
  <2>1. /\ i \in 0..(Len(trees[1]) - 1)
        /\ \A payload \in Payloads : IsOf(i, KindOf(payload)) => i \in Listed(payload)
    BY <1>2 DEF Held, Grows
  <2>2. i \in 0..(Len(trees'[1]) - 1) /\ trees'[1][i + 1] = trees[1][i + 1]
    BY <1>2, <2>1, EntryStays
  <2> QED  BY <2>1, <2>2 DEF IsOf, KindOf, Listed
<1> QED  BY <1>1, <1>2 DEF Held

\* What is covered up to the stored checkpoint stays so.
LEMMA AnchorCovered ==
  ASSUME FirstShardInv, listed = {1}, \A i : Settled(i) => Settled(i)',
         anchor' = anchor, anchor' # NoCheckpoint
  PROVE  anchor'.origin = 1 /\ Covered(Size(anchor) - 1)'
  BY DEF FirstShardInv, Covered, Size

\* A step that goes down, or leaves the loop's place alone, keeps it.
LEMMA StutterFirstShard ==
  ASSUME FirstShardInv, listed = {1}, rekorShards' \subseteq {1},
         \A i : Settled(i) => Settled(i)', waived' = waived, anchor' = anchor,
         \/ pc' = "down"
         \/ /\ \A i : Held(i) => Held(i)'
            /\ UNCHANGED <<pc, startIndex, endIndex, inputEndIndex, curCheckpoint>>
  PROVE  FirstShardInv'
<1>1. ASSUME anchor' # NoCheckpoint
      PROVE  anchor'.origin = 1 /\ Covered(Size(anchor) - 1)'
  BY <1>1, AnchorCovered
<1>2. CASE pc' = "down"
  BY <1>1, <1>2 DEF FirstShardInv
<1>3. CASE /\ \A i : Held(i) => Held(i)'
           /\ UNCHANGED <<pc, startIndex, endIndex, inputEndIndex, curCheckpoint>>
  BY <1>1, <1>3 DEF FirstShardInv, Covered, Size
<1> QED  BY <1>2, <1>3

\* The check takes the range from what the file and the shard cover, and waives what
\* the round will step over.
LEMMA CheckFirstShard ==
  ASSUME SafetyInv, FirstShardInv, RunConsistencyCheck, listed = {1}, Newest(listed) = 1,
         rekorShards' = rekorShards, \A i : Settled(i) => Settled(i)'
  PROVE  FirstShardInv'
<1> DEFINE newest == Size(Latest) - 1
           from   == RangeStart(Stored, GetStartIndex(Stored))
           to     == RangeEnd(GetEndIndex(Latest))
<1>1. /\ pc = "check" /\ curCheckpoint' = Latest /\ listed' = listed
      /\ CheckPasses(Stored, Latest, GetStartIndex(Stored), GetEndIndex(Latest))
      /\ waived' = waived \cup SteppedOver(Stored, Latest)
      /\ UNCHANGED <<searched, anchor, inputEndIndex>>
  BY DEF RunConsistencyCheck, CheckPasses, shardVars
<1>2. Latest \in Checkpoint /\ Latest.origin = 1 /\ Size(Latest) \in Nat
  BY LatestIsListed, SizeType DEF SafetyInv, Shape
<1>3. /\ Stored = anchor /\ rekorShards \subseteq {1}
      /\ anchor # NoCheckpoint =>
           /\ anchor.origin = 1 /\ Covered(Size(anchor) - 1)
           /\ Size(anchor) \in Nat \ {0} /\ GetStartIndex(Stored) = Size(anchor) - 1
  BY SizeType DEF SafetyInv, StoredInv, Shape, HistoryOK, FirstShardInv, GetStartIndex
<1>4. /\ startIndex \in OptionalIndex /\ inputEndIndex \in OptionalIndex
      /\ endIndex = inputEndIndex
      /\ startIndex # NoIndex => Covered(startIndex)
  BY <1>1 DEF SafetyInv, Shape, LoopOK, LoopTypeOK, FirstShardInv
<1>5. /\ inputEndIndex = NoIndex => to = GetEndIndex(Latest)
      /\ inputEndIndex # NoIndex => to = inputEndIndex /\ to \in Int
      /\ GetEndIndex(Latest) = IF Size(Latest) = 0 THEN NoIndex ELSE newest
  BY <1>2, <1>4 DEF RangeEnd, GetEndIndex, OptionalIndex, Index
<1>6. ASSUME anchor' # NoCheckpoint
      PROVE  anchor'.origin = 1 /\ Covered(Size(anchor) - 1)'
  BY <1>1, <1>6, AnchorCovered
<1>7. ASSUME NEW indices, SteppedOver(Stored, Latest) = EntriesOf(Latest.origin, indices),
             NEW j \in indices
      PROVE  <<1, j>> \in waived' /\ Settled(j)'
  BY <1>1, <1>2, <1>7 DEF EntriesOf, Settled
<1>8. newest = (Size(curCheckpoint) - 1)' /\ newest \in Int
  BY <1>1, <1>2 DEF Size
<1> HIDE DEF newest, from, to
<1>9. CASE ~flags.monitored
  <2>1. \A j \in 0..newest : Settled(j)'
    BY <1>7, <1>9 DEF SteppedOver, newest
  <2>2. pc' = "write" /\ startIndex' = startIndex
    BY <1>1, <1>9 DEF CheckPasses
  <2>3. Covered(Size(curCheckpoint) - 1)'
    BY <2>1, <1>8 DEF Covered
  <2>4. startIndex' # NoIndex => Covered(startIndex)'
    BY <2>2, <1>1, <1>4 DEF Covered
  <2> QED  BY <1>1, <1>2, <1>3, <1>6, <2>2, <2>3, <2>4 DEF FirstShardInv
<1>10. CASE flags.monitored /\ NoIndex \in {from, to}
  <2>1. pc' = "write" /\ startIndex' = to
    BY <1>1, <1>10 DEF CheckPasses, from, to
  <2>2. \A j \in 0..newest : Settled(j)'
    <3>1. CASE from = NoIndex
      <4>1. startIndex = NoIndex /\ anchor = NoCheckpoint
        BY <1>3, <3>1, NilAssumption DEF RangeStart, from
      <4> QED  BY <4>1, <1>3, <1>7 DEF SteppedOver, newest
    <3>2. CASE to = NoIndex
      <4>1. Size(Latest) = 0
        BY <3>2, <1>2, <1>5, NilAssumption DEF newest
      <4> QED  BY <4>1 DEF newest
    <3> QED  BY <3>1, <3>2, <1>10
  <2>3. Covered(Size(curCheckpoint) - 1)'
    BY <2>2, <1>8 DEF Covered
  <2>4. startIndex' # NoIndex /\ inputEndIndex' = NoIndex => Covered(startIndex)'
    <3> SUFFICES ASSUME startIndex' # NoIndex, inputEndIndex' = NoIndex
                 PROVE  Covered(startIndex)'
      OBVIOUS
    <3>1. startIndex' = newest
      BY <2>1, <1>1, <1>5
    <3> QED  BY <3>1, <2>2 DEF Covered
  <2> QED  BY <1>1, <1>2, <1>3, <1>6, <2>1, <2>3, <2>4 DEF FirstShardInv
<1>11. CASE flags.monitored /\ NoIndex \notin {from, to}
  <2>1. pc' = "search" /\ startIndex' = from /\ endIndex' = to
    BY <1>1, <1>11 DEF CheckPasses, from, to
  <2>2. from \in Int /\ to \in Int
    BY <1>11, <1>2, <1>3, <1>4, <1>5, <1>8 DEF RangeStart, OptionalIndex, Index, from
  <2>3. Covered(from)
    BY <1>11, <1>3, <1>4 DEF RangeStart, from
  <2>4. Covered(startIndex)'
    BY <2>1, <2>3, <1>1 DEF Covered
  <2>5. ASSUME NEW j \in 0..newest, j > to PROVE <<1, j>> \in waived'
    <3>1. inputEndIndex # NoIndex /\ to = inputEndIndex
      BY <2>2, <2>5, <1>5, <1>8, <1>11
    <3>2. j \in (inputEndIndex + 1)..newest
      BY <2>2, <2>5, <3>1, <1>8
    <3>3. j \in 0..newest
      BY <2>5
    <3> QED  BY <1>7, <3>1, <3>2, <3>3 DEF SteppedOver, newest
  <2>6. \A j \in 0..(Size(curCheckpoint) - 1)' : j > endIndex' => <<1, j>> \in waived'
    BY <2>1, <2>5, <1>8
  <2> QED  BY <1>1, <1>2, <1>3, <1>6, <2>1, <2>4, <2>6 DEF FirstShardInv
<1> QED  BY <1>9, <1>10, <1>11

\* Beside the first shard alone, it is the one searched.
LEMMA OneShardSearched ==
  ASSUME Shape, FirstShardInv, listed = {1}, Running
  PROVE  SearchedShard = 1
<1>1. rekorShards \subseteq {1} /\ rekorShards # {}
  BY DEF FirstShardInv, Shape, ShardsOK
<1> QED  BY <1>1, NewestShard DEF Shape, ShardsOK, SearchedShard

\* A search owes its reports, and nothing it found is missing from the file.
LEMMA SearchOwes ==
  ASSUME IdentitySearch, SearchedShard = 1
  PROVE  SendsDue'
<1>1. /\ found' = MatchedIndices(Matching) /\ failed' = MatchedIndices(Unreadable)
      /\ outbox' = ToSend(found', failed')
      /\ recorded' = recorded \cup EntriesOf(SearchedShard, MatchedIndices(Matching))
  BY DEF IdentitySearch, SearchReturns
<1>2. \A i \in found' : <<1, i>> \in recorded'
  BY <1>1 DEF EntriesOf
<1>3. ASSUME NEW payload \in Payloads, NEW n \in 1..Len(Platforms),
             NEW i \in Listed(payload)'
      PROVE  Pending(payload, Platforms[n], outbox)'
  <2>1. (IF payload = "found" THEN found' ELSE failed') # {}
    BY <1>3 DEF Listed
  <2>2. Pending(payload, Platforms[n], ToSend(found', failed'))
    BY <2>1, ToSendHasAll
  <2> QED  BY <1>1, <2>2 DEF Pending
<1> QED  BY <1>2, <1>3 DEF SendsDue

\* A Send pays what it carries.
LEMMA NotifyPays ==
  ASSUME Shape, SendsDue, Notify, SearchedShard = 1
  PROVE  SendsDue'
<1>1. /\ pc = "notify" /\ outbox' = Tail(outbox)
      /\ delivered' = delivered \cup
           {<<Head(outbox).payload, Head(outbox).platform, e>> :
              e \in EntriesOf(1, Reported(Head(outbox)))}
      /\ UNCHANGED <<found, failed, recorded>>
  BY DEF Notify, SendSucceeds, files
<1>2. outbox \in Seq(Sends) /\ outbox # <<>>
  BY <1>1 DEF Shape, LoopOK, LoopTypeOK
<1>3. /\ Len(outbox) \in Nat /\ Len(Tail(outbox)) = Len(outbox) - 1
      /\ \A k \in 1..Len(Tail(outbox)) : Tail(outbox)[k] = outbox[k + 1]
      /\ Head(outbox) = outbox[1]
  BY <1>2, HeadTailProperties, LenProperties
<1>4. \A payload : Listed(payload)' = Listed(payload)
  BY <1>1 DEF Listed
<1>5. ASSUME NEW payload \in Payloads, NEW n \in 1..Len(Platforms),
             NEW i \in Listed(payload)
      PROVE  \/ <<payload, Platforms[n], <<1, i>>>> \in delivered'
             \/ Pending(payload, Platforms[n], outbox)'
  <2>1. \/ <<payload, Platforms[n], <<1, i>>>> \in delivered
        \/ Pending(payload, Platforms[n], outbox)
    BY <1>5 DEF SendsDue
  <2>2. CASE <<payload, Platforms[n], <<1, i>>>> \in delivered
    BY <1>1, <2>2
  <2>3. ASSUME NEW k \in 1..Len(outbox),
               outbox[k] = [payload |-> payload, platform |-> Platforms[n]]
        PROVE  \/ <<payload, Platforms[n], <<1, i>>>> \in delivered'
               \/ Pending(payload, Platforms[n], outbox)'
    <3>1. CASE k = 1
      <4>1. Head(outbox).payload = payload /\ Head(outbox).platform = Platforms[n]
        BY <1>3, <2>3, <3>1
      <4>2. <<1, i>> \in EntriesOf(1, Reported(Head(outbox)))
        BY <4>1, <1>5 DEF Reported, Listed, EntriesOf
      <4>3. <<Head(outbox).payload, Head(outbox).platform, <<1, i>>>> \in delivered'
        BY <1>1, <4>2
      <4> QED  BY <4>1, <4>3
    <3>2. CASE k # 1
      <4>1. k - 1 \in 1..Len(Tail(outbox)) /\ k - 1 + 1 = k
        BY <1>3, <3>2
      <4>2. outbox'[k - 1] = [payload |-> payload, platform |-> Platforms[n]]
        BY <1>1, <1>3, <2>3, <4>1
      <4>3. k - 1 \in 1..Len(outbox')
        BY <1>1, <4>1
      <4> QED  BY <4>2, <4>3 DEF Pending
    <3> QED  BY <3>1, <3>2
  <2> QED  BY <2>1, <2>2, <2>3 DEF Pending
<1>6. \A i \in found' : <<1, i>> \in recorded'
  BY <1>1 DEF SendsDue
<1> QED  BY <1>4, <1>5, <1>6 DEF SendsDue

\* With nothing left to send, what was held is settled.
LEMMA HeldSettles ==
  ASSUME SendsDue', outbox' = <<>>, NEW i, Held(i)'
  PROVE  Settled(i)'
<1>1. \A payload, platform : ~Pending(payload, platform, outbox)'
  <2>1. Len(outbox') = 0
    OBVIOUS
  <2> QED  BY <2>1 DEF Pending
<1>2. ASSUME NEW payload \in Payloads, i \in Listed(payload)'
      PROVE  /\ payload = "found" => <<1, i>> \in recorded'
             /\ \A n \in 1..Len(Platforms) :
                  <<payload, Platforms[n], <<1, i>>>> \in delivered'
  BY <1>1, <1>2 DEF SendsDue, Listed
<1>3. ASSUME ~rewritten' PROVE AllSaid(i)'
  <2>1. /\ i \in 0..(Len(trees'[1]) - 1)
        /\ \A payload \in Payloads :
             IsOf(i, KindOf(payload))' => i \in Listed(payload)'
    BY <1>3 DEF Held
  <2>2. ASSUME NEW payload \in Payloads, NEW n \in 1..Len(Platforms),
               IsOf(i, KindOf(payload))'
        PROVE  <<payload, Platforms[n], <<1, i>>>> \in delivered'
    BY <1>2, <2>1, <2>2
  <2>3. IsOf(i, Matching)' => <<1, i>> \in recorded'
    <3>1. IsOf(i, Matching)' => IsOf(i, KindOf("found"))' /\ "found" \in Payloads
      BY DEF IsOf, KindOf, Payloads
    <3> QED  BY <1>2, <2>1, <3>1
  <2> QED  BY <2>1, <2>2, <2>3 DEF AllSaid
<1>4. <<1, i>> \in searched'
  BY DEF Held
<1> QED  BY <1>3, <1>4 DEF Settled

\* The tiles of the range bring everything after its start, up to its end.
LEMMA SearchFirstShard ==
  ASSUME Shape, PlaceInLog, FirstShardInv, IdentitySearch, listed = {1},
         rekorShards' = rekorShards, \A i : Settled(i) => Settled(i)'
  PROVE  FirstShardInv'
<1>1. /\ pc = "search" /\ pc' \in {"notify", "write"}
      /\ searched' = searched \cup EntriesOf(SearchedShard, Fetched)
      /\ Fetched \subseteq 0..(Len(trees[SearchedShard]) - 1)
      /\ found' = MatchedIndices(Matching) /\ failed' = MatchedIndices(Unreadable)
      /\ pc' = "notify" => endIndex' = endIndex
      /\ pc' = "write" => startIndex' = endIndex /\ outbox' = <<>>
      /\ outbox' = ToSend(found', failed')
      /\ UNCHANGED <<trees, waived, anchor, curCheckpoint, inputEndIndex>>
  BY DEF IdentitySearch, Fetchable, SearchReturns, Advance, shardVars
<1>2. SearchedShard = 1
  BY <1>1, OneShardSearched DEF Running
<1>3. /\ startIndex \in Int /\ endIndex \in Int /\ startIndex <= endIndex
      /\ curCheckpoint \in Checkpoint /\ Size(curCheckpoint) \in Nat
  BY <1>1, SizeType DEF Shape, LoopOK
<1>4. ASSUME NEW j \in Fetched PROVE Held(j)'
  <2>1. <<1, j>> \in searched' /\ j \in 0..(Len(trees'[1]) - 1)
    BY <1>1, <1>2, <1>4 DEF EntriesOf
  <2>2. ASSUME NEW payload \in Payloads, IsOf(j, KindOf(payload))'
        PROVE  j \in Listed(payload)'
    <3>1. trees[1][j + 1] \in KindOf(payload)
      BY <1>1, <2>2 DEF IsOf, KindOf
    <3>2. j \in MatchedIndices(KindOf(payload))
      BY <1>2, <1>4, <3>1 DEF MatchedIndices
    <3> QED  BY <1>1, <3>2 DEF KindOf, Listed
  <2> QED  BY <2>1, <2>2 DEF Held
<1>5. ASSUME NEW j \in 0..endIndex PROVE Settled(j)' \/ Held(j)'
  <2>1. CASE j <= startIndex
    BY <2>1, <1>1, <1>3 DEF FirstShardInv, Covered
  <2>2. CASE j > startIndex
    <3>1. j \in (startIndex + 1)..endIndex /\ startIndex < endIndex
      BY <2>2, <1>3
    <3>2. j \in Fetched
      <4>1. -1 <= startIndex
        BY <1>1, <1>3, NilAssumption DEF PlaceInLog, InLog
      <4> QED  BY <3>1, <4>1, <1>3, RangeIsFetched DEF Fetched
    <3> QED  BY <3>2, <1>4
  <2> QED  BY <2>1, <2>2, <1>3
<1>6. \A j \in 0..(Size(curCheckpoint) - 1) : j > endIndex => <<1, j>> \in waived
  BY <1>1 DEF FirstShardInv
<1>7. anchor' # NoCheckpoint => anchor'.origin = 1 /\ Covered(Size(anchor) - 1)'
  BY <1>1, AnchorCovered
<1>8. curCheckpoint'.origin = 1 /\ rekorShards' \subseteq {1}
  BY <1>1 DEF FirstShardInv
<1>9. CASE pc' = "notify"
  <2>1. \A j \in 0..(Size(curCheckpoint) - 1)' : j > endIndex' => <<1, j>> \in waived'
    BY <1>1, <1>6, <1>9 DEF Size
  <2>2. (\A j \in 0..endIndex : Settled(j) \/ Held(j))'
    BY <1>1, <1>5, <1>9
  <2> QED  BY <1>7, <1>8, <1>9, <2>1, <2>2 DEF FirstShardInv
<1>10. CASE pc' = "write"
  <2>1. SendsDue' /\ outbox' = <<>>
    BY <1>1, <1>2, <1>10, SearchOwes
  <2>2. \A j : Held(j)' => Settled(j)'
    BY <2>1, HeldSettles
  <2>3. \A j \in 0..endIndex : Settled(j)'
    BY <1>5, <2>2
  <2>4. ASSUME NEW j \in 0..(Size(curCheckpoint) - 1) PROVE Settled(j)'
    <3>1. j > endIndex \/ j \in 0..endIndex
      BY <1>3
    <3>2. <<1, j>> \in waived => Settled(j)'
      BY <1>1 DEF Settled
    <3> QED  BY <3>1, <3>2, <1>6, <2>3
  <2>5. Covered(Size(curCheckpoint) - 1)' /\ Covered(startIndex)'
    BY <1>1, <1>10, <2>3, <2>4 DEF Covered, Size
  <2> QED  BY <1>7, <1>8, <1>10, <2>5 DEF FirstShardInv
<1> QED  BY <1>1, <1>9, <1>10

\* The Send that empties the outbox settles what was held, and the loop goes on to
\* the write; the others leave its place alone.
LEMMA NotifyFirstShard ==
  ASSUME Shape, FirstShardInv, ListsInv, Notify, ShardsKept, listed = {1}, Shape', Grows,
         \A i : Settled(i) => Settled(i)'
  PROVE  FirstShardInv'
<1>1. /\ pc = "notify" /\ outbox' = Tail(outbox)
      /\ UNCHANGED <<waived, anchor, curCheckpoint, inputEndIndex, found, failed>>
      /\ \/ Len(outbox) = 1 /\ pc' = "write" /\ startIndex' = endIndex
         \/ UNCHANGED <<pc, startIndex, endIndex>>
  BY DEF Notify, SendSucceeds, Advance
<1>2. rekorShards' = rekorShards /\ rekorShards \subseteq {1}
  BY <1>1 DEF ShardsKept, FirstShardInv
<1>3. \A i : Held(i) => Held(i)'
  BY <1>1, HeldStays
<1>4. CASE UNCHANGED <<pc, startIndex, endIndex>>
  BY <1>1, <1>2, <1>3, <1>4, StutterFirstShard
<1>5. CASE Len(outbox) = 1 /\ pc' = "write" /\ startIndex' = endIndex
  <2>1. SendsDue'
    <3>1. SearchedShard = 1 /\ SendsDue
      BY <1>1, OneShardSearched DEF Running, ListsInv
    <3> QED  BY <3>1, NotifyPays
  <2>2. outbox' = <<>>
    <3>1. outbox \in Seq(Sends) /\ outbox # <<>>
      BY <1>1 DEF Shape, LoopOK, LoopTypeOK
    <3>2. Tail(outbox) \in Seq(Sends) /\ Len(Tail(outbox)) = 0
      BY <3>1, <1>5, HeadTailProperties
    <3> QED  BY <3>2, <1>1, EmptySeq
  <2>3. \A j : Held(j)' => Settled(j)'
    BY <2>1, <2>2, HeldSettles
  <2>4. ASSUME NEW j \in 0..endIndex PROVE Settled(j)'
    <3>1. Settled(j) \/ Held(j)
      BY <1>1 DEF FirstShardInv
    <3> QED  BY <3>1, <1>3, <2>3
  <2>5. ASSUME NEW j \in 0..(Size(curCheckpoint) - 1) PROVE Settled(j)'
    <3>1. endIndex \in Int
      BY <1>1 DEF Shape, LoopOK
    <3>2. j > endIndex \/ j \in 0..endIndex
      BY <3>1
    <3>3. j > endIndex => <<1, j>> \in waived'
      BY <1>1 DEF FirstShardInv
    <3> QED  BY <3>2, <3>3, <2>4 DEF Settled
  <2>6. Covered(Size(curCheckpoint) - 1)' /\ Covered(startIndex)'
    BY <1>1, <1>5, <2>4, <2>5 DEF Covered, Size
  <2>7. anchor' # NoCheckpoint => anchor'.origin = 1 /\ Covered(Size(anchor) - 1)'
    BY <1>1, AnchorCovered
  <2>8. curCheckpoint'.origin = 1
    BY <1>1 DEF FirstShardInv
  <2> QED  BY <1>2, <1>5, <2>6, <2>7, <2>8 DEF FirstShardInv
<1> QED  BY <1>1, <1>4, <1>5

\* Every step keeps the place of the loop in the first shard.
LEMMA FirstShardInductive ==
  ASSUME SafetyInv, PlaceInLog, FirstShardInv, ListsInv, [Next]_vars
  PROVE  FirstShardInv'
<1> SUFFICES ASSUME listed' = {1} PROVE FirstShardInv'
  BY DEF FirstShardInv
<1>1. /\ listed = {1} /\ Newest(listed) = 1
      /\ rekorShards \subseteq {1}
  BY FirstShardBefore DEF SafetyInv, Shape, FirstShardInv
<1>2. Shape /\ Shape' /\ Grows
  BY ShapeInductive, EverythingGrows DEF SafetyInv
<1>3. \A i : Settled(i) => Settled(i)'
  BY <1>2, SettledStays
<1>4. found' = found /\ failed' = failed => \A i : Held(i) => Held(i)'
  BY <1>2, HeldStays
<1>5. CASE LogAppends \/ LogRewrites \/ ShardAdded \/ ShardRemoved \/ UNCHANGED vars
  <2>1. /\ UNCHANGED <<rekorShards, waived, anchor, found, failed>>
        /\ UNCHANGED <<pc, startIndex, endIndex, inputEndIndex, curCheckpoint>>
    BY <1>5 DEF LogAppends, LogRewrites, ShardAdded, ShardRemoved, vars, loopVars,
       history
  <2> QED  BY <1>1, <1>3, <1>4, <2>1, StutterFirstShard
<1>6. CASE Start
  <2>1. /\ pc' = "check" /\ endIndex' = inputEndIndex' /\ rekorShards' = listed
        /\ waived' = waived \cup StartWaived
        /\ anchor' = anchor
    BY <1>6 DEF Start, StartProcess
  <2>2. startIndex' # NoIndex => Covered(startIndex)'
    BY <1>1, <2>1 DEF StartWaived, EntriesOf, Covered, Settled
  <2>3. anchor' # NoCheckpoint => anchor'.origin = 1 /\ Covered(Size(anchor) - 1)'
    BY <1>1, <1>3, <2>1, AnchorCovered
  <2> QED  BY <1>1, <2>1, <2>2, <2>3 DEF FirstShardInv
<1>7. CASE Ends /\ ShardsKept
  <2>1. pc' = "down" /\ rekorShards' = {} /\ waived' = waived /\ anchor' = anchor
    BY <1>7, EndForgets DEF LoopReturns, ShardsKept
  <2> QED  BY <1>1, <1>3, <2>1, StutterFirstShard
<1>8. CASE Signal /\ ShardsKept
  <2>1. /\ rekorShards' \subseteq {1} /\ UNCHANGED <<waived, anchor, found, failed>>
        /\ UNCHANGED <<pc, startIndex, endIndex, inputEndIndex, curCheckpoint>>
    BY <1>1, <1>8 DEF Signal, CatchSignal, ShardsKept, roundVars, history
  <2> QED  BY <1>1, <1>3, <1>4, <2>1, StutterFirstShard
<1>9. CASE (NextRound \/ ConsistencyFails) /\ ShardsKept
  <2>1. /\ rekorShards' \subseteq {1} /\ UNCHANGED <<waived, anchor>>
    BY <1>1, <1>9 DEF NextRound, ConsistencyFails, ShardsKept, history
  <2>2. CASE pc' = "down"
    BY <1>1, <1>3, <2>1, <2>2, StutterFirstShard
  <2>3. CASE /\ pc \in {"check", "wait"} /\ pc' \in {"check", "wait"}
             /\ startIndex' = startIndex
             /\ pc' = "check" => endIndex' = inputEndIndex'
    <3>1. anchor' # NoCheckpoint => anchor'.origin = 1 /\ Covered(Size(anchor) - 1)'
      BY <1>1, <1>3, <2>1, AnchorCovered
    <3>2. startIndex' # NoIndex => Covered(startIndex)'
      BY <1>1, <1>3, <2>3 DEF FirstShardInv, Covered
    <3> QED  BY <2>1, <2>3, <3>1, <3>2 DEF FirstShardInv
  <2> QED
    BY <1>9, <2>2, <2>3 DEF NextRound, Tick, ConsistencyFails, CheckFails, LoopReturns
<1>10. CASE RunConsistencyCheck /\ ShardsKept
  <2>1. rekorShards' = rekorShards
    BY <1>10 DEF RunConsistencyCheck, CheckPasses, ShardsKept
  <2> QED  BY <1>1, <1>3, <1>10, <2>1, CheckFirstShard
<1>11. CASE IdentitySearch /\ ShardsKept
  <2>1. rekorShards' = rekorShards
    BY <1>11 DEF IdentitySearch, SearchReturns, ShardsKept
  <2> QED  BY <1>1, <1>2, <1>3, <1>11, <2>1, SearchFirstShard
<1>12. CASE Notify /\ ShardsKept
  BY <1>1, <1>2, <1>3, <1>12, NotifyFirstShard
<1>13. CASE WriteCheckpoint /\ ShardsKept
  <2>1. /\ pc = "write" /\ anchor' \in {anchor, curCheckpoint}
        /\ \/ pc' = "down"
           \/ pc' = "wait" /\ startIndex' = startIndex /\ inputEndIndex = NoIndex
    BY <1>13 DEF WriteCheckpoint, CheckpointHandled, LoopReturns
  <2>2. rekorShards' \subseteq {1}
    BY <1>1, <1>13 DEF ShardsKept
  <2>3. /\ curCheckpoint.origin = 1 /\ Covered(Size(curCheckpoint) - 1)
        /\ startIndex # NoIndex /\ inputEndIndex = NoIndex => Covered(startIndex)
    BY <1>1, <2>1 DEF FirstShardInv
  <2>4. anchor' # NoCheckpoint => anchor'.origin = 1 /\ Covered(Size(anchor) - 1)'
    BY <1>1, <1>3, <2>1, <2>3 DEF FirstShardInv, Covered, Size
  <2>5. pc' = "wait" /\ startIndex' # NoIndex => Covered(startIndex)'
    BY <1>3, <2>1, <2>3 DEF Covered
  <2> QED  BY <2>1, <2>2, <2>4, <2>5 DEF FirstShardInv
<1> QED
  BY <1>5, <1>6, <1>7, <1>8, <1>9, <1>10, <1>11, <1>12, <1>13, NextSorts

\* The lists of the round stay true, and what they hold is sent or still to be.
LEMMA ListsInductive ==
  ASSUME SafetyInv, FirstShardInv, ListsInv, [Next]_vars
  PROVE  ListsInv'
<1> SUFFICES ASSUME listed' = {1}, pc' = "notify" PROVE ListsInv'
  BY DEF ListsInv
<1>1. listed = {1} /\ Shape /\ Shape' /\ Grows
  BY FirstShardBefore, ShapeInductive, EverythingGrows DEF SafetyInv, Shape
<1>2. ASSUME pc = "notify", found' = found, failed' = failed
      PROVE  \A payload \in Payloads : \A i \in Listed(payload)' :
               <<1, i>> \in searched' /\ (~rewritten' => IsOf(i, KindOf(payload))')
  <2> SUFFICES ASSUME NEW payload \in Payloads, NEW i \in Listed(payload)'
               PROVE  <<1, i>> \in searched' /\ (~rewritten' => IsOf(i, KindOf(payload))')
    OBVIOUS
  <2>1. i \in Listed(payload)
    BY <1>2 DEF Listed
  <2>2. <<1, i>> \in searched /\ (~rewritten => IsOf(i, KindOf(payload)))
    BY <1>1, <1>2, <2>1 DEF ListsInv
  <2>3. ASSUME ~rewritten' PROVE IsOf(i, KindOf(payload))'
    <3>1. IsOf(i, KindOf(payload))
      BY <1>1, <2>2, <2>3 DEF Grows
    <3>2. i \in 0..(Len(trees'[1]) - 1) /\ trees'[1][i + 1] = trees[1][i + 1]
      BY <1>1, <2>3, <3>1, EntryStays DEF IsOf
    <3> QED  BY <3>1, <3>2 DEF IsOf, KindOf
  <2> QED  BY <1>1, <2>2, <2>3 DEF Grows
<1>3. ASSUME pc = "notify", UNCHANGED <<found, failed, outbox>>
      PROVE  ListsInv'
  <2>1. SendsDue
    BY <1>1, <1>3 DEF ListsInv
  <2>2. SendsDue'
    BY <1>1, <1>3, <2>1 DEF SendsDue, Grows, Listed, Pending
  <2> QED  BY <1>2, <1>3, <2>2 DEF ListsInv
<1>4. CASE LogAppends \/ LogRewrites \/ ShardAdded \/ ShardRemoved \/ UNCHANGED vars
           \/ Signal
  BY <1>4, <1>3 DEF LogAppends, LogRewrites, ShardAdded, ShardRemoved, vars, loopVars,
     Signal, CatchSignal, roundVars
<1>5. CASE IdentitySearch
  <2>1. /\ pc = "search" /\ found' = MatchedIndices(Matching)
        /\ failed' = MatchedIndices(Unreadable)
        /\ searched' = searched \cup EntriesOf(SearchedShard, Fetched)
        /\ Fetched \subseteq 0..(Len(trees[SearchedShard]) - 1)
        /\ trees' = trees
    BY <1>5 DEF IdentitySearch, Fetchable, SearchReturns, shardVars
  <2>2. SearchedShard = 1
    BY <1>1, <2>1, OneShardSearched DEF Running
  <2>3. ASSUME NEW payload \in Payloads, NEW i \in Listed(payload)'
        PROVE  <<1, i>> \in searched' /\ (~rewritten' => IsOf(i, KindOf(payload))')
    <3>1. i \in MatchedIndices(KindOf(payload))
      BY <2>1, <2>3 DEF Listed, KindOf
    <3>2. i \in Fetched /\ trees[1][i + 1] \in KindOf(payload)
      BY <2>2, <3>1 DEF MatchedIndices
    <3>3. <<1, i>> \in searched' /\ i \in 0..(Len(trees[1]) - 1)
      BY <2>1, <2>2, <3>2 DEF EntriesOf
    <3> QED  BY <2>1, <3>2, <3>3 DEF IsOf, KindOf
  <2> QED  BY <1>5, <2>2, <2>3, SearchOwes DEF ListsInv
<1>6. CASE Notify
  <2>1. pc = "notify" /\ found' = found /\ failed' = failed
    BY <1>6 DEF Notify, SendSucceeds
  <2>2. SearchedShard = 1
    BY <1>1, <2>1, OneShardSearched DEF Running
  <2>3. SendsDue'
    BY <1>1, <1>6, <2>1, <2>2, NotifyPays DEF ListsInv
  <2> QED  BY <1>2, <2>1, <2>3 DEF ListsInv
<1>7. CASE Start \/ NextRound \/ ConsistencyFails \/ RunConsistencyCheck
           \/ WriteCheckpoint
  BY <1>7 DEF Start, StartProcess, NextRound, Tick, ConsistencyFails, CheckFails,
     LoopReturns, RunConsistencyCheck, CheckPasses, WriteCheckpoint, CheckpointHandled
<1>8. CASE Ends
  BY <1>8, EndForgets DEF LoopReturns
<1> QED
  BY <1>4, <1>5, <1>6, <1>7, <1>8, NextSorts

\* The checkpoint of the round was served by the shard, which only grows.
LEMMA PrefixInductive ==
  ASSUME SafetyInv, PrefixInv, [Next]_vars
  PROVE  PrefixInv'
<1> SUFFICES ASSUME listed' = {1}, ~rewritten', pc' \in {"search", "notify", "write"}
             PROVE  IsPrefix(curCheckpoint'.tree, trees'[1])
  BY DEF PrefixInv
<1>1. /\ listed = {1} /\ Newest(listed) = 1 /\ Shape /\ Shape'
      /\ ~rewritten /\ IsPrefix(trees[1], trees'[1])
  BY FirstShardBefore, ShapeInductive, EverythingGrows DEF SafetyInv, Shape, Grows
<1>2. trees[1] \in Seq(Entries) /\ trees'[1] \in Seq(Entries)
  <2>1. 1 \in Shards
    BY <1>1, FirstTree DEF Shape
  <2> QED  BY <1>1, <2>1 DEF Shape, ShardsOK
<1>3. CASE RunConsistencyCheck
  <2>1. curCheckpoint' = Latest /\ trees' = trees
    BY <1>1, <1>3, CheckFollows DEF RunConsistencyCheck, shardVars
  <2> QED  BY <1>1, <1>2, <2>1, LatestIsListed, PrefixReflexive DEF Shape
<1>4. ASSUME pc \in {"search", "notify", "write"}, curCheckpoint' = curCheckpoint
      PROVE  IsPrefix(curCheckpoint'.tree, trees'[1])
  <2>1. curCheckpoint.tree \in Seq(Entries)
    BY <1>1, <1>4, SizeType DEF Shape, LoopOK
  <2>2. IsPrefix(curCheckpoint.tree, trees[1])
    BY <1>1, <1>4 DEF PrefixInv
  <2> QED  BY <1>1, <1>2, <1>4, <2>1, <2>2, PrefixTransitive
<1>5. CASE LogAppends \/ LogRewrites \/ ShardAdded \/ ShardRemoved \/ UNCHANGED vars
           \/ Signal
  BY <1>4, <1>5 DEF LogAppends, LogRewrites, ShardAdded, ShardRemoved, vars, loopVars,
     Signal, CatchSignal, roundVars
<1>6. CASE IdentitySearch \/ Notify
  BY <1>4, <1>6 DEF IdentitySearch, Fetchable, SearchReturns, Notify, SendSucceeds
<1>7. CASE Start \/ NextRound \/ ConsistencyFails \/ WriteCheckpoint
  BY <1>7 DEF Start, StartProcess, NextRound, Tick, ConsistencyFails, CheckFails,
     LoopReturns, WriteCheckpoint, CheckpointHandled
<1>8. CASE Ends
  BY <1>8, EndForgets DEF LoopReturns
<1> QED
  BY <1>3, <1>5, <1>6, <1>7, <1>8, NextSorts

\* Every operation keeps it there.
LEMMA PlaceStaysInLog ==
  ASSUME StartsInLog, Shape, PlaceInLog, [Next]_vars
  PROVE  PlaceInLog'
<1>1. CASE LogAppends \/ LogRewrites \/ ShardAdded \/ ShardRemoved \/ UNCHANGED vars
  BY <1>1 DEF LogAppends, LogRewrites, ShardAdded, ShardRemoved, vars, loopVars,
     PlaceInLog, InLog
<1>2. CASE Start
  BY <1>2 DEF Start, StartProcess, StartsInLog, PlaceInLog, InLog
<1>3. CASE Ends \/ (ConsistencyFails /\ flags.once)
  BY <1>3, EndForgets DEF ConsistencyFails, CheckFails, LoopReturns, PlaceInLog
<1>4. CASE Signal \/ NextRound \/ (ConsistencyFails /\ ~flags.once)
  BY <1>4 DEF Signal, CatchSignal, NextRound, Tick, ConsistencyFails, CheckFails,
     PlaceInLog, InLog
<1>5. CASE RunConsistencyCheck
  <2> DEFINE first == GetStartIndex(Stored)
             last  == GetEndIndex(Latest)
             from  == RangeStart(Stored, first)
             to    == RangeEnd(last)
  <2>1. /\ pc = "check" /\ CheckPasses(Stored, Latest, first, last)
        /\ endIndex = inputEndIndex /\ InLog(startIndex)
    BY <1>5 DEF RunConsistencyCheck, PlaceInLog
  <2>2. InLog(last) /\ (Stored # NoCheckpoint => InLog(first))
    <3>1. Latest \in Checkpoint
      BY <2>1, LatestIsListed DEF Shape, Running
    <3>2. Stored # NoCheckpoint => Stored \in Checkpoint
      BY DEF Shape, FilesOK, Stored
    <3> QED  BY <3>1, <3>2, SizeType DEF GetStartIndex, GetEndIndex, InLog
  <2>3. InLog(from) /\ (inputEndIndex = NoIndex => InLog(to))
    BY <2>1, <2>2 DEF RangeStart, RangeEnd
  <2> HIDE DEF first, last
  <2>4. /\ inputEndIndex' = inputEndIndex
        /\ \/ pc' = "write" /\ startIndex' \in {startIndex, to}
           \/ pc' = "search" /\ startIndex' = from
    BY <2>1 DEF CheckPasses
  <2> HIDE DEF from, to
  <2> QED  BY <2>1, <2>3, <2>4 DEF PlaceInLog, InLog
<1>6. CASE IdentitySearch \/ Notify
  <2>1. /\ startIndex \in Int /\ endIndex \in Int /\ startIndex <= endIndex
        /\ InLog(startIndex)
        /\ pc' \in {"notify", "write"} /\ startIndex' \in {startIndex, endIndex}
    BY <1>6 DEF IdentitySearch, Fetchable, SearchReturns, Notify, SendSucceeds, Advance,
       Shape, LoopOK, PlaceInLog
  <2>2. InLog(startIndex')
    BY <2>1, NilAssumption DEF InLog
  <2> QED  BY <2>1, <2>2 DEF PlaceInLog, InLog
<1>7. CASE WriteCheckpoint
  BY <1>7 DEF WriteCheckpoint, CheckpointHandled, LoopReturns, PlaceInLog, InLog
<1> QED
  BY <1>1, <1>2, <1>3, <1>4, <1>5, <1>6, <1>7, NextSorts

\* At first nothing is stored, found or searched.
LEMMA InitFirstShard == Init => FirstShardSafe
<1> SUFFICES ASSUME Init PROVE FirstShardSafe
  OBVIOUS
<1>1. SafetyInv
  BY InitShape DEF SafetyInv, StoredInv, Stored, Init, LoopInit
<1>2. PlaceInLog /\ FirstShardInv /\ ListsInv /\ PrefixInv
  BY DEF Init, LoopInit, PlaceInLog, FirstShardInv, ListsInv, PrefixInv
<1> QED  BY <1>1, <1>2 DEF FirstShardSafe

\* The parts of the invariant together.
LEMMA FirstShardStep ==
  ASSUME StartsInLog, FirstShardSafe, [Next]_vars
  PROVE  FirstShardSafe'
<1>1. Shape' /\ StoredInv'
  BY ShapeInductive, StoredInductive DEF FirstShardSafe, SafetyInv
<1>2. PlaceInLog'
  BY PlaceStaysInLog DEF FirstShardSafe, SafetyInv
<1>3. FirstShardInv' /\ ListsInv' /\ PrefixInv'
  BY FirstShardInductive, ListsInductive, PrefixInductive DEF FirstShardSafe
<1> QED  BY <1>1, <1>2, <1>3 DEF FirstShardSafe, SafetyInv

LEMMA FirstShardIsSafe ==
  ASSUME StartsInLog
  PROVE  Spec => []FirstShardSafe
<1>1. FirstShardSafe /\ [Next]_vars => FirstShardSafe'
  BY FirstShardStep
<1> QED  BY <1>1, InitFirstShard, PTL DEF Spec

\* Until the first rotation, no checkpoint is stored before the entries it commits to
\* were fetched, whatever the width of a tile and wherever the ranges fall in the
\* tiles, and whether or not the shard rewrites its past.
THEOREM NoGapInFirstShard ==
  ASSUME StartsInLog
  PROVE  Spec => []CoverageOfFirstShard
<1>1. FirstShardSafe => CoverageOfFirstShard
  <2> SUFFICES ASSUME FirstShardSafe, listed = {1}, anchor # NoCheckpoint,
                      NEW e \in Below(anchor)
               PROVE  e \in searched \cup waived
    BY DEF CoverageOfFirstShard, Coverage
  <2>1. anchor.origin = 1 /\ Covered(Size(anchor) - 1)
    BY DEF FirstShardSafe, FirstShardInv
  <2>2. PICK j \in 0..(Size(anchor) - 1) : e = <<1, j>>
    BY <2>1 DEF Below, EntriesOf
  <2> QED  BY <2>1, <2>2 DEF Covered, Settled
<1> QED  BY <1>1, FirstShardIsSafe, PTL

\* Nor, on an append-only log, before those that match are in the identities file.
THEOREM NothingUnrecorded ==
  ASSUME StartsInLog
  PROVE  Spec => []RecordedBeforeStored
<1>1. FirstShardSafe => RecordedBeforeStored
  <2> SUFFICES ASSUME FirstShardSafe, listed = {1}, anchor # NoCheckpoint, ~rewritten,
                      NEW e \in Below(anchor) \ waived,
                      trees[e[1]][e[2] + 1] \in Matching
               PROVE  e \in recorded
    BY DEF RecordedBeforeStored
  <2>1. anchor.origin = 1 /\ Covered(Size(anchor) - 1)
    BY DEF FirstShardSafe, FirstShardInv
  <2>2. PICK j \in 0..(Size(anchor) - 1) : e = <<1, j>>
    BY <2>1 DEF Below, EntriesOf
  <2>3. AllSaid(j)
    BY <2>1, <2>2 DEF Covered, Settled
  <2>4. IsOf(j, Matching)
    BY <2>2, <2>3 DEF AllSaid, IsOf
  <2> QED  BY <2>2, <2>3, <2>4 DEF AllSaid
<1> QED  BY <1>1, FirstShardIsSafe, PTL

-----------------------------------------------------------------------------
(* The refinement of the audit, until the first rotation.                  *)

\* Both modules take IsPrefix from the same place.
LEMMA SamePrefix ==
  \A c, d : Audit!IsPrefix(c, d) <=> IsPrefix(c, d)
  BY DEF IsPrefix, Audit!IsPrefix

\* The audit knows the entries and the reports of the first shard by their indices.
LEMMA OfFirstShard ==
  ASSUME NEW entries \in SUBSET (Shards \X Index), NEW i
  PROVE  i \in IndicesOf(entries) <=> <<1, i>> \in entries
<1>1. ASSUME i \in IndicesOf(entries) PROVE <<1, i>> \in entries
  <2>1. PICK e \in entries : e[1] = 1 /\ i = e[2]
    BY <1>1 DEF IndicesOf
  <2>2. e = <<e[1], e[2]>>
    BY <2>1
  <2> QED  BY <2>1, <2>2
<1>2. ASSUME <<1, i>> \in entries PROVE i \in IndicesOf(entries)
  BY <1>2 DEF IndicesOf
<1> QED  BY <1>1, <1>2

LEMMA OfFirstShardReports ==
  ASSUME NEW reports \in SUBSET Reports
  PROVE  /\ \A payload, platform, i :
              <<payload, platform, <<1, i>>>> \in reports
                => <<payload, platform, i>> \in ReportsOf(reports)
         /\ \A report \in ReportsOf(reports) :
              /\ report = <<report[1], report[2], report[3]>>
              /\ <<report[1], report[2], <<1, report[3]>>>> \in reports
<1>1. ASSUME NEW payload, NEW platform, NEW i,
             <<payload, platform, <<1, i>>>> \in reports
      PROVE  <<payload, platform, i>> \in ReportsOf(reports)
  <2> DEFINE r == <<payload, platform, <<1, i>>>>
  <2>1. r \in reports /\ r[3][1] = 1 /\ <<r[1], r[2], r[3][2]>> = <<payload, platform, i>>
    BY <1>1
  <2> HIDE DEF r
  <2> QED  BY <2>1 DEF ReportsOf
<1>2. ASSUME NEW report \in ReportsOf(reports)
      PROVE  /\ report = <<report[1], report[2], report[3]>>
             /\ <<report[1], report[2], <<1, report[3]>>>> \in reports
  <2>1. PICK r \in reports : r[3][1] = 1 /\ report = <<r[1], r[2], r[3][2]>>
    BY <1>2 DEF ReportsOf
  <2>2. r \in Payloads \X STRING \X (Shards \X Index)
    BY <2>1 DEF Reports
  <2>3. r = <<r[1], r[2], r[3]>> /\ r[3] \in Shards \X Index
    BY <2>2
  <2>4. r[3] = <<r[3][1], r[3][2]>>
    BY <2>3
  <2>5. report[1] = r[1] /\ report[2] = r[2] /\ report[3] = r[3][2]
    BY <2>1
  <2>6. r[3] = <<1, report[3]>>
    BY <2>1, <2>4, <2>5
  <2>7. r = <<report[1], report[2], <<1, report[3]>>>>
    BY <2>3, <2>5, <2>6
  <2> QED  BY <2>1, <2>5, <2>7
<1> QED  BY <1>1, <1>2

\* An empty audit begins.
LEMMA AuditStarts == Init => Audit!Init
<1> SUFFICES ASSUME Init PROVE Audit!Init
  OBVIOUS
<1>1. trees[1] \in Seq(Entries)
  BY InitShape, FirstTree DEF Shape
<1>2. ~rewritten = TRUE
  BY DEF Init
<1>3. /\ anchor = NoCheckpoint /\ IndicesOf(searched) = {} /\ IndicesOf(waived) = {}
      /\ IndicesOf(recorded) = {} /\ ReportsOf(delivered) = {}
  BY DEF Init, IndicesOf, ReportsOf
<1> QED  BY <1>1, <1>2, <1>3 DEF Audit!Init

\* What is settled is dealt with.
LEMMA SettledDealtWith ==
  ASSUME Shape, ~rewritten, NEW i, Settled(i)
  PROVE  Audit!DealtWith(i)
<1>1. /\ i \in IndicesOf(waived) <=> <<1, i>> \in waived
      /\ i \in IndicesOf(searched) <=> <<1, i>> \in searched
      /\ i \in IndicesOf(recorded) <=> <<1, i>> \in recorded
  BY OfFirstShard DEF Shape, HistoryOK, FilesOK
<1>2. CASE <<1, i>> \in waived
  BY <1>1, <1>2 DEF Audit!DealtWith
<1>3. CASE <<1, i>> \in searched /\ AllSaid(i)
  <2>1. /\ i \in 0..(Len(trees[1]) - 1)
        /\ trees[1][i + 1] \in Matching => <<1, i>> \in recorded
    BY <1>3 DEF AllSaid, IsOf
  <2>2. ASSUME NEW payload \in Payloads, NEW n \in 1..Len(Platforms),
               trees[1][i + 1] \in Audit!Kind(payload)
        PROVE  <<payload, Platforms[n], i>> \in ReportsOf(delivered)
    <3>1. IsOf(i, KindOf(payload))
      BY <2>1, <2>2 DEF IsOf, KindOf, Audit!Kind
    <3>2. <<payload, Platforms[n], <<1, i>>>> \in delivered
      BY <1>3, <3>1 DEF AllSaid
    <3> QED  BY <3>2, OfFirstShardReports DEF Shape, HistoryOK
  <2> QED  BY <1>1, <1>3, <2>1, <2>2 DEF Audit!DealtWith, Audit!Indices, Payloads
<1> QED  BY <1>2, <1>3 DEF Settled

\* The steps in which the monitor does what it promises: a search, which may fail at
\* its files, a Send and the write of a checkpoint.
LEMMA SearchExamines ==
  ASSUME Shape, Shape', SearchedShard = 1,
         Fetched \subseteq 0..(Len(trees[1]) - 1),
         searched' = searched \cup EntriesOf(1, Fetched),
         NEW written \in SUBSET MatchedIndices(Matching),
         recorded' = recorded \cup EntriesOf(1, written),
         UNCHANGED <<trees, waived, delivered, anchor, rewritten>>
  PROVE  Audit!Examine
<1>1. \A i : /\ i \in IndicesOf(searched) <=> <<1, i>> \in searched
             /\ i \in IndicesOf(searched)' <=> <<1, i>> \in searched'
             /\ i \in IndicesOf(recorded) <=> <<1, i>> \in recorded
             /\ i \in IndicesOf(recorded)' <=> <<1, i>> \in recorded'
  <2>1. /\ searched \in SUBSET (Shards \X Index) /\ searched' \in SUBSET (Shards \X Index)
        /\ recorded \in SUBSET (Shards \X Index) /\ recorded' \in SUBSET (Shards \X Index)
    BY DEF Shape, HistoryOK, FilesOK
  <2>2. IndicesOf(searched)' = IndicesOf(searched')
        /\ IndicesOf(recorded)' = IndicesOf(recorded')
    BY DEF IndicesOf
  <2> QED  BY <2>1, <2>2, OfFirstShard
<1>2. /\ \A i : <<1, i>> \in searched' <=> <<1, i>> \in searched \/ i \in Fetched
      /\ \A i : <<1, i>> \in recorded' <=> <<1, i>> \in recorded \/ i \in written
  BY DEF EntriesOf
<1>3. Audit!Indices(trees[1]) = 0..(Len(trees[1]) - 1)
  BY DEF Audit!Indices
<1>4. ASSUME NEW i \in IndicesOf(recorded)' \ IndicesOf(recorded)
      PROVE  Audit!Justified("found", i)'
  <2>1. i \in MatchedIndices(Matching)
    BY <1>1, <1>2, <1>4
  <2>2. i \in Fetched /\ trees[1][i + 1] \in Matching
    BY <2>1 DEF MatchedIndices
  <2>3. i \in IndicesOf(searched)' /\ i \in Audit!Indices(trees[1])
    BY <1>1, <1>2, <1>3, <2>2
  <2> QED  BY <2>2, <2>3 DEF Audit!Justified, Audit!Kind, Audit!Indices
<1>5. /\ IndicesOf(searched) \subseteq IndicesOf(searched)'
      /\ IndicesOf(searched)' \ IndicesOf(searched) \subseteq Audit!Indices(trees[1])
      /\ IndicesOf(recorded) \subseteq IndicesOf(recorded)'
  BY <1>1, <1>2, <1>3
<1> QED  BY <1>4, <1>5 DEF Audit!Examine

LEMMA NotifyTells ==
  ASSUME FirstShardSafe, Shape', listed = {1}, Notify
  PROVE  Audit!Tell
<1> DEFINE send == Head(outbox)
<1>1. /\ pc = "notify"
      /\ delivered' = delivered \cup
           {<<send.payload, send.platform, e>> :
              e \in EntriesOf(SearchedShard, Reported(send))}
      /\ UNCHANGED <<trees, recorded, searched, waived, anchor, rewritten>>
  BY DEF Notify, SendSucceeds, shardVars, files
<1>2. SearchedShard = 1
  BY <1>1, OneShardSearched DEF FirstShardSafe, SafetyInv, Running
<1>3. send.payload \in Payloads
  <2>1. outbox \in Seq(Sends) /\ outbox # <<>>
    BY <1>1 DEF FirstShardSafe, SafetyInv, Shape, LoopOK, LoopTypeOK
  <2>2. send \in Sends
    BY <2>1, HeadTailProperties
  <2> QED  BY <2>2 DEF Sends
<1>4. Reported(send) = Listed(send.payload)
  BY DEF Reported, Listed
<1> HIDE DEF send
<1>5. delivered \in SUBSET Reports /\ delivered' \in SUBSET Reports
  BY DEF FirstShardSafe, SafetyInv, Shape, HistoryOK
<1>6. ReportsOf(delivered)' = ReportsOf(delivered')
  BY DEF ReportsOf
<1>7. ReportsOf(delivered) \subseteq ReportsOf(delivered')
  <2> SUFFICES ASSUME NEW report \in ReportsOf(delivered)
               PROVE  report \in ReportsOf(delivered')
    OBVIOUS
  <2>1. /\ report = <<report[1], report[2], report[3]>>
        /\ <<report[1], report[2], <<1, report[3]>>>> \in delivered'
    BY <1>1, <1>5, OfFirstShardReports
  <2> QED  BY <1>5, <2>1, OfFirstShardReports
<1>8. ASSUME NEW report \in ReportsOf(delivered') \ ReportsOf(delivered)
      PROVE  Audit!Justified(report[1], report[3])
  <2>1. /\ report = <<report[1], report[2], report[3]>>
        /\ <<report[1], report[2], <<1, report[3]>>>> \in delivered'
    BY <1>5, OfFirstShardReports
  <2>2. <<report[1], report[2], <<1, report[3]>>>> \notin delivered
    BY <1>5, <2>1, OfFirstShardReports
  <2>3. PICK e \in EntriesOf(1, Reported(send)) :
          <<report[1], report[2], <<1, report[3]>>>> = <<send.payload, send.platform, e>>
    BY <1>1, <1>2, <2>1, <2>2
  <2>4. report[1] = send.payload /\ e = <<1, report[3]>>
    BY <2>3
  <2>5. report[3] \in Listed(send.payload)
    BY <1>4, <2>4 DEF EntriesOf
  <2>6. /\ <<1, report[3]>> \in searched
        /\ ~rewritten => IsOf(report[3], KindOf(send.payload))
    BY <1>1, <1>3, <2>5 DEF FirstShardSafe, ListsInv
  <2>7. report[3] \in IndicesOf(searched)
    BY <2>6, OfFirstShard DEF FirstShardSafe, SafetyInv, Shape, HistoryOK
  <2> QED
    BY <2>4, <2>6, <2>7 DEF Audit!Justified, IsOf, KindOf, Audit!Kind, Audit!Indices
<1> QED  BY <1>1, <1>6, <1>7, <1>8 DEF Audit!Tell

LEMMA WriteTrusts ==
  ASSUME FirstShardSafe, listed = {1}, WriteCheckpoint, anchor' # anchor
  PROVE  Audit!Trust
<1>1. /\ pc = "write" /\ anchor' = curCheckpoint
      /\ UNCHANGED <<trees, recorded, searched, waived, delivered, rewritten>>
  BY DEF WriteCheckpoint, shardVars
<1>2. /\ curCheckpoint.tree \in Seq(Entries) /\ curCheckpoint # NoCheckpoint
      /\ Shape /\ curCheckpoint.origin = 1
  BY <1>1, SizeType, V2MarksAssumption DEF FirstShardSafe, SafetyInv, Shape, LoopOK,
     FirstShardInv
<1>3. anchor # NoCheckpoint => IsPrefix(anchor.tree, curCheckpoint.tree)
  <2> SUFFICES ASSUME anchor # NoCheckpoint
               PROVE  IsPrefix(anchor.tree, curCheckpoint.tree)
    OBVIOUS
  <2>1. anchor.origin = 1 /\ Follows(anchor, curCheckpoint)
    BY <1>1 DEF FirstShardSafe, SafetyInv, StoredInv, FirstShardInv
  <2> QED  BY <1>2, <2>1 DEF Follows
<1>4. ASSUME ~rewritten PROVE IsPrefix(curCheckpoint.tree, trees[1])
  BY <1>1, <1>4 DEF FirstShardSafe, PrefixInv
<1>5. ASSUME ~rewritten, NEW i \in Audit!Indices(curCheckpoint.tree)
      PROVE  Audit!DealtWith(i)
  <2>1. Covered(Size(curCheckpoint) - 1)
    BY <1>1 DEF FirstShardSafe, FirstShardInv
  <2>2. i \in 0..(Size(curCheckpoint) - 1)
    BY <1>5 DEF Audit!Indices, Size
  <2> QED  BY <1>2, <1>5, <2>1, <2>2, SettledDealtWith DEF Covered
<1>6. (IF anchor = NoCheckpoint THEN NoCheckpoint ELSE anchor.tree)' = curCheckpoint.tree
  BY <1>1, <1>2
<1>7. (IF anchor = NoCheckpoint THEN NoCheckpoint ELSE anchor.tree) # NoCheckpoint =>
        anchor # NoCheckpoint
        /\ (IF anchor = NoCheckpoint THEN NoCheckpoint ELSE anchor.tree) = anchor.tree
  OBVIOUS
<1> QED  BY <1>1, <1>2, <1>3, <1>4, <1>5, <1>6, <1>7, SamePrefix DEF Audit!Trust

\* Beside the first shard, every step of the monitor is a step of the promise or none.
LEMMA AuditStepImplements ==
  ASSUME FirstShardSafe, [Next]_vars, listed' = {1}
  PROVE  [Audit!Next]_(Audit!auditVars)
<1> DEFINE Same == UNCHANGED <<trees, rewritten, anchor, searched, waived, recorded,
                               delivered>>
<1>1. Same => UNCHANGED Audit!auditVars
  BY DEF Audit!auditVars, IndicesOf, ReportsOf
<1>2. listed = {1} /\ Shape /\ Shape'
  BY FirstShardBefore, ShapeInductive DEF FirstShardSafe, SafetyInv, Shape
<1>3. /\ 1 \in Shards /\ trees \in [Shards -> Seq(Entries)]
      /\ trees[1] \in Seq(Entries) /\ trees'[1] \in Seq(Entries)
  <2>1. 1 \in Shards
    BY <1>2, FirstTree DEF Shape
  <2> QED  BY <1>2, <2>1 DEF Shape, ShardsOK
<1> HIDE DEF Same
<1>4. CASE LogAppends
  <2>1. UNCHANGED <<rewritten, anchor, searched, waived, recorded, delivered>>
    BY <1>4 DEF LogAppends, files, history
  <2>2. IsPrefix(trees[1], trees'[1])
    <3>1. PICK e \in Entries : trees' = [trees EXCEPT ![1] = Append(@, e)]
      BY <1>2, <1>4 DEF LogAppends
    <3>2. trees'[1] = Append(trees[1], e)
      BY <1>3, <3>1
    <3> QED  BY <1>3, <3>2, AppendPrefix
  <2>3. Audit!Grow
    BY <1>3, <2>1, <2>2, SamePrefix DEF Audit!Grow, IndicesOf, ReportsOf
  <2> QED  BY <2>3 DEF Audit!Next
<1>5. CASE LogRewrites
  <2>1. /\ rewritten' = TRUE
        /\ UNCHANGED <<anchor, searched, waived, recorded, delivered>>
    BY <1>5 DEF LogRewrites, files
  <2>2. Audit!Cheat
    BY <1>3, <2>1 DEF Audit!Cheat, IndicesOf, ReportsOf
  <2> QED  BY <2>2 DEF Audit!Next
<1>6. CASE Start \/ RunConsistencyCheck
  <2>1. /\ waived \subseteq waived'
        /\ UNCHANGED <<trees, rewritten, recorded, searched, delivered, anchor>>
    BY <1>6 DEF Start, RunConsistencyCheck, shardVars, files
  <2>2. IndicesOf(waived) \subseteq IndicesOf(waived)'
    BY <2>1 DEF IndicesOf
  <2>3. Audit!Excuse
    BY <2>1, <2>2 DEF Audit!Excuse, IndicesOf, ReportsOf
  <2> QED  BY <2>3 DEF Audit!Next
<1>7. CASE IdentitySearch \/ IdentitySearchFails
  <2>1. /\ pc = "search" /\ Fetched \subseteq 0..(Len(trees[SearchedShard]) - 1)
        /\ searched' = searched \cup EntriesOf(SearchedShard, Fetched)
        /\ \E written \in SUBSET MatchedIndices(Matching) :
             recorded' = recorded \cup EntriesOf(SearchedShard, written)
        /\ UNCHANGED <<trees, waived, delivered, anchor, rewritten>>
    <3>1. CASE IdentitySearch
      BY <3>1 DEF IdentitySearch, Fetchable, shardVars
    <3>2. CASE IdentitySearchFails
      BY <3>2 DEF IdentitySearchFails, Fetchable, shardVars
    <3> QED  BY <1>7, <3>1, <3>2
  <2>2. SearchedShard = 1
    BY <1>2, <2>1, OneShardSearched DEF FirstShardSafe, Running
  <2>3. Audit!Examine
    BY <1>2, <2>1, <2>2, SearchExamines
  <2> QED  BY <2>3 DEF Audit!Next
<1>8. CASE Notify
  BY <1>2, <1>8, NotifyTells DEF Audit!Next
<1>9. CASE WriteCheckpoint
  <2>1. CASE anchor' # anchor
    BY <1>2, <1>9, <2>1, WriteTrusts DEF Audit!Next
  <2>2. CASE anchor' = anchor
    <3>1. Same
      BY <1>9, <2>2 DEF Same, WriteCheckpoint, shardVars
    <3> QED  BY <3>1, <1>1
  <2> QED  BY <2>1, <2>2
<1>10. CASE Ends /\ ~IdentitySearchFails
  <2>1. Same
    BY <1>10, EndForgets DEF Same, shardVars
  <2> QED  BY <2>1, <1>1
<1>11. CASE Signal \/ NextRound \/ ConsistencyFails \/ ShardAdded \/ ShardRemoved
            \/ UNCHANGED vars
  <2>1. Same
    BY <1>11 DEF Same, Signal, NextRound, ConsistencyFails, ShardAdded, ShardRemoved,
       vars, shardVars, files, history
  <2> QED  BY <2>1, <1>1
<1> QED
  BY <1>4, <1>5, <1>6, <1>7, <1>8, <1>9, <1>10, <1>11, NextSorts

\* The monitor of a sharded log keeps, until the first rotation, the promise those of
\* Rekor v1 and CT keep: whatever fails, it reports only what it fetched and what is
\* so, takes no report back, and stores a checkpoint only when it extends the last one
\* and everything it commits to is searched, recorded and reported, or waived.
THEOREM PromiseKeptInFirstShard ==
  ASSUME StartsInLog
  PROVE  Spec => PromiseOfFirstShard
<1>1. FirstShardSafe /\ [Next]_vars =>
        [listed' = {1} => [Audit!Next]_(Audit!auditVars)]_vars
  BY AuditStepImplements
<1> QED  BY <1>1, FirstShardIsSafe, PTL DEF Spec, PromiseOfFirstShard

\* Beside a signing config that never lists another shard, it implements LogAudit.
THEOREM OneShardIsAudited ==
  ASSUME StartsInLog
  PROVE  Spec /\ [](listed = {1}) => Audit!Spec
<1> DEFINE OneShard == listed = {1}
<1>1. FirstShardSafe /\ [Next]_vars /\ OneShard' => [Audit!Next]_(Audit!auditVars)
  BY AuditStepImplements
<1> HIDE DEF OneShard
<1>2. Spec /\ []OneShard => Audit!Spec
  BY <1>1, AuditStarts, FirstShardIsSafe, PTL DEF Spec, Audit!Spec
<1> QED  BY <1>2 DEF OneShard
=============================================================================
