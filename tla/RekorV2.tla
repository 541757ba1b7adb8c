-------------------------------- MODULE RekorV2 --------------------------------
(***************************************************************************)
(* The monitor of a sharded, tile-based Rekor v2 log: RekorV2MonitorLogic  *)
(* of cmd/rekor_monitor/main.go with pkg/rekor/v2, on MonitorLoop, beside  *)
(* the shards and the signing config that lists them.                      *)
(*                                                                         *)
(* Shards are numbered in the order of their validity; a later one is      *)
(* newer.  Each has a tree, and indices, of its own.  An entry of the log  *)
(* is therefore a pair <<shard, index>>, although the loop has only the    *)
(* index.  A checkpoint is represented by its origin, the shard, and what  *)
(* it commits to, a prefix of that shard's tree.                           *)
(*                                                                         *)
(* RunConsistencyCheck works on a copy of the process's shards, which it   *)
(* brings up to date; IdentitySearch works on the shards the process was   *)
(* started with.  What the process does with its files is what it does     *)
(* for a v1 log (MonitorProcess), less the torn writes.                    *)
(***************************************************************************)
EXTENDS MonitorLoop, Tiles, FiniteSetsExt

CONSTANTS
  EmptyFile,      \* no checkpoint file, or one of size 0
  Entries,        \* what an entry can be
  Matching,       \* entries that match a monitored value
  Unreadable,     \* entries that MatchedIndices reports as failed
  MaxShards,      \* bound: the shards there will ever be
  MaxLog,         \* bound: the entries each shard will ever have
  MayRewrite      \* whether a shard may stop being append-only

ASSUME V2Assumption ==
  /\ Matching \subseteq Entries
  /\ Unreadable \subseteq Entries
  /\ MaxShards \in Nat \ {0}
  /\ MaxLog \in [1..MaxShards -> Nat]
  /\ MayRewrite \in BOOLEAN

Shards == 1..MaxShards
Checkpoint == [origin : Shards, tree : Seq(Entries)]

ASSUME V2MarksAssumption ==
  {NoCheckpoint, EmptyFile} \cap Checkpoint = {}

VARIABLES
  trees,          \* the entries of each shard
  listed,         \* the v2 shards the signing config lists
  rekorShards,    \* those it listed when the process was started
  file,           \* the checkpoint file
  recorded,       \* the entries in the identities file
  latestIndex     \* LatestIndex of the identity metadata file

shardVars == <<trees, listed>>
files == <<file, recorded, latestIndex>>

\* What the properties remember of the past; no action reads it.
VARIABLES
  searched,       \* the entries some identity search fetched
  waived,         \* the entries the operator asked not to search
  delivered,      \* <<payload, platform, entry>> reports a platform accepted
  anchor,         \* the last checkpoint stored
  rewritten       \* whether a shard has rewritten its past

history == <<searched, waived, delivered, anchor, rewritten>>
vars == <<loopVars, shardVars, rekorShards, files, history>>

Newest(shards) == Max(shards)

\* The checkpoint a shard serves.
Served(shard) == [origin |-> shard, tree |-> trees[shard]]

Size(checkpoint) == Len(checkpoint.tree)

\* A payload, the platform that accepted it, and an entry it was about.
Reports == Payloads \X STRING \X (Shards \X Index)

\* The entries of a shard with an index in a set.
EntriesOf(shard, indices) == {shard} \X indices

Init ==
  /\ LoopInit
  /\ trees = [s \in Shards |-> <<>>]
  /\ listed = {1}
  /\ rekorShards = {}
  /\ file = EmptyFile
  /\ recorded = {}
  /\ latestIndex = NoIndex
  /\ searched = {}
  /\ waived = {}
  /\ delivered = {}
  /\ anchor = NoCheckpoint
  /\ rewritten = FALSE

-----------------------------------------------------------------------------
(* The shards and the signing config.                                      *)

LogAppends ==
  /\ \E s \in listed, e \in Entries :
       /\ Len(trees[s]) < MaxLog[s]
       /\ trees' = [trees EXCEPT ![s] = Append(@, e)]
  /\ UNCHANGED <<loopVars, listed, rekorShards, files, history>>

LogRewrites ==
  /\ MayRewrite
  /\ ~rewritten
  /\ \E s \in listed :
       /\ trees[s] # <<>>
       /\ \/ trees' = [trees EXCEPT ![s] = Front(@)]
          \/ \E e \in Entries :
               /\ trees' = [trees EXCEPT ![s] = Append(Front(@), e)]
               /\ trees' # trees
  /\ rewritten' = TRUE
  /\ UNCHANGED <<loopVars, listed, rekorShards, files, searched, waived, delivered,
                 anchor>>

\* A newer shard becomes valid.
ShardAdded ==
  /\ Newest(listed) < MaxShards
  /\ listed' = listed \cup {Newest(listed) + 1}
  /\ UNCHANGED <<loopVars, trees, rekorShards, files, history>>

\* The oldest is taken off the list.
ShardRemoved ==
  /\ Cardinality(listed) > 1
  /\ listed' = listed \ {Min(listed)}
  /\ UNCHANGED <<loopVars, trees, rekorShards, files, history>>

-----------------------------------------------------------------------------
(* Process, signals and ticks.                                             *)

\* A configured startIndex asks for the entries after it.
StartWaived ==
  EntriesOf(Newest(listed), IF startIndex' = NoIndex THEN {} ELSE 0..startIndex')

\* Mutation: the shards are fetched but not kept.
Start_NoShards ==
  /\ StartProcess
  /\ rekorShards' = {}
  /\ waived' = waived \cup StartWaived
  /\ UNCHANGED <<shardVars, files, searched, delivered, anchor, rewritten>>

\* GetRekorShards: the process keeps what the signing config lists now.
Start ==
  /\ StartProcess
  /\ rekorShards' = listed
  /\ waived' = waived \cup StartWaived
  /\ UNCHANGED <<shardVars, files, searched, delivered, anchor, rewritten>>

\* A process that goes down forgets its shards.
ShardsKept == rekorShards' = IF pc' = "down" THEN {} ELSE rekorShards

Crash == ProcessDies /\ UNCHANGED <<shardVars, files, history>>

Signal == CatchSignal /\ UNCHANGED <<shardVars, files, history>>

NextRound == Tick /\ UNCHANGED <<shardVars, files, history>>

GracefulExit == Shutdown /\ UNCHANGED <<shardVars, files, history>>

-----------------------------------------------------------------------------
(* RunConsistencyCheck, GetStartIndex and GetEndIndex.                     *)

Stored == IF file = EmptyFile THEN NoCheckpoint ELSE file

\* Mutation: only the numbers of shards are compared.
ShardsNeedUpdating_ByCount(current, new) == Cardinality(current) # Cardinality(new)

\* Shards were added or removed, or one is not among the current ones.
ShardsNeedUpdating(current, new) ==
  Cardinality(current) # Cardinality(new) \/ \E s \in new : s \notin current

\* The shards one check works on.
CheckedShards ==
  IF ShardsNeedUpdating(rekorShards, listed) THEN listed ELSE rekorShards

\* What is served by the newest shard, the one whose checkpoint is stored next.
Latest == Served(Newest(CheckedShards))

\* Mutation: the sizes are compared and no proof is asked for.
Consistent_BySize(prev) ==
  prev # NoCheckpoint =>
    /\ prev.origin \in CheckedShards
    /\ Len(trees[prev.origin]) >= Size(prev)

\* The checkpoint in the file is consistent with what its own shard serves.
Consistent(prev) ==
  prev # NoCheckpoint =>
    /\ prev.origin \in CheckedShards
    /\ IsPrefix(prev.tree, trees[prev.origin])

GetStartIndex(prev) == IF Size(prev) = 0 THEN NoIndex ELSE Size(prev) - 1
GetEndIndex(cur) == IF Size(cur) = 0 THEN NoIndex ELSE Size(cur) - 1

\* The entries of cur this round will step over as asked (see MonitorProcess).
SteppedOver(prev, cur) ==
  EntriesOf(cur.origin,
            IF ~flags.monitored
               \/ (startIndex = NoIndex /\ prev = NoCheckpoint
                     /\ anchor = NoCheckpoint)
            THEN 0..(Size(cur) - 1)
            ELSE IF inputEndIndex = NoIndex THEN {}
                 ELSE (inputEndIndex + 1)..(Size(cur) - 1))

ConsistencyFails == CheckFails /\ UNCHANGED <<shardVars, files, history>>

RunConsistencyCheck ==
  /\ pc = "check"
  /\ Consistent(Stored)
  /\ CheckPasses(Stored, Latest, GetStartIndex(Stored), GetEndIndex(Latest))
  /\ waived' = waived \cup SteppedOver(Stored, Latest)
  /\ UNCHANGED <<shardVars, files, searched, delivered, anchor, rewritten>>

StartAfterEnd ==
  /\ pc = "check"
  /\ Consistent(Stored)
  /\ CheckRefusesRange(Stored, GetStartIndex(Stored), GetEndIndex(Latest))
  /\ UNCHANGED <<shardVars, files, history>>

\* The shard of the checkpoint in the file is no longer listed: its ShardInfo is
\* the zero value, whose client the check dereferences.
ShardMissing ==
  /\ pc = "check"
  /\ Stored # NoCheckpoint
  /\ Stored.origin \notin CheckedShards
  /\ ProcessDies
  /\ UNCHANGED <<shardVars, files, history>>

-----------------------------------------------------------------------------
(* IdentitySearch.                                                         *)

\* activeShard: the newest of the shards the process was started with.
SearchedShard == Newest(rekorShards)

Fetched == GetEntriesByIndexRange(startIndex, endIndex)

\* Those of the fetched entries that it reports as matching, or as failed.
MatchedIndices(kinds) == {i \in Fetched : trees[SearchedShard][i + 1] \in kinds}

\* The tiles are there, and so are the entries in them; a caught signal cancels
\* the requests.
Fetchable ==
  /\ pc = "search"
  /\ signalled => Fetched = {}
  /\ Fetched \subseteq 0..(Len(trees[SearchedShard]) - 1)

IdentitySearch ==
  /\ Fetchable
  /\ SearchReturns(MatchedIndices(Matching), MatchedIndices(Unreadable))
  /\ recorded' = recorded \cup EntriesOf(SearchedShard, MatchedIndices(Matching))
  /\ latestIndex' = endIndex
  /\ searched' = searched \cup EntriesOf(SearchedShard, Fetched)
  /\ UNCHANGED <<shardVars, file, waived, delivered, anchor, rewritten>>

\* A tile cannot be fetched.
FetchFails ==
  /\ pc = "search"
  /\ LoopReturns
  /\ UNCHANGED <<shardVars, files, history>>

\* Mutation: the error is logged, and the loop told of what was found.
IdentitySearchFails_GoesOn ==
  /\ Fetchable
  /\ \E written \in SUBSET MatchedIndices(Matching) :
       recorded' = recorded \cup EntriesOf(SearchedShard, written)
  /\ SearchReturns(MatchedIndices(Matching), MatchedIndices(Unreadable))
  /\ searched' = searched \cup EntriesOf(SearchedShard, Fetched)
  /\ UNCHANGED <<shardVars, file, latestIndex, waived, delivered, anchor,
                 rewritten>>

\* The identities or the metadata cannot be written.
IdentitySearchFails ==
  /\ Fetchable
  /\ \E written \in SUBSET MatchedIndices(Matching) :
       recorded' = recorded \cup EntriesOf(SearchedShard, written)
  /\ LoopReturns
  /\ searched' = searched \cup EntriesOf(SearchedShard, Fetched)
  /\ UNCHANGED <<shardVars, file, latestIndex, waived, delivered, anchor,
                 rewritten>>

\* One Send: what it reports is of the shard the process searched.
Notify ==
  /\ SendSucceeds
  /\ LET send == Head(outbox)
     IN delivered' = delivered \cup
          {<<send.payload, send.platform, e>> :
             e \in EntriesOf(SearchedShard, Reported(send))}
  /\ UNCHANGED <<shardVars, files, searched, waived, anchor, rewritten>>

NotifyFails == SendFails /\ UNCHANGED <<shardVars, files, history>>

-----------------------------------------------------------------------------
(* WriteCheckpoint.                                                        *)

\* Mutation: the origins are not compared.
KeepsCheckpoint_AnyOrigin ==
  \/ Size(curCheckpoint) = 0
  \/ /\ prevCheckpoint # NoCheckpoint
     /\ Size(prevCheckpoint) = Size(curCheckpoint)

\* WriteCheckpointRekorV2 skips an empty tree, and a checkpoint of the origin and
\* the size of the one it read.
KeepsCheckpoint ==
  \/ Size(curCheckpoint) = 0
  \/ /\ prevCheckpoint # NoCheckpoint
     /\ prevCheckpoint.origin = curCheckpoint.origin
     /\ Size(prevCheckpoint) = Size(curCheckpoint)

WriteCheckpoint ==
  /\ pc = "write"
  /\ CheckpointHandled
  /\ IF KeepsCheckpoint
     THEN UNCHANGED <<file, anchor>>
     ELSE file' = curCheckpoint /\ anchor' = curCheckpoint
  /\ UNCHANGED <<shardVars, recorded, latestIndex, searched, waived, delivered,
                 rewritten>>

WriteCheckpointFails ==
  /\ pc = "write"
  /\ ~KeepsCheckpoint
  /\ LoopReturns
  /\ UNCHANGED <<shardVars, files, history>>

-----------------------------------------------------------------------------
ProcessNext ==
  \/ Crash
  \/ Signal
  \/ NextRound
  \/ GracefulExit
  \/ ConsistencyFails
  \/ RunConsistencyCheck
  \/ StartAfterEnd
  \/ ShardMissing
  \/ IdentitySearch
  \/ FetchFails
  \/ IdentitySearchFails
  \/ Notify
  \/ NotifyFails
  \/ WriteCheckpoint
  \/ WriteCheckpointFails

Next ==
  \/ LogAppends
  \/ LogRewrites
  \/ ShardAdded
  \/ ShardRemoved
  \/ Start
  \/ ProcessNext /\ ShardsKept

Spec == Init /\ [][Next]_vars

-----------------------------------------------------------------------------
(* Properties.                                                             *)

TypeOK ==
  /\ LoopTypeOK(Checkpoint)
  /\ LoopBooleansOK
  /\ trees \in [Shards -> Seq(Entries)]
  /\ listed \in (SUBSET Shards) \ {{}}
  /\ rekorShards \in SUBSET Shards
  /\ Running => rekorShards # {}
  /\ file \in Checkpoint \cup {EmptyFile}
  /\ recorded \subseteq Shards \X Index
  /\ latestIndex \in OptionalIndex
  /\ searched \subseteq Shards \X Index
  /\ waived \subseteq Shards \X Index
  /\ delivered \subseteq Reports
  /\ anchor \in Checkpoint \cup {NoCheckpoint}
  /\ rewritten \in BOOLEAN

\* The entries a checkpoint commits to.
Below(checkpoint) == EntriesOf(checkpoint.origin, 0..(Size(checkpoint) - 1))

\* No gap across rotations: a round that "migrates from the old shard to the new
\* one" searches what its checkpoint commits to in the new shard as well.
Coverage ==
  anchor # NoCheckpoint => Below(anchor) \subseteq searched \cup waived

\* No gap, until the first rotation: once a checkpoint is stored, every entry it
\* commits to has been fetched by an identity search, tile by tile, unless the
\* operator asked to step over it.
CoverageOfFirstShard == listed = {1} => Coverage

\* And every matching entry it commits to is in the identities file.
RecordedBeforeStored ==
  listed = {1} /\ anchor # NoCheckpoint /\ ~rewritten =>
    \A e \in Below(anchor) \ waived :
      trees[e[1]][e[2] + 1] \in Matching => e \in recorded

\* What is known of the first shard, by index.
IndicesOf(entries) == {e[2] : e \in {x \in entries : x[1] = 1}}

ReportsOf(reports) ==
  {<<r[1], r[2], r[3][2]>> : r \in {x \in reports : x[3][1] = 1}}

\* What the monitor promises of the first shard, in the terms of LogAudit.
Audit == INSTANCE LogAudit WITH
           log <- trees[1], honest <- ~rewritten,
           trusted <- IF anchor = NoCheckpoint THEN NoCheckpoint ELSE anchor.tree,
           audited <- IndicesOf(searched), excused <- IndicesOf(waived),
           recorded <- IndicesOf(recorded), told <- ReportsOf(delivered)

\* Until the first rotation the monitor keeps the promise, whatever fails, as those
\* of Rekor v1 and CT do for ever: it reports only what it fetched and what is so,
\* and stores a checkpoint only over entries that are searched, in the identities
\* file and accepted by every platform.
PromiseOfFirstShard ==
  [][listed' = {1} => [Audit!Next]_(Audit!auditVars)]_vars

\* A round that ends without counting a failure has stored, or already had, the
\* checkpoint the newest shard served in it.
QuietRound ==
  pc = "wait" /\ ~failureCounted =>
    /\ curCheckpoint # NoCheckpoint
    /\ anchor = curCheckpoint \/ Size(curCheckpoint) = 0

\* Stored checkpoints form a chain in each shard, and the chains follow one
\* another in the order of the shards: a rotation is never undone, whatever
\* shards the signing config lists and the process remembers.
StoredChain ==
  [][anchor # NoCheckpoint =>
       /\ anchor' # NoCheckpoint
       /\ \/ anchor'.origin > anchor.origin
          \/ /\ anchor'.origin = anchor.origin
             /\ IsPrefix(anchor.tree, anchor'.tree)]_vars

\* Each round stores the checkpoint of the shard that was the newest one listed
\* when the round checked, also in a process started before that shard was.
RotationSeen ==
  [][pc = "check" /\ pc' \in {"search", "write"} =>
       curCheckpoint'.origin = Newest(listed)]_vars

\* The shards are brought up to date "on each iteration", so that the identities
\* are searched in the shard whose checkpoint the round will store.
SearchedShardIsChecked ==
  pc = "search" => SearchedShard = curCheckpoint.origin
=============================================================================
