-------------------------------- MODULE RekorV1 --------------------------------
(***************************************************************************)
(* The monitor of a Rekor v1 log: RekorV1MonitorLogic of                   *)
(* cmd/rekor_monitor/main.go with pkg/rekor/v1, on the loop and the files  *)
(* of MonitorProcess, beside the log it monitors.                          *)
(*                                                                         *)
(* The log is the sequence of its entries, by global index: first the      *)
(* InactiveSize entries of the inactive shards, then those of the active   *)
(* tree.  A checkpoint commits to the entries of the active tree below its *)
(* size, so it is represented by what it commits to, the prefix of the log *)
(* that ends there; two checkpoints are consistent iff the older is a      *)
(* prefix of the newer.                                                    *)
(***************************************************************************)
EXTENDS MonitorProcess

CONSTANTS
  Entries,        \* what an entry can be
  Matching,       \* entries that match a monitored value
  Unreadable,     \* entries that MatchedIndices reports as failed
  InactiveSize,   \* the entries in the inactive shards
  MaxLog,         \* bound: the log never grows beyond this
  MayRewrite,     \* whether the log may stop being append-only
  BatchSize       \* entries asked for in one SearchLogQuery

ASSUME EntriesAssumption ==
  /\ Matching \subseteq Entries
  /\ Unreadable \subseteq Entries

ASSUME SizesAssumption ==
  /\ InactiveSize \in Nat
  /\ MaxLog \in Nat
  /\ BatchSize \in Nat \ {0}
  /\ MayRewrite \in BOOLEAN

Checkpoint == Seq(Entries)

\* The nil checkpoint and the unreadable files are not checkpoints.
ASSUME MarksAssumption ==
  /\ {NoCheckpoint, EmptyFile, Garbage} \cap Checkpoint = {}
  /\ NoCheckpoint \notin {EmptyFile, Garbage}
  /\ EmptyFile # Garbage

VARIABLES
  log,            \* the entries of the log, by global index
  next,           \* i of GetEntriesByIndexRange: the next index to fetch
  rewritten       \* history: the log has rewritten its past

vars == <<loopVars, files, history, log, next, rewritten>>

\* What a step of the process leaves alone; next lives as long as the search.
LogUnchanged ==
  /\ next' = IF pc' = "search" THEN next ELSE 0
  /\ UNCHANGED <<log, rewritten>>

\* EntryAt(i): the entry with global index i, which starts at 0.
EntryAt(i) == log[i + 1]

\* Checkpoint.Size, and GetCheckpointIndex: the size plus the inactive shards'
\* sizes, less one.
Size(checkpoint) == Len(checkpoint) - InactiveSize

GetCheckpointIndex(checkpoint) == Size(checkpoint) + InactiveSize - 1

Init ==
  /\ ProcessInit
  /\ log \in [1..InactiveSize -> Entries]
  /\ next = 0
  /\ rewritten = FALSE

-----------------------------------------------------------------------------
(* The log.                                                                *)

LogAppends ==
  /\ Len(log) < MaxLog
  /\ \E e \in Entries : log' = Append(log, e)
  /\ UNCHANGED <<loopVars, files, history, next, rewritten>>

\* A log that breaks its promise: an entry of the active tree is replaced, or
\* the newest one is withdrawn.
LogRewrites ==
  /\ MayRewrite
  /\ ~rewritten
  /\ Size(log) > 0
  /\ \/ \E i \in (InactiveSize + 1)..Len(log), e \in Entries :
          log' = [log EXCEPT ![i] = e] /\ log' # log
     \/ log' = Front(log)
  /\ rewritten' = TRUE
  /\ UNCHANGED <<loopVars, files, history, next>>

-----------------------------------------------------------------------------
(* RunConsistencyCheck, GetStartIndex and GetEndIndex.                     *)

\* Mutation: a log that serves a smaller checkpoint is taken to have nothing new.
Consistent_UnlessShorter(prev, cur) ==
  /\ prev # Garbage
  /\ prev # NoCheckpoint => Len(cur) < Len(prev) \/ IsPrefix(prev, cur)

\* The checkpoint in the file, if any, verifies and the log proves it
\* consistent with the one it serves.
Consistent(prev, cur) ==
  /\ prev # Garbage
  /\ prev # NoCheckpoint => IsPrefix(prev, cur)

\* Mutation: GetStartIndex returns the first index to search, not the one before it.
RunConsistencyCheck_StartsAtNext ==
  /\ Consistent(Stored, log)
  /\ ConsistencyPasses(Stored, log, GetCheckpointIndex(Stored) + 1,
                       GetCheckpointIndex(log), GetCheckpointIndex(log))
  /\ next' = IF pc' = "search" THEN startIndex' + 1 ELSE 0
  /\ UNCHANGED <<log, rewritten>>

RunConsistencyCheck ==
  /\ Consistent(Stored, log)
  /\ ConsistencyPasses(Stored, log, GetCheckpointIndex(Stored),
                       GetCheckpointIndex(log), GetCheckpointIndex(log))
  /\ next' = IF pc' = "search" THEN startIndex' + 1 ELSE 0
  /\ UNCHANGED <<log, rewritten>>

StartAfterEnd ==
  /\ Consistent(Stored, log)
  /\ RangeRefused(Stored, GetCheckpointIndex(Stored), GetCheckpointIndex(log))
  /\ LogUnchanged

-----------------------------------------------------------------------------
(* IdentitySearch.                                                         *)

\* Mutation: the last batch stops short of the end of the range.
BatchEnd_Short == IF next + BatchSize <= endIndex THEN next + BatchSize - 1
                                                  ELSE endIndex - 1

\* Mutation: j <= minVal in the loop that lists a batch.
BatchEnd_Inclusive == IF next + BatchSize <= endIndex + 1 THEN next + BatchSize
                                                          ELSE endIndex + 1

\* Mutation: an entry is reported under its place in the batch.
MatchedIndices_InBatch(indices, kinds) ==
  {i - next : i \in {j \in indices : EntryAt(j) \in kinds}}

\* MatchedIndices: those of the entries at some indices it reports as matching,
\* or as failed.
MatchedIndices(indices, kinds) == {i \in indices : EntryAt(i) \in kinds}

\* The indices of one SearchLogQuery: at most BatchSize, none after the end.
BatchEnd == IF next + BatchSize <= endIndex + 1 THEN next + BatchSize - 1
                                                ELSE endIndex
Batch == next..BatchEnd

\* One turn of the loop of GetEntriesByIndexRange, with what MatchedIndices
\* will find in its entries; the log answers only for entries it has, and a
\* caught signal cancels the request.
GetEntriesByIndexRange ==
  /\ pc = "search"
  /\ next <= endIndex
  /\ ~signalled
  /\ Batch \subseteq 0..(Len(log) - 1)
  /\ found' = found \cup MatchedIndices(Batch, Matching)
  /\ failed' = failed \cup MatchedIndices(Batch, Unreadable)
  /\ next' = next + BatchSize
  /\ searched' = searched \cup Batch
  /\ fetchedTo' = BatchEnd
  /\ UNCHANGED <<pc, flags, startIndex, endIndex, inputEndIndex, prevCheckpoint,
                 curCheckpoint, outbox, signalled, failureCounted, files,
                 waived, delivered, anchor, log, rewritten>>

IdentitySearch ==
  /\ pc = "search"
  /\ next > endIndex
  /\ RecordSucceeds
  /\ LogUnchanged

IdentitySearchFails ==
  /\ pc = "search"
  /\ next > endIndex
  /\ RecordFails
  /\ LogUnchanged

-----------------------------------------------------------------------------
(* WriteCheckpoint.                                                        *)

\* Mutation: only a checkpoint smaller than the one it read is written.
KeepsCheckpoint_Older ==
  \/ Size(curCheckpoint) = 0
  \/ prevCheckpoint # NoCheckpoint /\ Size(prevCheckpoint) <= Size(curCheckpoint)

\* WriteCheckpointRekorV1 skips an empty tree, and a checkpoint of the size of
\* the one it read.
KeepsCheckpoint ==
  \/ Size(curCheckpoint) = 0
  \/ prevCheckpoint # NoCheckpoint /\ Size(prevCheckpoint) = Size(curCheckpoint)

WriteCheckpoint ==
  /\ pc = "write"
  /\ \/ KeepsCheckpoint /\ CheckpointKept
     \/ ~KeepsCheckpoint /\ CheckpointTruncated
  /\ LogUnchanged

WriteCheckpointFails ==
  /\ pc = "write"
  /\ ~KeepsCheckpoint
  /\ CheckpointNotOpened
  /\ LogUnchanged

-----------------------------------------------------------------------------
Next ==
  \/ LogAppends
  \/ LogRewrites
  \/ ProcessNext /\ LogUnchanged
  \/ RunConsistencyCheck
  \/ StartAfterEnd
  \/ GetEntriesByIndexRange
  \/ IdentitySearch
  \/ IdentitySearchFails
  \/ WriteCheckpoint
  \/ WriteCheckpointFails

Spec == Init /\ [][Next]_vars

\* Every call returns, and one that is made again and again succeeds some time;
\* what stops is started again; a select with two ready channels, which Go
\* settles at random, does not pass over either for ever.
Fairness ==
  /\ WF_vars(Start /\ LogUnchanged)
  /\ WF_vars(ConsistencyFails /\ LogUnchanged)
  /\ SF_vars(RunConsistencyCheck)
  /\ WF_vars(signalled /\ FetchFails /\ LogUnchanged)
  /\ \A i \in 0..MaxLog : SF_vars(next = i /\ GetEntriesByIndexRange)
  /\ SF_vars(IdentitySearch)
  /\ \A n \in 1..(2 * Len(Platforms)) :
       SF_vars(Len(outbox) = n /\ Notify /\ LogUnchanged)
  /\ SF_vars(WriteCheckpoint)
  /\ SF_vars(CheckpointFlushed /\ LogUnchanged)
  /\ WF_vars(NextRound /\ LogUnchanged)
  /\ SF_vars(GracefulExit /\ LogUnchanged)

FairSpec == Spec /\ Fairness

-----------------------------------------------------------------------------
(* Properties.                                                             *)

ValuesOK ==
  /\ ProcessTypeOK(Checkpoint)
  /\ log \in Checkpoint
  /\ next \in Index

BooleansOK == LoopBooleansOK /\ rewritten \in BOOLEAN

TypeOK == ValuesOK /\ BooleansOK

\* The indices a checkpoint covers, down to the first entry of the log.
Below(checkpoint) == 0..GetCheckpointIndex(checkpoint)

\* No gap: once a checkpoint is stored, every entry it commits to has been
\* fetched by an identity search, unless the operator asked to step over it.
\* ("Write checkpoint after identity search to ensure identities are always
\* searched even if something fails in the middle", common.go.)
Coverage ==
  anchor # NoCheckpoint => Below(anchor) \subseteq searched \cup waived

\* The same of the metadata file: no index up to its LatestIndex was missed.
MetadataCoverage ==
  latestIndex # NoIndex => 0..latestIndex \subseteq searched \cup waived

\* As long as the log is append-only, every matching entry and every unreadable
\* entry a stored checkpoint commits to has been accepted by every platform,
\* and every matching one is in the identities file: a round that fails between
\* the search and the last Send does not store its checkpoint.
Delivery ==
  anchor # NoCheckpoint /\ ~rewritten =>
    \A i \in Below(anchor) \ waived, n \in 1..Len(Platforms) :
      /\ EntryAt(i) \in Matching =>
           /\ i \in recorded
           /\ <<"found", Platforms[n], i>> \in delivered
      /\ EntryAt(i) \in Unreadable =>
           <<"failed", Platforms[n], i>> \in delivered

\* A round that ends without counting a failure has stored, or already had, the
\* checkpoint the log served in it (an empty tree has none to store): no round
\* passes over an inconsistent checkpoint in silence.
QuietRound ==
  pc = "wait" /\ ~failureCounted =>
    /\ curCheckpoint # NoCheckpoint
    /\ anchor = curCheckpoint \/ Size(curCheckpoint) = 0

\* One process never fetches an entry twice: what it fetches next lies beyond
\* everything it has fetched, so its rounds report nothing twice.
FetchedOnce ==
  pc = "search" /\ next <= endIndex /\ fetchedTo # NoIndex => next > fetchedTo

\* A round searches exactly what the checkpoint it will store adds to the stored one:
\* the place MonitorLoop carries in memory from round to round, over rounds that fail
\* and rounds that write nothing, is the place a restarted process reads from the
\* file, so a restart neither skips an entry nor searches again one that the stored
\* checkpoint commits to.  (A configured range is the operator's.)
SearchesWhatIsNew ==
  pc \in {"search", "notify"} /\ {flags.start, flags.end} = {NoIndex} =>
    (startIndex + 1)..endIndex =
      Below(curCheckpoint) \ (IF anchor = NoCheckpoint THEN 0..(InactiveSize - 1)
                                                      ELSE Below(anchor))

\* Stored checkpoints form a chain: each commits to everything the one before
\* it did, across failures and restarts and whatever the log does.
StoredChain ==
  [][anchor # NoCheckpoint =>
       anchor' # NoCheckpoint /\ IsPrefix(anchor, anchor')]_vars

\* A checkpoint file cut short stops the monitor: while it is unreadable nothing
\* is searched, recorded, reported or stored, whichever way the monitor is run,
\* until someone repairs the file.
UnreadableFileStops ==
  [][file = Garbage =>
       UNCHANGED <<file, anchor, searched, recorded, latestIndex, delivered>>]_vars

\* What the monitor promises, in the terms of LogAudit.
Audit == INSTANCE LogAudit WITH honest <- ~rewritten, trusted <- anchor,
           audited <- searched, excused <- waived, told <- delivered

\* The monitor keeps the promise, whatever fails: each step of the loop, of the
\* process and of the log is one of LogAudit's or changes nothing LogAudit
\* speaks of.  Beyond Delivery and StoredChain it says that no report is false or
\* about an entry nobody fetched, and that nothing reported is forgotten.
KeepsPromise == Audit!Spec

\* Unless signals keep arriving for ever, every entry is reported to every
\* platform some time, however many calls fail and processes die meanwhile.
EventuallyReported ==
  <>[]~signalled =>
    \A i \in 0..(MaxLog - 1), n \in 1..Len(Platforms) :
      (i < Len(log) /\ EntryAt(i) \in Matching) ~>
        (i \in waived \/ <<"found", Platforms[n], i>> \in delivered)

\* A caught signal stops the process: no round, however many are left to do,
\* keeps the loop from its select, and the select sees the closed channel.
SignalStops == signalled ~> ~Running
=============================================================================
