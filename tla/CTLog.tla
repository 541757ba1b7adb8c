--------------------------------- MODULE CTLog ---------------------------------
(***************************************************************************)
(* The monitor of a certificate transparency log: CTMonitorLogic of        *)
(* cmd/ct_monitor/main.go with pkg/ct, on the loop and the files of        *)
(* MonitorProcess, beside the log it monitors.                             *)
(*                                                                         *)
(* A signed tree head is represented, like a checkpoint in RekorV1, by the *)
(* prefix of the log it commits to.  Three things differ from Rekor v1:    *)
(* the range of a round runs from the LAST entry of the old tree head to   *)
(* one PAST the last of the new one; both ends are asked for; and one      *)
(* get-entries request has to do, to which the log gives as many of the    *)
(* entries asked for as it likes.                                          *)
(***************************************************************************)
EXTENDS MonitorProcess

CONSTANTS
  Entries,        \* what an entry can be
  Matching,       \* entries with a monitored subject or extension
  Unreadable,     \* entries that MatchedIndices reports as failed
  MaxLog,         \* bound: the log never grows beyond this
  MayRewrite,     \* whether the log may stop being append-only
  MaxGetEntries   \* the entries the log gives in one answer, at most

ASSUME CTAssumption ==
  /\ Matching \subseteq Entries
  /\ Unreadable \subseteq Entries
  /\ MaxLog \in Nat
  /\ MaxGetEntries \in Nat \ {0}
  /\ MayRewrite \in BOOLEAN

TreeHead == Seq(Entries)

ASSUME TreeHeadAssumption ==
  /\ {NoCheckpoint, EmptyFile, Garbage} \cap TreeHead = {}
  /\ NoCheckpoint \notin {EmptyFile, Garbage}
  /\ EmptyFile # Garbage

VARIABLES
  log,            \* the entries of the log
  answer,         \* the indices of the entries get-entries answered with
  rewritten       \* history: the log has rewritten its past

vars == <<loopVars, files, history, log, answer, rewritten>>

\* What a step of the process leaves alone; the answer lives as long as the
\* search.
LogUnchanged ==
  /\ answer' = IF pc' = "search" THEN answer ELSE {}
  /\ UNCHANGED <<log, rewritten>>

EntryAt(i) == log[i + 1]
TreeSize(sth) == Len(sth)

Init ==
  /\ ProcessInit
  /\ log = <<>>
  /\ answer = {}
  /\ rewritten = FALSE

-----------------------------------------------------------------------------
(* The log.                                                                *)

LogAppends ==
  /\ Len(log) < MaxLog
  /\ \E e \in Entries : log' = Append(log, e)
  /\ UNCHANGED <<loopVars, files, history, answer, rewritten>>

LogRewrites ==
  /\ MayRewrite
  /\ ~rewritten
  /\ log # <<>>
  /\ \/ \E i \in 1..Len(log), e \in Entries :
          log' = [log EXCEPT ![i] = e] /\ log' # log
     \/ log' = Front(log)
  /\ rewritten' = TRUE
  /\ UNCHANGED <<loopVars, files, history, answer>>

-----------------------------------------------------------------------------
(* RunConsistencyCheck, GetStartIndex and GetEndIndex.                     *)

\* Mutation: the range is taken to exclude its first index and to start at it.
GetStartIndex_Next(prev) == TreeSize(prev) + 1

\* Mutation: a restarted monitor searches the log from its first entry.
GetStartIndex_FromZero(prev) == 0

GetStartIndex(prev) == TreeSize(prev) - 1

GetEndIndex(cur) == TreeSize(cur)

\* Mutation: no proof is asked for when the tree has not grown.
Consistent_UnlessSmaller(prev, cur) ==
  /\ prev # Garbage
  /\ prev # NoCheckpoint => TreeSize(cur) <= TreeSize(prev) \/ IsPrefix(prev, cur)

\* The tree head in the file parses, its signature and that of the one the log
\* serves verify, and so does the proof that the log links them with.
Consistent(prev, cur) ==
  /\ prev # Garbage
  /\ prev # NoCheckpoint => IsPrefix(prev, cur)

RunConsistencyCheck ==
  /\ Consistent(Stored, log)
  /\ ConsistencyPasses(Stored, log, GetStartIndex(Stored), GetEndIndex(log),
                       TreeSize(log) - 1)
  /\ LogUnchanged

StartAfterEnd ==
  /\ Consistent(Stored, log)
  /\ RangeRefused(Stored, GetStartIndex(Stored), GetEndIndex(log))
  /\ LogUnchanged

-----------------------------------------------------------------------------
(* IdentitySearch.                                                         *)

\* Whether the log answers: a request that starts before the first entry or after
\* the last one is an error.
Answerable == startIndex \in 0..(Len(log) - 1)

\* What it answers with: the entries from the first index asked for to the last
\* one or to the end of the log, and never more than MaxGetEntries.
Answer ==
  {i \in startIndex..endIndex : i < Len(log) /\ i < startIndex + MaxGetEntries}

\* Mutation: what cannot be read is taken for a match.
MatchedIndices_Lenient(indices, kinds) ==
  {i \in indices : EntryAt(i) \in kinds \cup Unreadable}

\* MatchedIndices: those of the entries at some indices it reports as matching,
\* or as failed.
MatchedIndices(indices, kinds) == {i \in indices : EntryAt(i) \in kinds}

\* The one request of GetCTLogEntries, with what MatchedIndices will find in
\* the entries it brings; a caught signal cancels it.
GetCTLogEntries ==
  /\ pc = "search"
  /\ answer = {}
  /\ ~signalled
  /\ Answerable
  /\ answer' = Answer
  /\ found' = MatchedIndices(Answer, Matching)
  /\ failed' = MatchedIndices(Answer, Unreadable)
  /\ searched' = searched \cup Answer
  /\ fetchedTo' = CHOOSE i \in Answer : \A j \in Answer : j <= i
  /\ UNCHANGED <<pc, flags, startIndex, endIndex, inputEndIndex, prevCheckpoint,
                 curCheckpoint, outbox, signalled, failureCounted, files,
                 waived, delivered, anchor, log, rewritten>>

IdentitySearch ==
  /\ answer # {}
  /\ RecordSucceeds
  /\ LogUnchanged

IdentitySearchFails ==
  /\ answer # {}
  /\ RecordFails
  /\ LogUnchanged

-----------------------------------------------------------------------------
(* WriteCheckpoint.                                                        *)

\* Mutation: the tree head of an empty file is taken for one of the same size.
KeepsTreeHead_NoFirst ==
  \/ TreeSize(curCheckpoint) = 0
  \/ prevCheckpoint # NoCheckpoint => TreeSize(prevCheckpoint) = TreeSize(curCheckpoint)

\* WriteCTSignedTreeHead skips an empty tree, and a tree head of the size of the
\* one it read.
KeepsTreeHead ==
  \/ TreeSize(curCheckpoint) = 0
  \/ prevCheckpoint # NoCheckpoint /\ TreeSize(prevCheckpoint) = TreeSize(curCheckpoint)

WriteCheckpoint ==
  /\ pc = "write"
  /\ \/ KeepsTreeHead /\ CheckpointKept
     \/ ~KeepsTreeHead /\ CheckpointTruncated
  /\ LogUnchanged

WriteCheckpointFails ==
  /\ pc = "write"
  /\ ~KeepsTreeHead
  /\ CheckpointNotOpened
  /\ LogUnchanged

-----------------------------------------------------------------------------
Next ==
  \/ LogAppends
  \/ LogRewrites
  \/ ProcessNext /\ LogUnchanged
  \/ RunConsistencyCheck
  \/ StartAfterEnd
  \/ GetCTLogEntries
  \/ IdentitySearch
  \/ IdentitySearchFails
  \/ WriteCheckpoint
  \/ WriteCheckpointFails

Spec == Init /\ [][Next]_vars

-----------------------------------------------------------------------------
(* Properties.                                                             *)

TypeOK ==
  /\ ProcessTypeOK(TreeHead)
  /\ LoopBooleansOK
  /\ log \in TreeHead
  /\ answer \subseteq Index
  /\ rewritten \in BOOLEAN

\* The indices a tree head covers.
Below(sth) == 0..(TreeSize(sth) - 1)

\* No gap: once a tree head is stored, every entry it commits to has been
\* fetched by an identity search, unless the operator asked to step over it.
\* It rests on the log: what it answers with is not compared with the tree head,
\* so it has to be append-only and to answer in full (MaxGetEntries >= MaxLog).
Coverage ==
  anchor # NoCheckpoint /\ ~rewritten => Below(anchor) \subseteq searched \cup waived

\* As long as the log is append-only, what a stored tree head commits to has been
\* recorded and reported to every platform, as for Rekor v1.
Delivery ==
  anchor # NoCheckpoint /\ ~rewritten =>
    \A i \in Below(anchor) \ waived, n \in 1..Len(Platforms) :
      /\ EntryAt(i) \in Matching =>
           /\ i \in recorded
           /\ <<"found", Platforms[n], i>> \in delivered
      /\ EntryAt(i) \in Unreadable =>
           <<"failed", Platforms[n], i>> \in delivered

\* A round that ends without counting a failure has stored, or already had, the
\* tree head the log served in it (an empty tree has none to store).
QuietRound ==
  pc = "wait" /\ ~failureCounted =>
    /\ curCheckpoint # NoCheckpoint
    /\ anchor = curCheckpoint \/ TreeSize(curCheckpoint) = 0

\* Although the range of a round reaches past the end of its tree, the rounds of
\* one process overlap in at most the one entry at their border.
OverlapOfOne ==
  pc = "search" /\ answer = {} /\ fetchedTo # NoIndex => startIndex >= fetchedTo

\* A round begins where the stored tree head ends, or, in the first round of a
\* process, at its last entry: a restart, which takes the place from the file and not
\* from the memory of MonitorLoop, skips no entry and searches one again at most.
\* (A configured startIndex is the operator's.)
BeginsAtStored ==
  pc = "search" /\ flags.start = NoIndex =>
    IF anchor = NoCheckpoint THEN startIndex = 0
    ELSE startIndex \in {TreeSize(anchor) - 1, TreeSize(anchor)}

\* Stored tree heads form a chain, whatever the log does.
StoredChain ==
  [][anchor # NoCheckpoint =>
       anchor' # NoCheckpoint /\ IsPrefix(anchor, anchor')]_vars

\* What the monitor promises, in the terms of LogAudit.
Audit == INSTANCE LogAudit WITH honest <- ~rewritten, trusted <- anchor,
           audited <- searched, excused <- waived, told <- delivered

\* The monitor keeps the promise, whatever fails, as for Rekor v1: no step of a
\* round reports what is not there or trusts a tree head too early.
KeepsPromise == Audit!Spec

\* A monitor that "runs indefinitely to perform identity search for every time
\* interval" asks the log for something it can answer with, for the loop returns
\* on an error.
SearchCanSucceed ==
  pc = "search" /\ answer = {} => Answerable
=============================================================================
