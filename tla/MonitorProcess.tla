---------------------------- MODULE MonitorProcess -----------------------------
(***************************************************************************)
(* MonitorLoop together with what the process leaves behind: the           *)
(* checkpoint file, the identities file and its metadata file              *)
(* (pkg/util/file/file.go), and the notifications it has sent.             *)
(*                                                                         *)
(* The modules for the three kinds of log (Rekor v1, Rekor v2, CT) extend  *)
(* this one.  They say what a checkpoint is, when one is consistent with   *)
(* another, which indices it stands for and how entries are fetched; the   *)
(* actions here take that as parameters.                                   *)
(*                                                                         *)
(* A missing checkpoint file and an empty one are the same to every reader *)
(* (os.Stat fails, or Size() is 0): EmptyFile stands for both.             *)
(***************************************************************************)
EXTENDS MonitorLoop

CONSTANTS
  EmptyFile,      \* no checkpoint file, or one of size 0
  Garbage,        \* a checkpoint file cut short: its last line does not parse
  TornWrites      \* whether a write of the checkpoint file may be cut short

ASSUME TornAssumption == TornWrites \in BOOLEAN

VARIABLES
  file,           \* the checkpoint file
  recorded,       \* indices of the entries in the identities file
  latestIndex     \* LatestIndex of the identity metadata file

files == <<file, recorded, latestIndex>>

\* What the properties remember of the past; no action reads it.
VARIABLES
  searched,       \* indices of the entries some identity search fetched
  waived,         \* indices the operator asked not to search
  delivered,      \* <<payload, platform, index>> reports a platform accepted
  anchor,         \* the last checkpoint stored in full
  fetchedTo       \* the highest index this process fetched

history == <<searched, waived, delivered, anchor, fetchedTo>>

ProcessInit ==
  /\ LoopInit
  /\ file = EmptyFile
  /\ recorded = {}
  /\ latestIndex = NoIndex
  /\ searched = {}
  /\ waived = {}
  /\ delivered = {}
  /\ anchor = NoCheckpoint
  /\ fetchedTo = NoIndex

-----------------------------------------------------------------------------
(* Process, signals and ticks.                                             *)

\* A configured startIndex asks for the entries after it.
Start ==
  /\ StartProcess
  /\ waived' = waived \cup (IF startIndex' = NoIndex THEN {} ELSE 0..startIndex')
  /\ fetchedTo' = NoIndex
  /\ UNCHANGED <<files, searched, delivered, anchor>>

\* Dying inside os.WriteFile leaves the file truncated.
Crash ==
  /\ ProcessDies
  /\ pc = "flush" => TornWrites
  /\ UNCHANGED <<files, history>>

Signal == CatchSignal /\ UNCHANGED <<files, history>>

NextRound == Tick /\ UNCHANGED <<files, history>>

GracefulExit == Shutdown /\ UNCHANGED <<files, history>>

-----------------------------------------------------------------------------
(* The consistency check.                                                  *)

\* Mutation: a file that does not parse is taken for a missing one.
Stored_UnreadableIsEmpty ==
  IF file \in {EmptyFile, Garbage} THEN NoCheckpoint ELSE file

\* The checkpoint a readable file holds for the check.
Stored == IF file = EmptyFile THEN NoCheckpoint ELSE file

ConsistencyFails == CheckFails /\ UNCHANGED <<files, history>>

\* The indices up to newest, the last index of cur, which this round will step
\* over as asked: all of them when nothing is monitored, those there were when
\* the log's first checkpoint was "just saved", those after a configured
\* endIndex.
SteppedOver(prev, newest) ==
  IF ~flags.monitored
    \/ (startIndex = NoIndex /\ prev = NoCheckpoint /\ anchor = NoCheckpoint)
  THEN 0..newest
  ELSE IF inputEndIndex = NoIndex THEN {} ELSE (inputEndIndex + 1)..newest

ConsistencyPasses(prev, cur, first, last, newest) ==
  /\ CheckPasses(prev, cur, first, last)
  /\ waived' = waived \cup SteppedOver(prev, newest)
  /\ UNCHANGED <<files, searched, delivered, anchor, fetchedTo>>

RangeRefused(prev, first, last) ==
  /\ CheckRefusesRange(prev, first, last)
  /\ UNCHANGED <<files, history>>

-----------------------------------------------------------------------------
(* The identity search, once its entries are fetched.                      *)

\* A fetch that fails, for whatever reason, ends the loop.
FetchFails ==
  /\ pc = "search"
  /\ LoopReturns
  /\ UNCHANGED <<files, history>>

\* Mutation: the metadata gets the size the search ended at, not the index.
RecordSucceeds_Size ==
  /\ recorded' = recorded \cup found
  /\ latestIndex' = endIndex + 1
  /\ SearchReturns(found, failed)
  /\ UNCHANGED <<file, history>>

\* WriteMatchedIdentityEntries appends the matches and rewrites the metadata.
RecordSucceeds ==
  /\ recorded' = recorded \cup found
  /\ latestIndex' = endIndex
  /\ SearchReturns(found, failed)
  /\ UNCHANGED <<file, history>>

\* It stops at the first line, or at the metadata, it cannot write.
RecordFails ==
  /\ \E written \in SUBSET found : recorded' = recorded \cup written
  /\ LoopReturns
  /\ UNCHANGED <<file, latestIndex, history>>

Notify ==
  /\ SendSucceeds
  /\ LET send == Head(outbox)
     IN delivered' = delivered \cup
          {<<send.payload, send.platform, i>> : i \in Reported(send)}
  /\ UNCHANGED <<files, searched, waived, anchor, fetchedTo>>

NotifyFails == SendFails /\ UNCHANGED <<files, history>>

-----------------------------------------------------------------------------
(* The checkpoint file: os.WriteFile truncates, then writes.               *)

\* The cases in which WriteCheckpoint leaves the file alone.
CheckpointKept ==
  /\ pc = "write"
  /\ CheckpointHandled
  /\ UNCHANGED <<files, history>>

CheckpointTruncated ==
  /\ pc = "write"
  /\ pc' = "flush"
  /\ file' = EmptyFile
  /\ UNCHANGED <<flags, startIndex, endIndex, inputEndIndex, roundVars,
                 signalled, failureCounted, recorded, latestIndex, history>>

\* Mutation: prev and cur are swapped in the call.
CheckpointFlushed_Swapped ==
  /\ pc = "flush"
  /\ file' = prevCheckpoint
  /\ anchor' = curCheckpoint
  /\ CheckpointHandled
  /\ UNCHANGED <<recorded, latestIndex, searched, waived, delivered, fetchedTo>>

CheckpointFlushed ==
  /\ pc = "flush"
  /\ file' = curCheckpoint
  /\ anchor' = curCheckpoint
  /\ CheckpointHandled
  /\ UNCHANGED <<recorded, latestIndex, searched, waived, delivered, fetchedTo>>

\* The file cannot be opened.
CheckpointNotOpened ==
  /\ pc = "write"
  /\ LoopReturns
  /\ UNCHANGED <<files, history>>

\* The file cannot be written to its end (a full disk).
WriteFails ==
  /\ pc = "flush"
  /\ TornWrites
  /\ file' \in {EmptyFile, Garbage}
  /\ LoopReturns
  /\ UNCHANGED <<recorded, latestIndex, history>>

-----------------------------------------------------------------------------
\* The part of the next-state relation that needs nothing of the log.
ProcessNext ==
  \/ Start
  \/ Crash
  \/ Signal
  \/ ConsistencyFails
  \/ FetchFails
  \/ Notify
  \/ NotifyFails
  \/ CheckpointFlushed
  \/ WriteFails
  \/ NextRound
  \/ GracefulExit

Reports == Payloads \X STRING \X Index

ProcessTypeOK(Checkpoint) ==
  /\ LoopTypeOK(Checkpoint)
  /\ file \in Checkpoint \cup {EmptyFile, Garbage}
  /\ recorded \subseteq Index
  /\ latestIndex \in OptionalIndex
  /\ searched \subseteq Index
  /\ waived \subseteq Index
  /\ delivered \subseteq Reports
  /\ anchor \in Checkpoint \cup {NoCheckpoint}
  /\ fetchedTo \in OptionalIndex
=============================================================================
