----------------------------- MODULE RekorV1Proofs -----------------------------
(***************************************************************************)
(* Theorems about RekorV1, for every log, every set of platforms, every    *)
(* configuration and every batch size.                                     *)
(*                                                                         *)
(* Those that say that nothing is missed or lost name an assumption: no    *)
(* write of the checkpoint file is cut short (~TornWrites).                *)
(***************************************************************************)
EXTENDS RekorV1, MonitorProcessProofs

-----------------------------------------------------------------------------
(* Types.                                                                  *)

\* What the types of the loop's variables come to at each of its calls: the
\* range is set from the check to the last Send, and so is the checkpoint to
\* store, until it is stored.
Shape ==
  /\ ValuesOK
  /\ pc \in {"search", "notify"} =>
       startIndex \in Int /\ endIndex \in Int /\ startIndex <= endIndex
  /\ pc \in {"search", "notify", "write", "flush"} => curCheckpoint \in Checkpoint
  /\ pc = "notify" => outbox # <<>>

\* It is the shape of any monitor's process, beside a log.
LEMMA ShapeOfProcess ==
  /\ Shape <=> ProcessShape(Checkpoint) /\ log \in Checkpoint /\ next \in Index
  /\ Shape' <=> ProcessShape(Checkpoint)' /\ log' \in Checkpoint /\ next' \in Index
  BY DEF Shape, ValuesOK, ProcessShape

\* The steps that this module shares with the other monitors.
RoundStep ==
  \/ ProcessNext /\ LogUnchanged
  \/ StartAfterEnd
  \/ IdentitySearch
  \/ IdentitySearchFails
  \/ WriteCheckpoint
  \/ WriteCheckpointFails

LEMMA RoundStepIsProcessStep == RoundStep => ProcessStep /\ LogUnchanged
<1>1. CASE ProcessNext /\ LogUnchanged
  BY <1>1, ProcessNextIsStep
<1>2. CASE StartAfterEnd
  BY <1>2 DEF StartAfterEnd, ProcessStep, Ends
<1>3. CASE IdentitySearch \/ IdentitySearchFails
  BY <1>3 DEF IdentitySearch, IdentitySearchFails, ProcessStep, Ends
<1>4. CASE WriteCheckpoint \/ WriteCheckpointFails
  BY <1>4 DEF WriteCheckpoint, WriteCheckpointFails, ProcessStep, Ends
<1> QED  BY <1>1, <1>2, <1>3, <1>4 DEF RoundStep

\* The Boolean variables only ever get Boolean values.
LEMMA BooleansInductive ==
  ASSUME BooleansOK, [Next]_vars
  PROVE  BooleansOK'
<1>1. CASE LogAppends \/ LogRewrites \/ UNCHANGED vars
  BY <1>1 DEF LogAppends, LogRewrites, vars, loopVars, BooleansOK, LoopBooleansOK
<1>2. CASE RoundStep
  BY <1>2, RoundStepIsProcessStep, LoopBooleansKept DEF LogUnchanged, BooleansOK
<1>3. CASE RunConsistencyCheck
  BY <1>3, LoopBooleansKept DEF RunConsistencyCheck, BooleansOK
<1>4. CASE GetEntriesByIndexRange
  BY <1>4 DEF GetEntriesByIndexRange, BooleansOK, LoopBooleansOK
<1> QED  BY <1>1, <1>2, <1>3, <1>4 DEF Next, RoundStep

\* The log stays a sequence of entries.
LEMMA LogType ==
  ASSUME log \in Checkpoint, LogAppends \/ LogRewrites
  PROVE  log' \in Checkpoint
<1> USE DEF Checkpoint
<1>1. CASE LogAppends
  BY <1>1, AppendProperties DEF LogAppends
<1>2. CASE LogRewrites
  <2>1. CASE log' = Front(log)
    <3>1. \A i \in 1..(Len(log) - 1) : log[i] \in Entries
      BY LenProperties, ElementOfSeq
    <3> QED BY <2>1, <3>1, SubSeqProperties, LenProperties DEF Front
  <2>2. ASSUME NEW i \in (InactiveSize + 1)..Len(log), NEW e \in Entries,
               log' = [log EXCEPT ![i] = e]
        PROVE  log' \in Checkpoint
    BY <2>2, ExceptSeq, LenProperties, SizesAssumption
  <2> QED BY <1>2, <2>1, <2>2 DEF LogRewrites
<1> QED  BY <1>1, <1>2

\* A monitor that never ran, beside a log of inactive entries.
LEMMA InitShape == Init => Shape
<1> SUFFICES ASSUME Init PROVE Shape
  OBVIOUS
<1>1. log \in Checkpoint
  BY SizesAssumption, SeqDef DEF Init, Checkpoint
<1>2. ProcessShape(Checkpoint)
  BY InitProcessShape DEF Init
<1> QED
  BY <1>1, <1>2, ShapeOfProcess DEF Init, Index

\* Every operation of the process and of the log keeps the types, and leaves a
\* search a range and a checkpoint to work on.
LEMMA ShapeInductive ==
  ASSUME Shape, [Next]_vars
  PROVE  Shape'
<1>1. CASE LogAppends \/ LogRewrites
  BY <1>1, LogType DEF LogAppends, LogRewrites, loopVars, files, history, Shape,
     ValuesOK, ProcessTypeOK, LoopTypeOK
<1>2. CASE RoundStep
  <2>1. ProcessShape(Checkpoint)'
    BY <1>2, RoundStepIsProcessStep, ShapeOfProcess, ProcessShapeKept
  <2>2. log' = log /\ next' \in {next, 0}
    BY <1>2, RoundStepIsProcessStep DEF LogUnchanged
  <2> QED  BY <2>1, <2>2, ShapeOfProcess DEF Index
<1>3. CASE RunConsistencyCheck
  <2>1. /\ log \in Checkpoint /\ log' = log
        /\ GetCheckpointIndex(log) \in Int
    BY <1>3, SizesAssumption, LenProperties
    DEF RunConsistencyCheck, GetCheckpointIndex, Size, Checkpoint, Shape, ValuesOK
  <2>2. Stored \in Checkpoint \cup {NoCheckpoint}
    BY <1>3 DEF RunConsistencyCheck, Consistent, Stored, Shape, ValuesOK, ProcessTypeOK
  <2>3. Stored # NoCheckpoint => GetCheckpointIndex(Stored) \in Int
    BY <2>2, SizesAssumption, LenProperties DEF GetCheckpointIndex, Size, Checkpoint
  <2>4. ProcessShape(Checkpoint)'
    BY <1>3, <2>1, <2>2, <2>3, ShapeOfProcess, CheckShapeKept DEF RunConsistencyCheck
  <2>5. next' \in Int
    <3>1. pc' = "search" => startIndex' \in Int
      BY <2>4 DEF ProcessShape
    <3> QED  BY <1>3, <3>1 DEF RunConsistencyCheck
  <2> QED  BY <2>1, <2>4, <2>5, ShapeOfProcess DEF Index
<1>4. CASE GetEntriesByIndexRange
  <2>1. Batch \subseteq Int /\ BatchEnd \in Int /\ next' \in Int
    BY <1>4, SizesAssumption DEF GetEntriesByIndexRange, Batch, BatchEnd, Shape,
       ValuesOK, Index
  <2>2. found' \subseteq Int /\ failed' \subseteq Int /\ searched' \subseteq Int
    BY <1>4, <2>1 DEF GetEntriesByIndexRange, MatchedIndices, Shape, ValuesOK,
       ProcessTypeOK, LoopTypeOK, Index
  <2> QED
    BY <1>4, <2>1, <2>2 DEF GetEntriesByIndexRange, files, Shape, ValuesOK,
       ProcessTypeOK, LoopTypeOK, PCs, OptionalIndex, Index
<1>5. CASE UNCHANGED vars
  BY <1>5 DEF vars, loopVars, files, history, Shape, ValuesOK, ProcessTypeOK, LoopTypeOK
<1> QED
  BY <1>1, <1>2, <1>3, <1>4, <1>5 DEF Next, RoundStep

\* Every variable always has its type.  Shape, which carries the proof, adds that
\* MonitorLoop calls IdentitySearch only with two indices and WriteCheckpoint only
\* with a checkpoint, the pointers that those dereference.
THEOREM TypeCorrect == Spec => []TypeOK
<1>1. Init => Shape /\ BooleansOK
  <2>1. Init => BooleansOK
    BY DEF Init, ProcessInit, LoopInit, BooleansOK, LoopBooleansOK
  <2> QED  BY <2>1, InitShape
<1>2. Shape /\ BooleansOK /\ [Next]_vars => (Shape /\ BooleansOK)'
  BY ShapeInductive, BooleansInductive
<1>3. Shape /\ BooleansOK => TypeOK
  BY DEF Shape, TypeOK
<1> QED
  BY <1>1, <1>2, <1>3, PTL DEF Spec

-----------------------------------------------------------------------------
(* Coverage.                                                               *)
(*                                                                         *)
(* The stored checkpoint alone does not say why nothing was missed: the    *)
(* loop carries its place in startIndex, next and endIndex, and takes it   *)
(* up again from the file after a restart.  CoverageInv follows the place  *)
(* from call to call; AnchorInv says that the file a round read is still   *)
(* what it read when the round replaces it.                                *)

\* Nothing was missed up to index i.
Covered(i) == 0..i \subseteq searched \cup waived

CoverageInv ==
  /\ anchor # NoCheckpoint => Covered(GetCheckpointIndex(anchor))
  /\ latestIndex # NoIndex => Covered(latestIndex)
  /\ pc = "check" => endIndex = inputEndIndex
  /\ pc \in {"check", "wait"} /\ startIndex # NoIndex => Covered(startIndex)
  /\ pc = "search" => {i \in 0..endIndex : i < next} \subseteq searched \cup waived
  /\ pc = "notify" => Covered(endIndex)
  /\ pc \in {"search", "notify"} =>
       {i \in Below(curCheckpoint) : i > endIndex} \subseteq waived
  /\ pc \in {"write", "flush"} =>
       /\ Covered(GetCheckpointIndex(curCheckpoint))
       /\ startIndex # NoIndex /\ inputEndIndex = NoIndex => Covered(startIndex)

AnchorInv ==
  /\ file # Garbage
  /\ pc # "flush" => Stored = anchor
  /\ pc \in {"search", "notify", "write", "flush"} =>
       /\ prevCheckpoint = anchor
       /\ anchor # NoCheckpoint => IsPrefix(anchor, curCheckpoint)

\* A checkpoint stands for an index, whatever its length.
LEMMA IndexType ==
  ASSUME NEW c \in Checkpoint
  PROVE  GetCheckpointIndex(c) \in Int
  BY SizesAssumption, LenProperties DEF GetCheckpointIndex, Size, Checkpoint

\* At first there is no file, so nothing it could have lost or left out.
LEMMA InitAnchor == Init => CoverageInv /\ AnchorInv
  BY MarksAssumption
  DEF Init, ProcessInit, LoopInit, CoverageInv, AnchorInv, Stored

\* The file changes only where it is truncated and where it is written in full.
LEMMA AnchorInductive ==
  ASSUME ~TornWrites, Shape, AnchorInv, [Next]_vars
  PROVE  AnchorInv'
<1>1. /\ AnchorInv <=> StoredInv
      /\ AnchorInv' <=> StoredInv'
  BY DEF AnchorInv, StoredInv
<1>2. CASE LogAppends \/ LogRewrites \/ UNCHANGED vars
  BY <1>1, <1>2 DEF LogAppends, LogRewrites, vars, loopVars, files, history,
     StoredInv, Stored
<1>3. CASE RoundStep
  BY <1>1, <1>3, RoundStepIsProcessStep, ShapeOfProcess, StoredKept, MarksAssumption
<1>4. CASE RunConsistencyCheck
  BY <1>1, <1>4 DEF RunConsistencyCheck, Consistent, ConsistencyPasses, CheckPasses,
     files, StoredInv, Stored
<1>5. CASE GetEntriesByIndexRange
  BY <1>1, <1>5 DEF GetEntriesByIndexRange, files, StoredInv, Stored
<1> QED
  BY <1>2, <1>3, <1>4, <1>5 DEF Next, RoundStep

\* A step that goes down, or only to another wait, keeps what the files cover.
LEMMA ReturnsCoverage ==
  ASSUME CoverageInv, pc' = "down", UNCHANGED <<anchor, latestIndex, searched, waived>>
  PROVE  CoverageInv'
  BY DEF CoverageInv, Covered, GetCheckpointIndex, Size

\* So does a step that touches neither the files nor the loop's place.
LEMMA StutterCoverage ==
  ASSUME CoverageInv,
         UNCHANGED <<pc, startIndex, endIndex, inputEndIndex, curCheckpoint,
                     latestIndex, searched, waived, anchor, next>>
  PROVE  CoverageInv'
  BY DEF CoverageInv, Covered, Below, GetCheckpointIndex, Size

\* The round starts from what the file covers, and every index it steps over
\* was waived.
LEMMA CheckCoverage ==
  ASSUME Shape, AnchorInv, CoverageInv, RunConsistencyCheck
  PROVE  CoverageInv'
<1> DEFINE newest == GetCheckpointIndex(log)
           first  == GetCheckpointIndex(Stored)
           from   == RangeStart(Stored, first)
           to     == RangeEnd(newest)
<1>1. /\ pc = "check"
      /\ curCheckpoint' = log
      /\ waived' = waived \cup SteppedOver(Stored, newest)
      /\ UNCHANGED <<searched, anchor, latestIndex, inputEndIndex>>
  BY DEF RunConsistencyCheck, ConsistencyPasses, CheckPasses, files
<1>2. /\ newest \in Int
      /\ Stored = anchor
      /\ anchor # NoCheckpoint => first \in Int /\ Covered(first)
  BY <1>1, IndexType DEF Shape, ValuesOK, ProcessTypeOK, AnchorInv,
     CoverageInv
<1>3. /\ startIndex \in OptionalIndex /\ inputEndIndex \in OptionalIndex
      /\ endIndex = inputEndIndex
      /\ startIndex # NoIndex => Covered(startIndex)
  BY <1>1 DEF Shape, ValuesOK, ProcessTypeOK, LoopTypeOK, CoverageInv
<1>4. to \in Int /\ (inputEndIndex = NoIndex => to = newest)
                /\ (inputEndIndex # NoIndex => to = inputEndIndex)
  BY <1>2, <1>3 DEF RangeEnd, OptionalIndex, Index
<1>5. /\ anchor' # NoCheckpoint => Covered(GetCheckpointIndex(anchor))'
      /\ latestIndex' # NoIndex => Covered(latestIndex)'
  <2>1. anchor # NoCheckpoint => Covered(GetCheckpointIndex(anchor))
    BY DEF CoverageInv
  <2>2. latestIndex # NoIndex => Covered(latestIndex)
    BY DEF CoverageInv
  <2> QED  BY <1>1, <2>1, <2>2 DEF Covered, GetCheckpointIndex, Size
<1>6. newest = GetCheckpointIndex(curCheckpoint)'
  BY <1>1 DEF GetCheckpointIndex, Size
<1>7. CASE ~flags.monitored
  <2>1. 0..newest \subseteq waived'
    BY <1>1, <1>7 DEF SteppedOver
  <2>2. pc' = "write" /\ startIndex' = startIndex
    BY <1>7 DEF RunConsistencyCheck, ConsistencyPasses, CheckPasses
  <2>3. Covered(GetCheckpointIndex(curCheckpoint))'
    BY <2>1, <1>6 DEF Covered
  <2>4. startIndex' # NoIndex => Covered(startIndex)'
    BY <2>2, <1>1, <1>3 DEF Covered
  <2> QED  BY <1>5, <2>2, <2>3, <2>4 DEF CoverageInv
<1>8. CASE flags.monitored /\ NoIndex \in {from, to}
  <2>1. startIndex = NoIndex /\ anchor = NoCheckpoint
    BY <1>8, <1>4, <1>2, NilAssumption DEF RangeStart
  <2>2. 0..newest \subseteq waived'
    BY <1>1, <1>2, <2>1 DEF SteppedOver
  <2>3. pc' = "write" /\ startIndex' = to
    BY <1>8 DEF RunConsistencyCheck, ConsistencyPasses, CheckPasses
  <2>4. Covered(GetCheckpointIndex(curCheckpoint))'
    BY <2>2, <1>6 DEF Covered
  <2>5. inputEndIndex' = NoIndex => Covered(startIndex)'
    BY <2>2, <2>3, <1>4, <1>1 DEF Covered
  <2> QED  BY <1>5, <2>3, <2>4, <2>5 DEF CoverageInv
<1>9. CASE flags.monitored /\ NoIndex \notin {from, to}
  <2>1. pc' = "search" /\ endIndex' = to /\ next' = from + 1
    BY <1>9 DEF RunConsistencyCheck, ConsistencyPasses, CheckPasses
  <2>2. from \in Int /\ Covered(from)
    BY <1>9, <1>2, <1>3 DEF RangeStart, OptionalIndex, Index
  <2>3. ASSUME NEW i \in 0..to, i < from + 1
        PROVE  i \in searched' \cup waived'
    <3>1. i \in 0..from
      BY <2>2, <2>3, <1>4
    <3> QED  BY <3>1, <2>2, <1>1 DEF Covered
  <2>4. ASSUME NEW i \in 0..newest, i > to
        PROVE  i \in waived'
    <3>1. inputEndIndex # NoIndex /\ to = inputEndIndex
      BY <2>4, <1>4, <1>2
    <3>2. i \in (inputEndIndex + 1)..newest /\ i \in 0..newest
      BY <2>4, <3>1, <1>2, <1>4
    <3> QED  BY <1>1, <3>1, <3>2 DEF SteppedOver
  <2>5. {i \in 0..endIndex' : i < next'} \subseteq searched' \cup waived'
    BY <2>1, <2>3
  <2>6. {i \in 0..newest : i > endIndex'} \subseteq waived'
    BY <2>1, <2>4
  <2>7. {i \in Below(curCheckpoint) : i > endIndex}' \subseteq waived'
    BY <2>6, <1>6 DEF Below
  <2> QED  BY <1>5, <2>1, <2>5, <2>7 DEF CoverageInv
<1> QED  BY <1>7, <1>8, <1>9

\* A batch begins where the one before it ended.
LEMMA BatchCoverage ==
  ASSUME Shape, CoverageInv, GetEntriesByIndexRange
  PROVE  CoverageInv'
<1>1. /\ pc = "search" /\ pc' = "search"
      /\ searched' = searched \cup Batch
      /\ next' = next + BatchSize
      /\ UNCHANGED <<endIndex, curCheckpoint, latestIndex, waived, anchor>>
  BY DEF GetEntriesByIndexRange, files
<1>2. next \in Int /\ endIndex \in Int /\ BatchSize \in Int
  BY <1>1, SizesAssumption DEF Shape, ValuesOK, Index
<1>3. ASSUME NEW i \in 0..endIndex, i < next + BatchSize
      PROVE  i \in searched' \cup waived'
  <2>1. CASE i < next
    BY <2>1, <1>1 DEF CoverageInv
  <2>2. CASE i >= next
    <3>1. i \in Batch
      BY <1>2, <1>3, <2>2 DEF Batch, BatchEnd
    <3> QED  BY <3>1, <1>1
  <2> QED  BY <2>1, <2>2, <1>2
<1>4. /\ anchor # NoCheckpoint => Covered(GetCheckpointIndex(anchor))
      /\ latestIndex # NoIndex => Covered(latestIndex)
      /\ {i \in Below(curCheckpoint) : i > endIndex} \subseteq waived
  BY <1>1 DEF CoverageInv
<1>5. /\ (anchor # NoCheckpoint => Covered(GetCheckpointIndex(anchor)))'
      /\ (latestIndex # NoIndex => Covered(latestIndex))'
      /\ {i \in Below(curCheckpoint) : i > endIndex}' \subseteq waived'
  BY <1>1, <1>4 DEF Covered, Below, GetCheckpointIndex, Size
<1> QED  BY <1>1, <1>3, <1>5 DEF CoverageInv

\* When the search and the Sends are over, the whole checkpoint is covered.
LEMMA SearchedCoverage ==
  ASSUME Shape, CoverageInv, IdentitySearch \/ Notify
  PROVE  CoverageInv'
<1>1. /\ pc \in {"search", "notify"} /\ pc' \in {"notify", "write"}
      /\ pc' = "write" => startIndex' = endIndex
      /\ pc' = "notify" => endIndex' = endIndex
      /\ latestIndex' \in {latestIndex, endIndex}
      /\ UNCHANGED <<searched, waived, anchor, curCheckpoint>>
  BY DEF IdentitySearch, RecordSucceeds, Notify, SendSucceeds, SearchReturns,
     Advance, history, files
<1>2. endIndex \in Int /\ next \in Int /\ curCheckpoint \in Checkpoint
  BY <1>1 DEF Shape, ValuesOK, Index
<1>3. Covered(endIndex)
  <2>1. CASE IdentitySearch
    <3>1. pc = "search" /\ next > endIndex
      BY <2>1 DEF IdentitySearch
    <3>2. \A i \in 0..endIndex : i < next
      BY <3>1, <1>2
    <3> QED  BY <3>1, <3>2 DEF CoverageInv, Covered
  <2>2. CASE Notify
    BY <2>2 DEF Notify, SendSucceeds, CoverageInv
  <2> QED  BY <2>1, <2>2
<1>4. {i \in Below(curCheckpoint) : i > endIndex} \subseteq waived
  BY <1>1 DEF CoverageInv
<1>5. Covered(GetCheckpointIndex(curCheckpoint))
  <2>1. ASSUME NEW i \in 0..GetCheckpointIndex(curCheckpoint)
        PROVE  i \in searched \cup waived
    <3>1. CASE i > endIndex
      BY <1>4, <3>1 DEF Below
    <3>2. CASE i <= endIndex
      BY <1>2, <1>3, <3>2 DEF Covered
    <3> QED  BY <3>1, <3>2, <1>2
  <2> QED  BY <2>1 DEF Covered
<1>6. /\ anchor # NoCheckpoint => Covered(GetCheckpointIndex(anchor))
      /\ latestIndex # NoIndex => Covered(latestIndex)
  BY DEF CoverageInv
<1>7. searched' \cup waived' = searched \cup waived
  BY <1>1
<1>8. /\ (anchor # NoCheckpoint => Covered(GetCheckpointIndex(anchor)))'
      /\ Covered(GetCheckpointIndex(curCheckpoint))'
  BY <1>1, <1>5, <1>6, <1>7 DEF Covered, GetCheckpointIndex, Size
<1>9. (latestIndex # NoIndex => Covered(latestIndex))'
  BY <1>1, <1>3, <1>6, <1>7 DEF Covered
<1>10. pc' = "write" => Covered(startIndex)'
  BY <1>1, <1>3, <1>7 DEF Covered
<1>11. pc' = "notify" => Covered(endIndex)'
  BY <1>1, <1>3, <1>7 DEF Covered
<1>12. pc' = "notify" => {i \in Below(curCheckpoint) : i > endIndex}' \subseteq waived'
  BY <1>1, <1>4 DEF Below, GetCheckpointIndex, Size
<1> QED
  BY <1>1, <1>8, <1>9, <1>10, <1>11, <1>12 DEF CoverageInv

\* No operation stores, or puts in the metadata, more than was searched.
LEMMA CoverageInductive ==
  ASSUME ~TornWrites, Shape, AnchorInv, CoverageInv, [Next]_vars
  PROVE  CoverageInv'
<1>1. CASE LogAppends \/ LogRewrites \/ UNCHANGED vars
  BY <1>1, StutterCoverage DEF LogAppends, LogRewrites, vars, loopVars, files, history
<1>2. CASE ProcessNext /\ LogUnchanged
  <2>1. CASE Start
    <3>1. /\ pc' = "check" /\ endIndex' = inputEndIndex'
          /\ UNCHANGED <<anchor, latestIndex, searched>>
          /\ waived \subseteq waived'
          /\ startIndex' # NoIndex => 0..startIndex' \subseteq waived'
      BY <2>1 DEF Start, StartProcess, files
    <3>2. /\ anchor # NoCheckpoint => Covered(GetCheckpointIndex(anchor))
          /\ latestIndex # NoIndex => Covered(latestIndex)
      BY DEF CoverageInv
    <3>3. /\ anchor' # NoCheckpoint => Covered(GetCheckpointIndex(anchor))'
          /\ latestIndex' # NoIndex => Covered(latestIndex)'
          /\ startIndex' # NoIndex => Covered(startIndex)'
      BY <3>1, <3>2 DEF Covered, GetCheckpointIndex, Size
    <3> QED  BY <3>1, <3>3 DEF CoverageInv
  <2>2. CASE Crash \/ FetchFails \/ NotifyFails \/ WriteFails \/ GracefulExit
    BY <2>2, ReturnsCoverage DEF Crash, ProcessDies, FetchFails, NotifyFails,
       SendFails, WriteFails, GracefulExit, Shutdown, LoopReturns, files, history
  <2>3. CASE Signal
    <3>1. UNCHANGED <<pc, startIndex, endIndex, inputEndIndex, curCheckpoint,
                      latestIndex, searched, waived, anchor>>
      BY <2>3 DEF Signal, CatchSignal, roundVars, files, history
    <3>2. pc' = "search" => next' = next
      BY <1>2 DEF LogUnchanged
    <3> QED
      BY <3>1, <3>2 DEF CoverageInv, Covered, Below, GetCheckpointIndex, Size
  <2>4. CASE ConsistencyFails
    <3>1. CASE flags.once
      BY <2>4, <3>1, ReturnsCoverage
      DEF ConsistencyFails, CheckFails, LoopReturns, files, history
    <3>2. CASE ~flags.once
      BY <2>4, <3>2 DEF ConsistencyFails, CheckFails, roundVars, files, history,
         CoverageInv, Covered, GetCheckpointIndex, Size
    <3> QED  BY <3>1, <3>2
  <2>5. CASE Notify
    BY <2>5, SearchedCoverage
  <2>6. CASE CheckpointFlushed
    <3>1. /\ pc = "flush" /\ anchor' = curCheckpoint
          /\ UNCHANGED <<latestIndex, searched, waived>>
          /\ \/ pc' = "down"
             \/ pc' = "wait" /\ startIndex' = startIndex /\ inputEndIndex = NoIndex
      BY <2>6 DEF CheckpointFlushed, CheckpointHandled, LoopReturns
    <3> QED
      BY <3>1 DEF CoverageInv, Covered, GetCheckpointIndex, Size
  <2>7. CASE NextRound
    BY <2>7 DEF NextRound, Tick, files, history, CoverageInv, Covered,
       GetCheckpointIndex, Size
  <2> QED
    BY <1>2, <2>1, <2>2, <2>3, <2>4, <2>5, <2>6, <2>7 DEF ProcessNext
<1>3. CASE RunConsistencyCheck
  BY <1>3, CheckCoverage
<1>4. CASE StartAfterEnd \/ IdentitySearchFails \/ WriteCheckpointFails
  BY <1>4, ReturnsCoverage DEF StartAfterEnd, RangeRefused, CheckRefusesRange,
     IdentitySearchFails, RecordFails, WriteCheckpointFails, CheckpointNotOpened,
     LoopReturns, files, history
<1>5. CASE GetEntriesByIndexRange
  BY <1>5, BatchCoverage
<1>6. CASE IdentitySearch
  BY <1>6, SearchedCoverage
<1>7. CASE WriteCheckpoint
  <2>1. CASE CheckpointKept
    <3>1. /\ pc = "write"
          /\ UNCHANGED <<latestIndex, searched, waived, anchor>>
          /\ \/ pc' = "down"
             \/ pc' = "wait" /\ startIndex' = startIndex /\ inputEndIndex = NoIndex
      BY <2>1 DEF CheckpointKept, CheckpointHandled, LoopReturns, files, history
    <3> QED
      BY <3>1 DEF CoverageInv, Covered, GetCheckpointIndex, Size
  <2>2. CASE CheckpointTruncated
    BY <2>2 DEF CheckpointTruncated, roundVars, history, CoverageInv, Covered,
       GetCheckpointIndex, Size
  <2> QED  BY <1>7, <2>1, <2>2 DEF WriteCheckpoint
<1> QED
  BY <1>1, <1>2, <1>3, <1>4, <1>5, <1>6, <1>7 DEF Next

\* The inductive invariant, when no write of the checkpoint file is cut short.
SafetyInv == Shape /\ AnchorInv /\ CoverageInv

\* The three parts of the invariant together.
LEMMA SafetyInductive ==
  ASSUME ~TornWrites
  PROVE  Spec => []SafetyInv
<1>1. Init => SafetyInv
  BY InitShape, InitAnchor DEF SafetyInv
<1>2. SafetyInv /\ [Next]_vars => SafetyInv'
  BY ShapeInductive, AnchorInductive, CoverageInductive DEF SafetyInv
<1> QED  BY <1>1, <1>2, PTL DEF Spec

\* No checkpoint is stored before the entries it commits to have been searched,
\* whatever fails, dies or is restarted in between, as long as the write of the
\* checkpoint file itself is not cut short.
THEOREM NoGap ==
  ASSUME ~TornWrites
  PROVE  Spec => []Coverage
<1>1. SafetyInv => Coverage
  BY DEF SafetyInv, CoverageInv, Covered, Coverage, Below
<1> QED  BY <1>1, SafetyInductive, PTL

\* The identity metadata that WriteMatchedIdentityEntries writes never names an
\* index below which an entry was missed.
THEOREM NoMetadataGap ==
  ASSUME ~TornWrites
  PROVE  Spec => []MetadataCoverage
<1>1. SafetyInv => MetadataCoverage
  BY DEF SafetyInv, CoverageInv, Covered, MetadataCoverage
<1> QED  BY <1>1, SafetyInductive, PTL

\* Only the complete write of a checkpoint moves the anchor.
LEMMA OnlyFlushAnchors ==
  ASSUME [Next]_vars
  PROVE  anchor' = anchor \/ CheckpointFlushed
  BY DEF Next, ProcessNext, LogAppends, LogRewrites, Start, Crash, Signal,
     ConsistencyFails, FetchFails, Notify, NotifyFails, WriteFails, NextRound,
     GracefulExit, RunConsistencyCheck, ConsistencyPasses, StartAfterEnd,
     RangeRefused, GetEntriesByIndexRange, IdentitySearch, RecordSucceeds,
     IdentitySearchFails, RecordFails, WriteCheckpoint, CheckpointKept,
     CheckpointTruncated, WriteCheckpointFails, CheckpointNotOpened, vars, history

\* Each stored checkpoint commits to everything the one before it did: no
\* sequence of failures makes the monitor accept a log that rewrote its past.
THEOREM NoFork ==
  ASSUME ~TornWrites
  PROVE  Spec => StoredChain
<1>1. ASSUME SafetyInv, [Next]_vars, anchor # NoCheckpoint
      PROVE  anchor' # NoCheckpoint /\ IsPrefix(anchor, anchor')
  <2>1. anchor' = anchor \/ CheckpointFlushed
    BY <1>1, OnlyFlushAnchors
  <2>2. CASE anchor' = anchor
    <3>1. anchor \in Checkpoint
      BY <1>1 DEF SafetyInv, Shape, ValuesOK, ProcessTypeOK
    <3> QED  BY <2>2, <3>1, <1>1, PrefixReflexive DEF Checkpoint
  <2>3. CASE CheckpointFlushed
    <3>1. pc = "flush" /\ anchor' = curCheckpoint
      BY <2>3 DEF CheckpointFlushed
    <3>2. curCheckpoint \in Checkpoint /\ IsPrefix(anchor, curCheckpoint)
      BY <3>1, <1>1 DEF SafetyInv, Shape, AnchorInv
    <3> QED  BY <3>1, <3>2, MarksAssumption
  <2> QED  BY <2>1, <2>2, <2>3
<1> QED
  BY <1>1, SafetyInductive, PTL DEF Spec, StoredChain

-----------------------------------------------------------------------------
(* Rounds.                                                                 *)

\* The checkpoint a finished round leaves behind.
RoundStored == anchor = curCheckpoint \/ Size(curCheckpoint) = 0

\* What a round finds stored, with torn writes too.
RoundInv == Shape /\ ReadInv

LEMMA RoundInductive == Spec => []RoundInv
<1>1. Init => RoundInv
  BY InitShape DEF RoundInv, ReadInv, Init, ProcessInit, LoopInit
<1>2. ASSUME RoundInv, [Next]_vars PROVE RoundInv'
  <2>1. Shape'
    BY <1>2, ShapeInductive DEF RoundInv
  <2>2. CASE LogAppends \/ LogRewrites \/ UNCHANGED vars
    BY <1>2, <2>1, <2>2 DEF LogAppends, LogRewrites, vars, loopVars, files, history,
       RoundInv, ReadInv
  <2>3. CASE RoundStep
    BY <1>2, <2>1, <2>3, RoundStepIsProcessStep, ReadKept DEF RoundInv
  <2>4. CASE RunConsistencyCheck
    BY <1>2, <2>1, <2>4 DEF RunConsistencyCheck, Consistent, ConsistencyPasses,
       CheckPasses, files, RoundInv, ReadInv, Stored
  <2>5. CASE GetEntriesByIndexRange
    BY <1>2, <2>1, <2>5 DEF GetEntriesByIndexRange, files, RoundInv, ReadInv
  <2> QED  BY <1>2, <2>2, <2>3, <2>4, <2>5 DEF Next, RoundStep
<1> QED  BY <1>1, <1>2, PTL DEF Spec

\* A write step ends in "wait" only with the checkpoint stored.
LEMMA WriteStores ==
  ASSUME RoundInv, WriteCheckpoint \/ CheckpointFlushed, pc' = "wait"
  PROVE  /\ curCheckpoint \in Checkpoint /\ curCheckpoint' = curCheckpoint
         /\ RoundStored'
<1>1. /\ pc \in {"write", "flush"}
      /\ curCheckpoint' = curCheckpoint
  BY DEF WriteCheckpoint, CheckpointFlushed, CheckpointKept, CheckpointTruncated,
     CheckpointHandled, LoopReturns
<1>2. curCheckpoint \in Checkpoint
  BY <1>1 DEF RoundInv, Shape
<1>3. CASE CheckpointFlushed
  BY <1>1, <1>2, <1>3 DEF CheckpointFlushed, RoundStored
<1>4. CASE WriteCheckpoint
  <2>1. KeepsCheckpoint /\ anchor' = anchor /\ pc = "write"
    BY <1>4 DEF WriteCheckpoint, CheckpointKept, CheckpointTruncated, history
  <2>2. CASE Size(curCheckpoint) = 0
    BY <2>2, <1>1, <1>2 DEF RoundStored, Size
  <2>3. CASE prevCheckpoint # NoCheckpoint /\ Size(prevCheckpoint) = Size(curCheckpoint)
    <3>1. prevCheckpoint = anchor /\ anchor \in Checkpoint
      BY <2>1, <2>3 DEF RoundInv, ReadInv, Shape, ValuesOK, ProcessTypeOK
    <3>2. Len(prevCheckpoint) = Len(curCheckpoint)
      BY <2>3, <3>1, <1>2, LenProperties, SizesAssumption DEF Size, Checkpoint
    <3>3. anchor = curCheckpoint
      BY <1>2, <2>1, <2>3, <3>1, <3>2, SameSizeIsStored DEF RoundInv, Checkpoint
    <3> QED  BY <3>3, <1>1, <1>2, <2>1 DEF RoundStored
  <2> QED  BY <2>1, <2>2, <2>3 DEF KeepsCheckpoint
<1> QED  BY <1>3, <1>4

\* A round that ends without a counted failure has stored the log's checkpoint,
\* or an equal one was stored already, although WriteCheckpointRekorV1 compares no
\* more than the sizes, and whatever was left of the file by a process that died: a
\* step into "wait" either counts a failure or is the end of a write.
THEOREM RoundsAreQuietOnlyWhenStored == Spec => []QuietRound
<1>1. Init => QuietRound
  BY DEF Init, ProcessInit, LoopInit, QuietRound
<1>2. ASSUME RoundInv, QuietRound, [Next]_vars PROVE QuietRound'
  <2>1. ASSUME pc' # "wait" PROVE QuietRound'
    BY <2>1 DEF QuietRound
  <2>2. ASSUME UNCHANGED <<pc, failureCounted, curCheckpoint, anchor>>
        PROVE  QuietRound'
    BY <1>2, <2>2 DEF QuietRound, Size
  <2>3. CASE LogAppends \/ LogRewrites \/ UNCHANGED vars
    BY <2>3, <2>2 DEF LogAppends, LogRewrites, vars, loopVars, history
  <2>4. CASE ProcessNext /\ LogUnchanged
    <3>1. CASE Start \/ Crash \/ FetchFails \/ NotifyFails \/ WriteFails
                \/ NextRound \/ GracefulExit \/ Notify
      BY <3>1, <2>1 DEF Start, StartProcess, Crash, ProcessDies, FetchFails,
         NotifyFails, SendFails, WriteFails, NextRound, Tick, GracefulExit,
         Shutdown, LoopReturns, Notify, SendSucceeds
    <3>2. CASE Signal
      BY <3>2, <2>2 DEF Signal, CatchSignal, roundVars, history
    <3>3. CASE ConsistencyFails
      BY <3>3, <2>1 DEF ConsistencyFails, CheckFails, LoopReturns, QuietRound
    <3>4. CASE CheckpointFlushed
      BY <3>4, <1>2, <2>1, WriteStores, MarksAssumption DEF QuietRound, RoundStored
    <3> QED  BY <2>4, <3>1, <3>2, <3>3, <3>4 DEF ProcessNext
  <2>5. CASE RunConsistencyCheck \/ StartAfterEnd \/ IdentitySearchFails
              \/ IdentitySearch \/ GetEntriesByIndexRange \/ WriteCheckpointFails
    BY <2>5, <2>1 DEF RunConsistencyCheck, ConsistencyPasses, CheckPasses,
       StartAfterEnd, RangeRefused, CheckRefusesRange, IdentitySearchFails,
       RecordFails, IdentitySearch, RecordSucceeds, SearchReturns,
       GetEntriesByIndexRange, WriteCheckpointFails, CheckpointNotOpened, LoopReturns
  <2>6. CASE WriteCheckpoint
    BY <2>6, <1>2, <2>1, WriteStores, MarksAssumption DEF QuietRound, RoundStored
  <2> QED  BY <1>2, <2>3, <2>4, <2>5, <2>6 DEF Next
<1> QED  BY <1>1, <1>2, RoundInductive, PTL DEF Spec

\* A log is accepted that does not extend the last checkpoint stored only in a round
\* that found no checkpoint in the file.
ForksOnlyUnread ==
  [][anchor # NoCheckpoint /\ anchor' # anchor =>
       prevCheckpoint = NoCheckpoint \/ IsPrefix(anchor, anchor')]_vars

\* RunConsistencyCheck and WriteCheckpoint together, with torn writes too: the loss of
\* the file is the one way to a fork.
THEOREM ForksNeedALostFile == Spec => ForksOnlyUnread
<1>1. ASSUME RoundInv, [Next]_vars
      PROVE  [anchor # NoCheckpoint /\ anchor' # anchor =>
                prevCheckpoint = NoCheckpoint \/ IsPrefix(anchor, anchor')]_vars
  <2> SUFFICES ASSUME anchor # NoCheckpoint, anchor' # anchor,
                      prevCheckpoint # NoCheckpoint
               PROVE  IsPrefix(anchor, anchor')
    OBVIOUS
  <2>1. pc = "flush" /\ anchor' = curCheckpoint
    BY <1>1, OnlyFlushAnchors DEF CheckpointFlushed
  <2> QED  BY <1>1, <2>1 DEF RoundInv, ReadInv
<1> QED  BY <1>1, RoundInductive, PTL DEF Spec, ForksOnlyUnread

\* Where a process stands with respect to what it has fetched.
FetchInv ==
  fetchedTo # NoIndex =>
    /\ pc \in {"check", "write", "flush", "wait"} =>
         startIndex # NoIndex /\ fetchedTo <= startIndex
    /\ pc \in {"search", "notify"} => fetchedTo <= endIndex
    /\ pc = "search" => fetchedTo < next

\* Every operation leaves the next fetch beyond what this process fetched.
LEMMA FetchInductive ==
  ASSUME Shape, FetchInv, [Next]_vars
  PROVE  FetchInv'
<1>1. ASSUME pc' = "down" PROVE FetchInv'
  BY <1>1 DEF FetchInv
<1>2. ASSUME UNCHANGED <<fetchedTo, startIndex>>,
             pc \in {"check", "write", "flush", "wait"},
             pc' \in {"check", "write", "flush", "wait"}
      PROVE  FetchInv'
  BY <1>2 DEF FetchInv
<1>3. ASSUME UNCHANGED <<fetchedTo, startIndex, endIndex, next, pc>>
      PROVE  FetchInv'
  BY <1>3 DEF FetchInv
<1>4. CASE LogAppends \/ LogRewrites \/ UNCHANGED vars
  BY <1>4, <1>3 DEF LogAppends, LogRewrites, vars, loopVars, history
<1>5. CASE ProcessNext /\ LogUnchanged
  <2>1. CASE Start
    BY <2>1 DEF Start, FetchInv
  <2>2. CASE Crash \/ FetchFails \/ NotifyFails \/ WriteFails \/ GracefulExit
    BY <2>2, <1>1 DEF Crash, ProcessDies, FetchFails, NotifyFails, SendFails,
       WriteFails, GracefulExit, Shutdown, LoopReturns
  <2>3. CASE Signal
    <3>1. UNCHANGED <<fetchedTo, startIndex, endIndex, pc>>
      BY <2>3 DEF Signal, CatchSignal, history
    <3>2. pc' = "search" => next' = next
      BY <1>5 DEF LogUnchanged
    <3> QED  BY <3>1, <3>2 DEF FetchInv
  <2>4. CASE ConsistencyFails
    BY <2>4, <1>1, <1>2 DEF ConsistencyFails, CheckFails, LoopReturns, history
  <2>5. CASE Notify
    BY <2>5, NilAssumption DEF Notify, SendSucceeds, Advance, FetchInv, Shape
  <2>6. CASE CheckpointFlushed
    BY <2>6, <1>1, <1>2 DEF CheckpointFlushed, CheckpointHandled, LoopReturns
  <2>7. CASE NextRound
    BY <2>7, <1>2 DEF NextRound, Tick, history
  <2> QED
    BY <1>5, <2>1, <2>2, <2>3, <2>4, <2>5, <2>6, <2>7 DEF ProcessNext
<1>6. CASE RunConsistencyCheck
  <2> DEFINE from == RangeStart(Stored, GetCheckpointIndex(Stored))
  <2>1. /\ pc = "check" /\ fetchedTo' = fetchedTo
        /\ pc' \in {"write", "search"}
        /\ pc' = "search" => startIndex' = from /\ from <= endIndex'
                               /\ next' = startIndex' + 1
        /\ pc' = "write" => startIndex' = startIndex \/ from = NoIndex
                              \/ RangeEnd(GetCheckpointIndex(log)) = NoIndex
    BY <1>6 DEF RunConsistencyCheck, ConsistencyPasses, CheckPasses
  <2>2. log \in Checkpoint /\ GetCheckpointIndex(log) # NoIndex
    BY <1>6, IndexType, NilAssumption DEF Shape, ValuesOK
  <2>3. RangeEnd(GetCheckpointIndex(log)) # NoIndex
    BY <2>2 DEF RangeEnd
  <2>4. startIndex # NoIndex => from = startIndex
    BY DEF RangeStart
  <2>5. startIndex' \in OptionalIndex /\ endIndex' \in OptionalIndex
        /\ fetchedTo \in OptionalIndex /\ startIndex \in OptionalIndex
        /\ (pc' = "search" => startIndex' \in Int /\ endIndex' \in Int)
    <3>1. Shape'
      BY ShapeInductive
    <3> QED
      BY <3>1 DEF Shape, ValuesOK, ProcessTypeOK, LoopTypeOK
  <2>6. fetchedTo # NoIndex => fetchedTo \in Int /\ startIndex \in Int
                                /\ fetchedTo <= startIndex /\ from = startIndex
    BY <2>1, <2>4, <2>5 DEF FetchInv, OptionalIndex, Index
  <2> QED
    BY <2>1, <2>3, <2>5, <2>6, NilAssumption DEF FetchInv
<1>7. CASE StartAfterEnd \/ IdentitySearchFails \/ WriteCheckpointFails
  BY <1>7, <1>1 DEF StartAfterEnd, RangeRefused, CheckRefusesRange,
     IdentitySearchFails, RecordFails, WriteCheckpointFails, CheckpointNotOpened,
     LoopReturns
<1>8. CASE GetEntriesByIndexRange
  <2>1. /\ pc' = "search" /\ fetchedTo' = BatchEnd /\ endIndex' = endIndex
        /\ next' = next + BatchSize
        /\ next \in Int /\ endIndex \in Int /\ BatchSize \in Nat \ {0}
        /\ next <= endIndex
    BY <1>8, SizesAssumption DEF GetEntriesByIndexRange, Shape, ValuesOK, Index
  <2>2. BatchEnd <= endIndex /\ BatchEnd < next + BatchSize
    BY <2>1 DEF BatchEnd
  <2> QED  BY <2>1, <2>2 DEF FetchInv
<1>9. CASE IdentitySearch
  BY <1>9, NilAssumption DEF IdentitySearch, RecordSucceeds, SearchReturns,
     Advance, history, FetchInv, Shape
<1>10. CASE WriteCheckpoint
  BY <1>10, <1>1, <1>2 DEF WriteCheckpoint, CheckpointKept, CheckpointTruncated,
     CheckpointHandled, LoopReturns, history
<1> QED
  BY <1>4, <1>5, <1>6, <1>7, <1>8, <1>9, <1>10 DEF Next

\* One process never fetches an entry twice: the range GetEntriesByIndexRange
\* walks always begins after the one MonitorLoop advanced over.
THEOREM NothingFetchedTwice == Spec => []FetchedOnce
<1>1. Init => Shape /\ FetchInv
  BY InitShape DEF Init, ProcessInit, FetchInv
<1>2. Shape /\ FetchInv /\ [Next]_vars => (Shape /\ FetchInv)'
  BY ShapeInductive, FetchInductive
<1>3. Shape /\ FetchInv => FetchedOnce
  <2>1. Shape => next \in Int /\ fetchedTo \in OptionalIndex
    BY DEF Shape, ValuesOK, ProcessTypeOK, Index
  <2> QED  BY <2>1 DEF FetchInv, FetchedOnce, OptionalIndex, Index
<1> QED  BY <1>1, <1>2, <1>3, PTL DEF Spec

-----------------------------------------------------------------------------
(* The place of a round.                                                   *)
(*                                                                         *)
(* MonitorLoop has two records of how far it has come: startIndex, which   *)
(* it moves on after a search, and the checkpoint file, which it writes    *)
(* after that.  ResumeInv says that they agree whenever a range is taken   *)
(* from either of them.                                                    *)

\* The last index the stored checkpoint commits to, or the last inactive one.
LastStored == IF anchor = NoCheckpoint THEN InactiveSize - 1
                                       ELSE GetCheckpointIndex(anchor)

\* An empty tree is never stored.
SizesInv ==
  /\ Len(log) >= InactiveSize
  /\ anchor # NoCheckpoint => Len(anchor) > InactiveSize
  /\ pc \in {"search", "notify", "write", "flush"} => Len(curCheckpoint) >= InactiveSize
  /\ pc = "flush" => Len(curCheckpoint) > InactiveSize

ResumeInv ==
  /\ Running => inputEndIndex = flags.end
  /\ pc \in {"check", "wait"} => endIndex = flags.end
  /\ pc \in {"search", "notify"} => flags.monitored
  /\ flags.monitored /\ flags.start = NoIndex =>
       /\ pc \in {"check", "wait"} => startIndex \in {NoIndex, LastStored}
       /\ pc \in {"search", "notify"} => startIndex = LastStored
       /\ pc \in {"write", "flush"} /\ flags.end = NoIndex =>
            startIndex = GetCheckpointIndex(curCheckpoint)
  /\ flags.end = NoIndex =>
       /\ pc \in {"search", "notify"} => endIndex = GetCheckpointIndex(curCheckpoint)
       /\ pc \in {"write", "flush"} => endIndex = NoIndex

\* The log keeps its inactive shards, and what is stored has an entry beside theirs.
LEMMA SizesInductive ==
  ASSUME Shape, SizesInv, [Next]_vars
  PROVE  SizesInv'
<1>1. log \in Seq(Entries) /\ Len(log) \in Nat /\ InactiveSize \in Nat
  BY SizesAssumption, LenProperties DEF Shape, ValuesOK, Checkpoint
<1>2. CASE LogAppends \/ LogRewrites
  <2>1. Len(log') >= InactiveSize
    <3>1. CASE LogAppends
      BY <1>1, <3>1, AppendProperties DEF LogAppends, SizesInv
    <3>2. ASSUME LogRewrites, log' = Front(log) PROVE Len(log') >= InactiveSize
      BY <1>1, <3>2, SubSeqProperties DEF LogRewrites, Front, Size
    <3>3. ASSUME NEW i \in (InactiveSize + 1)..Len(log), NEW e \in Entries,
                 log' = [log EXCEPT ![i] = e]
          PROVE  Len(log') >= InactiveSize
      BY <1>1, <3>3, ExceptSeq DEF SizesInv
    <3> QED  BY <1>2, <3>1, <3>2, <3>3 DEF LogRewrites
  <2> QED  BY <1>2, <2>1 DEF LogAppends, LogRewrites, loopVars, history, SizesInv
<1>3. CASE RunConsistencyCheck
  BY <1>3 DEF RunConsistencyCheck, ConsistencyPasses, CheckPasses, SizesInv
<1>4. CASE GetEntriesByIndexRange
  BY <1>4 DEF GetEntriesByIndexRange, SizesInv
<1>5. CASE WriteCheckpoint
  <2>1. CASE CheckpointKept
    BY <1>5, <2>1 DEF CheckpointKept, CheckpointHandled, LoopReturns, LogUnchanged,
       WriteCheckpoint, history, SizesInv
  <2>2. CASE ~KeepsCheckpoint /\ CheckpointTruncated
    <3>1. /\ pc = "write" /\ pc' = "flush"
          /\ UNCHANGED <<log, anchor, curCheckpoint>>
      BY <1>5, <2>2 DEF CheckpointTruncated, LogUnchanged, WriteCheckpoint, history,
         roundVars
    <3>2. Len(curCheckpoint) \in Nat
      BY <3>1, LenProperties DEF Shape, Checkpoint
    <3>3. Len(curCheckpoint) > InactiveSize
      BY <1>1, <2>2, <3>1, <3>2 DEF KeepsCheckpoint, Size, SizesInv
    <3> QED  BY <3>1, <3>3 DEF SizesInv
  <2> QED  BY <1>5, <2>1, <2>2 DEF WriteCheckpoint
<1>6. CASE IdentitySearch \/ IdentitySearchFails \/ StartAfterEnd \/ WriteCheckpointFails
  BY <1>6 DEF IdentitySearch, RecordSucceeds, SearchReturns, IdentitySearchFails,
     RecordFails, StartAfterEnd, RangeRefused, CheckRefusesRange, WriteCheckpointFails,
     CheckpointNotOpened, LoopReturns, LogUnchanged, history, SizesInv
<1>7. CASE ProcessNext /\ LogUnchanged
  <2>1. log' = log
    BY <1>7 DEF LogUnchanged
  <2>2. CASE CheckpointFlushed
    BY <2>1, <2>2 DEF CheckpointFlushed, CheckpointHandled, LoopReturns, SizesInv
  <2>3. CASE Start \/ Crash \/ Signal \/ ConsistencyFails \/ FetchFails
    BY <2>1, <2>3 DEF Start, StartProcess, Crash, ProcessDies, Signal, CatchSignal,
       roundVars, ConsistencyFails, CheckFails, FetchFails, LoopReturns, history, SizesInv
  <2>4. CASE Notify \/ NotifyFails \/ WriteFails \/ NextRound \/ GracefulExit
    BY <2>1, <2>4 DEF Notify, SendSucceeds, NotifyFails, SendFails, WriteFails,
       NextRound, Tick, GracefulExit, Shutdown, LoopReturns, history, SizesInv
  <2> QED  BY <1>7, <2>2, <2>3, <2>4 DEF ProcessNext
<1>8. CASE UNCHANGED vars
  BY <1>8 DEF vars, loopVars, history, SizesInv
<1> QED
  BY <1>2, <1>3, <1>4, <1>5, <1>6, <1>7, <1>8 DEF Next

\* The range of a round is taken from the file or from memory, to the same effect.
LEMMA CheckResumes ==
  ASSUME Shape, AnchorInv, ResumeInv, RunConsistencyCheck
  PROVE  ResumeInv'
<1> DEFINE newest == GetCheckpointIndex(log)
           first  == GetCheckpointIndex(Stored)
           from   == RangeStart(Stored, first)
           to     == RangeEnd(newest)
<1>1. /\ pc = "check" /\ curCheckpoint' = log
      /\ CheckPasses(Stored, log, first, newest)
      /\ UNCHANGED <<flags, anchor, inputEndIndex>>
      /\ inputEndIndex = flags.end /\ endIndex = flags.end
  BY DEF RunConsistencyCheck, ConsistencyPasses, CheckPasses, ResumeInv, Running
<1>2. newest \in Int /\ newest = GetCheckpointIndex(curCheckpoint)'
  BY <1>1, IndexType DEF Shape, ValuesOK, GetCheckpointIndex, Size
<1>3. Stored = anchor /\ LastStored' = LastStored
      /\ (anchor # NoCheckpoint => first = LastStored)
  BY <1>1 DEF AnchorInv, LastStored, GetCheckpointIndex, Size
<1>4. flags.end = NoIndex => to = newest
  BY <1>1 DEF RangeEnd
<1>5. flags.monitored /\ flags.start = NoIndex => from \in {NoIndex, LastStored}
  BY <1>1, <1>3 DEF RangeStart, ResumeInv
<1>6. flags.monitored /\ flags.start = NoIndex /\ NoIndex = to => flags.end # NoIndex
  BY <1>2, <1>4, NilAssumption
<1> HIDE DEF newest, first, from, to
<1>7. CASE pc' = "write"
  <2>1. flags.monitored => startIndex' = to /\ endIndex' = NoIndex
    BY <1>1, <1>7 DEF CheckPasses, from, to
  <2>2. ~flags.monitored => endIndex' = endIndex
    BY <1>1, <1>7 DEF CheckPasses
  <2> QED  BY <1>1, <1>2, <1>4, <1>7, <2>1, <2>2 DEF ResumeInv, Running
<1>8. CASE pc' = "search"
  <2>1. /\ flags.monitored /\ startIndex' = from /\ endIndex' = to /\ from # NoIndex
    BY <1>1, <1>8 DEF CheckPasses, from, to
  <2> QED  BY <1>1, <1>2, <1>3, <1>4, <1>5, <1>8, <2>1 DEF ResumeInv, Running
<1> QED  BY <1>1, <1>7, <1>8 DEF CheckPasses

\* What a handled checkpoint leaves stored is what it commits to, written or not.
LEMMA HandledResumes ==
  ASSUME Shape, SizesInv, AnchorInv, ResumeInv, CheckpointKept \/ CheckpointFlushed,
         CheckpointKept => KeepsCheckpoint
  PROVE  ResumeInv'
<1>1. /\ pc \in {"write", "flush"} /\ CheckpointHandled
      /\ CheckpointKept \/ anchor' = curCheckpoint
  BY DEF CheckpointKept, CheckpointFlushed
<1>2. CASE pc' = "down"
  BY <1>2 DEF ResumeInv, Running
<1>3. CASE pc' # "down"
  <2>1. /\ pc' = "wait" /\ inputEndIndex = NoIndex
        /\ UNCHANGED <<flags, startIndex, endIndex, inputEndIndex>>
    BY <1>1, <1>3 DEF CheckpointHandled, LoopReturns
  <2>2. curCheckpoint \in Checkpoint /\ Len(curCheckpoint) \in Nat
        /\ InactiveSize \in Nat /\ Len(curCheckpoint) >= InactiveSize
    BY <1>1, LenProperties, SizesAssumption DEF Shape, SizesInv, Checkpoint
  <2>3. LastStored' = GetCheckpointIndex(curCheckpoint)
    <3>1. CASE anchor' = curCheckpoint
      <4>1. curCheckpoint # NoCheckpoint
        BY <2>2, MarksAssumption
      <4> QED  BY <3>1, <4>1 DEF LastStored, GetCheckpointIndex, Size
    <3>2. CASE CheckpointKept
      <4>1. /\ anchor' = anchor /\ KeepsCheckpoint /\ prevCheckpoint = anchor
            /\ anchor # NoCheckpoint => IsPrefix(anchor, curCheckpoint)
        BY <3>2, <1>1 DEF CheckpointKept, history, AnchorInv
      <4>2. LastStored' = LastStored
        BY <4>1 DEF LastStored, GetCheckpointIndex, Size
      <4>3. anchor # NoCheckpoint => anchor \in Checkpoint /\ Len(anchor) \in Nat
        BY LenProperties DEF Shape, ValuesOK, ProcessTypeOK, Checkpoint
      <4>4. CASE Size(curCheckpoint) = 0
        <5>1. ASSUME anchor # NoCheckpoint PROVE FALSE
          <6>1. Len(anchor) <= Len(curCheckpoint)
            BY <5>1, <4>1, <4>3, <2>2 DEF IsPrefix
          <6> QED  BY <5>1, <6>1, <4>3, <4>4, <2>2 DEF SizesInv, Size
        <5> QED
          BY <5>1, <4>2, <4>4, <2>2 DEF LastStored, GetCheckpointIndex, Size
      <4>5. CASE prevCheckpoint # NoCheckpoint
                 /\ Size(prevCheckpoint) = Size(curCheckpoint)
        BY <4>1, <4>2, <4>5 DEF LastStored, GetCheckpointIndex
      <4> QED  BY <4>1, <4>4, <4>5 DEF KeepsCheckpoint
    <3> QED  BY <1>1, <3>1, <3>2
  <2>4. /\ inputEndIndex = flags.end /\ endIndex = NoIndex
        /\ flags.monitored /\ flags.start = NoIndex =>
             startIndex = GetCheckpointIndex(curCheckpoint)
    BY <1>1, <2>1 DEF ResumeInv, Running
  <2>5. (inputEndIndex = flags.end /\ endIndex = flags.end)'
    BY <2>1, <2>4
  <2>6. (flags.monitored /\ flags.start = NoIndex => startIndex = LastStored)'
    BY <2>1, <2>3, <2>4
  <2> QED  BY <2>1, <2>5, <2>6 DEF ResumeInv, Running
<1> QED  BY <1>2, <1>3

\* Every operation keeps the two records in agreement.
LEMMA ResumeInductive ==
  ASSUME Shape, SizesInv, AnchorInv, ResumeInv, [Next]_vars
  PROVE  ResumeInv'
<1>1. ASSUME UNCHANGED <<pc, flags, startIndex, endIndex, inputEndIndex, curCheckpoint,
                         anchor>>
      PROVE  ResumeInv'
  BY <1>1 DEF ResumeInv, Running, LastStored, GetCheckpointIndex, Size
<1>2. ASSUME pc' = "down" PROVE ResumeInv'
  BY <1>2 DEF ResumeInv, Running
<1>3. CASE LogAppends \/ LogRewrites \/ UNCHANGED vars
  BY <1>1, <1>3 DEF LogAppends, LogRewrites, vars, loopVars, history
<1>4. CASE RunConsistencyCheck
  BY <1>4, CheckResumes
<1>5. CASE GetEntriesByIndexRange
  BY <1>5, <1>1 DEF GetEntriesByIndexRange
<1>6. CASE IdentitySearch \/ Notify
  <2>1. /\ pc \in {"search", "notify"}
        /\ UNCHANGED <<flags, inputEndIndex, curCheckpoint, anchor>>
        /\ \/ pc' = "notify" /\ UNCHANGED <<startIndex, endIndex>>
           \/ pc' = "write" /\ startIndex' = endIndex /\ endIndex' = NoIndex
    BY <1>6 DEF IdentitySearch, RecordSucceeds, SearchReturns, Notify, SendSucceeds,
       Advance, history
  <2> QED
    BY <2>1 DEF ResumeInv, Running, LastStored, GetCheckpointIndex, Size
<1>7. CASE WriteCheckpoint \/ CheckpointFlushed
  <2>1. CASE KeepsCheckpoint /\ CheckpointKept
    BY <2>1, HandledResumes
  <2>2. CASE CheckpointFlushed
    <3>1. ~CheckpointKept
      BY <2>2 DEF CheckpointFlushed, CheckpointKept
    <3> QED  BY <2>2, <3>1, HandledResumes
  <2>3. CASE CheckpointTruncated
    BY <2>3 DEF CheckpointTruncated, roundVars, history, ResumeInv, Running, LastStored,
       GetCheckpointIndex, Size
  <2> QED  BY <1>7, <2>1, <2>2, <2>3 DEF WriteCheckpoint
<1>8. CASE Start
  BY <1>8 DEF Start, StartProcess, ResumeInv, Running
<1>9. CASE Signal
  BY <1>9, <1>1 DEF Signal, CatchSignal, roundVars, history
<1>10. CASE NextRound
  BY <1>10 DEF NextRound, Tick, history, ResumeInv, Running, LastStored,
     GetCheckpointIndex, Size
<1>11. CASE ConsistencyFails
  <2>1. CASE flags.once
    BY <2>1, <1>11, <1>2 DEF ConsistencyFails, CheckFails, LoopReturns
  <2>2. CASE ~flags.once
    BY <2>2, <1>11 DEF ConsistencyFails, CheckFails, roundVars, history, ResumeInv,
       Running, LastStored, GetCheckpointIndex, Size
  <2> QED  BY <2>1, <2>2
<1>12. CASE Crash \/ FetchFails \/ NotifyFails \/ WriteFails \/ GracefulExit
            \/ StartAfterEnd \/ IdentitySearchFails \/ WriteCheckpointFails
  BY <1>12, <1>2 DEF Crash, ProcessDies, FetchFails, NotifyFails, SendFails, WriteFails,
     GracefulExit, Shutdown, StartAfterEnd, RangeRefused, CheckRefusesRange,
     IdentitySearchFails, RecordFails, WriteCheckpointFails, CheckpointNotOpened,
     LoopReturns
<1> QED
  BY <1>3, <1>4, <1>5, <1>6, <1>7, <1>8, <1>9, <1>10, <1>11, <1>12 DEF Next, ProcessNext

\* Whether a process remembers its place or reads it from the file it finds after a
\* restart, a round that nobody gave a range searches the entries that the served
\* checkpoint adds to the stored one: all of them, and no other.
THEOREM RoundsSearchWhatIsNew ==
  ASSUME ~TornWrites
  PROVE  Spec => []SearchesWhatIsNew
<1> DEFINE Inv == SafetyInv /\ SizesInv /\ ResumeInv
<1>1. Init => Inv
  <2>1. ASSUME Init PROVE Len(log) = InactiveSize
    BY <2>1, SizesAssumption DEF Init
  <2>2. Init => SafetyInv
    BY InitShape, InitAnchor DEF SafetyInv
  <2>3. Init => ResumeInv
    BY DEF Init, ProcessInit, LoopInit, ResumeInv, Running
  <2>4. Init => SizesInv
    BY <2>1, SizesAssumption DEF Init, ProcessInit, LoopInit, SizesInv
  <2> QED  BY <2>2, <2>3, <2>4
<1>2. Inv /\ [Next]_vars => Inv'
  BY ShapeInductive, AnchorInductive, CoverageInductive, SizesInductive, ResumeInductive
  DEF SafetyInv
<1>3. Inv => SearchesWhatIsNew
  <2> SUFFICES ASSUME Inv, pc \in {"search", "notify"}, flags.start = NoIndex,
                      flags.end = NoIndex
               PROVE  SearchesWhatIsNew
    BY DEF SearchesWhatIsNew
  <2>1. /\ startIndex = LastStored /\ endIndex = GetCheckpointIndex(curCheckpoint)
    BY DEF ResumeInv
  <2>2. startIndex \in Int /\ endIndex \in Int /\ InactiveSize \in Nat
    BY SizesAssumption DEF SafetyInv, Shape
  <2>3. startIndex >= -1
    <3>1. anchor # NoCheckpoint => Len(anchor) \in Nat /\ Len(anchor) > InactiveSize
      BY LenProperties
      DEF SafetyInv, Shape, ValuesOK, ProcessTypeOK, Checkpoint, SizesInv
    <3> QED  BY <2>1, <2>2, <3>1 DEF LastStored, GetCheckpointIndex, Size
  <2>4. (startIndex + 1)..endIndex = (0..endIndex) \ (0..startIndex)
    BY <2>2, <2>3
  <2>5. Below(curCheckpoint) = 0..endIndex
    BY <2>1 DEF Below
  <2>6. (IF anchor = NoCheckpoint THEN 0..(InactiveSize - 1) ELSE Below(anchor))
          = 0..startIndex
    BY <2>1 DEF LastStored, Below
  <2> QED  BY <2>4, <2>5, <2>6 DEF SearchesWhatIsNew
<1> HIDE DEF Inv
<1> QED
  BY <1>1, <1>2, <1>3, PTL DEF Spec

-----------------------------------------------------------------------------
(* A checkpoint file that does not parse.                                  *)

\* So does every step of the monitor and of the log: RunConsistencyCheck fails on an
\* unreadable file.
LEMMA GarbageInductive ==
  ASSUME StoppedAtGarbage, [Next]_vars
  PROVE  /\ StoppedAtGarbage'
         /\ file = Garbage =>
              UNCHANGED <<file, anchor, searched, recorded, latestIndex, delivered>>
<1>1. CASE LogAppends \/ LogRewrites \/ UNCHANGED vars
  BY <1>1 DEF LogAppends, LogRewrites, vars, loopVars, files, history,
     StoppedAtGarbage
<1>2. CASE RoundStep
  BY <1>2, RoundStepIsProcessStep, GarbageKept, MarksAssumption
<1>3. CASE RunConsistencyCheck
  <2>1. file # Garbage /\ file' = file
    BY <1>3, MarksAssumption
    DEF RunConsistencyCheck, Consistent, Stored, ConsistencyPasses, files
  <2> QED  BY <2>1 DEF StoppedAtGarbage
<1>4. CASE GetEntriesByIndexRange
  BY <1>4 DEF GetEntriesByIndexRange, files, StoppedAtGarbage
<1> QED
  BY <1>1, <1>2, <1>3, <1>4 DEF Next, RoundStep

\* A checkpoint file cut short stops the monitor: it is never taken for the file
\* of a first run, with torn writes or without.
THEOREM UnreadableFileStopsAll == Spec => UnreadableFileStops
<1>1. Init => StoppedAtGarbage
  BY DEF Init, ProcessInit, LoopInit, StoppedAtGarbage
<1>2. StoppedAtGarbage /\ [Next]_vars =>
        [file = Garbage =>
           UNCHANGED <<file, anchor, searched, recorded, latestIndex, delivered>>]_vars
  BY GarbageInductive
<1>3. StoppedAtGarbage /\ [Next]_vars => StoppedAtGarbage'
  BY GarbageInductive
<1> QED
  BY <1>1, <1>2, <1>3, PTL DEF Spec, UnreadableFileStops

-----------------------------------------------------------------------------
(* The promise of LogAudit, and with it Delivery.                          *)
(*                                                                         *)
(* SafetyInv says that everything was fetched.  That everything fetched    *)
(* was also recorded and reported depends on more: on what the round holds *)
(* in its two lists (ListsInv), on which Sends are still to be made        *)
(* (OutboxInv), on the log being what it was when the entries were matched *)
(* (PrefixInv), and on the loop's place among them (PlaceInv).             *)

\* The entry at index i is in the log and of one of some kinds.
IsOf(i, kinds) == i \in 0..(Len(log) - 1) /\ EntryAt(i) \in kinds

\* The entries a payload may be about.
KindOf(payload) == IF payload = "found" THEN Matching ELSE Unreadable

\* All that is owed for index i has been done.
Done(i) ==
  /\ i \in searched /\ i \in 0..(Len(log) - 1)
  /\ EntryAt(i) \in Matching => i \in recorded
  /\ \A payload \in Payloads, n \in 1..Len(Platforms) :
       EntryAt(i) \in KindOf(payload) => <<payload, Platforms[n], i>> \in delivered

Settled(i) == i \in waived \/ Done(i)

\* It has not, but the round holds it in its lists.
Held(i) ==
  /\ i \in searched /\ i \in 0..(Len(log) - 1)
  /\ \A payload \in Payloads : EntryAt(i) \in KindOf(payload) => i \in Listed(payload)

\* The lists are empty between the rounds, and never speak of what was not
\* fetched, or, on an append-only log, of an entry of another kind.
ListsInv ==
  /\ pc \in {"down", "check", "wait"} => found = {} /\ failed = {}
  /\ pc \in {"search", "notify"} =>
       \A payload \in Payloads : \A i \in Listed(payload) :
         i \in searched /\ (~rewritten => IsOf(i, KindOf(payload)))

\* What the monitor keeps of the log is still a part of it.
PrefixInv ==
  ~rewritten =>
    /\ searched \subseteq 0..(Len(log) - 1)
    /\ anchor # NoCheckpoint => IsPrefix(anchor, log)
    /\ pc \in {"search", "notify", "write", "flush"} => IsPrefix(curCheckpoint, log)

\* Everything up to an index is settled.
SettledTo(n) == \A i \in 0..n : Settled(i)

\* The loop's place, as in CoverageInv, in terms of what is settled.
PlaceInv ==
  ~rewritten =>
    /\ anchor # NoCheckpoint => SettledTo(GetCheckpointIndex(anchor))
    /\ pc \in {"check", "wait"} /\ startIndex # NoIndex => SettledTo(startIndex)
    /\ pc = "search" => \A i \in 0..endIndex : i < next => Settled(i) \/ Held(i)
    /\ pc = "notify" => \A i \in 0..endIndex : Settled(i) \/ Held(i)
    /\ pc \in {"write", "flush"} =>
         /\ SettledTo(GetCheckpointIndex(curCheckpoint))
         /\ startIndex # NoIndex /\ inputEndIndex = NoIndex => SettledTo(startIndex)

-----------------------------------------------------------------------------
(* What never shrinks.                                                     *)

\* From now on no history is lost, and an append-only log keeps its entries.
Grows ==
  /\ searched \subseteq searched'
  /\ waived \subseteq waived'
  /\ recorded \subseteq recorded'
  /\ delivered \subseteq delivered'
  /\ ~rewritten' => ~rewritten /\ IsPrefix(log, log')

\* The steps of the process that leave the log alone.
LEMMA KeepsLog ==
  ASSUME Shape, log' = log, rewritten' = rewritten
  PROVE  ~rewritten' => ~rewritten /\ IsPrefix(log, log')
<1>1. IsPrefix(log, log)
  BY PrefixReflexive DEF Shape, ValuesOK, Checkpoint
<1> QED  BY <1>1

\* No step takes anything back.
LEMMA EverythingGrows ==
  ASSUME Shape, [Next]_vars
  PROVE  Grows
<1>1. CASE LogAppends
  <2>1. PICK e \in Entries : log' = Append(log, e)
    BY <1>1 DEF LogAppends
  <2>2. IsPrefix(log, log')
    BY <2>1, AppendPrefix DEF Shape, ValuesOK, Checkpoint
  <2>3. UNCHANGED <<searched, waived, recorded, delivered, rewritten>>
    BY <1>1 DEF LogAppends, files, history
  <2> QED  BY <2>2, <2>3 DEF Grows
<1>2. CASE LogRewrites
  <2>1. UNCHANGED <<searched, waived, recorded, delivered>> /\ rewritten'
    BY <1>2 DEF LogRewrites, files, history
  <2> QED  BY <2>1 DEF Grows
<1>3. CASE ProcessNext /\ LogUnchanged
  <2>1. log' = log /\ rewritten' = rewritten
    BY <1>3 DEF LogUnchanged
  <2>2. /\ searched \subseteq searched' /\ waived \subseteq waived'
        /\ recorded \subseteq recorded' /\ delivered \subseteq delivered'
    BY <1>3 DEF ProcessNext, Start, Crash, Signal, ConsistencyFails, FetchFails,
       Notify, NotifyFails, CheckpointFlushed, WriteFails, NextRound, GracefulExit,
       files, history
  <2> QED  BY <2>1, <2>2, KeepsLog DEF Grows
<1>4. CASE RunConsistencyCheck
  BY <1>4, KeepsLog DEF RunConsistencyCheck, ConsistencyPasses, files, Grows
<1>5. CASE GetEntriesByIndexRange
  BY <1>5, KeepsLog DEF GetEntriesByIndexRange, files, Grows
<1>6. CASE StartAfterEnd \/ IdentitySearch \/ IdentitySearchFails
            \/ WriteCheckpoint \/ WriteCheckpointFails
  <2>1. log' = log /\ rewritten' = rewritten
    BY <1>6 DEF StartAfterEnd, IdentitySearch, IdentitySearchFails, WriteCheckpoint,
       WriteCheckpointFails, LogUnchanged
  <2>2. /\ searched \subseteq searched' /\ waived \subseteq waived'
        /\ recorded \subseteq recorded' /\ delivered \subseteq delivered'
    BY <1>6 DEF StartAfterEnd, RangeRefused, IdentitySearch, RecordSucceeds,
       IdentitySearchFails, RecordFails, WriteCheckpoint, CheckpointKept,
       CheckpointTruncated, WriteCheckpointFails, CheckpointNotOpened, files, history
  <2> QED  BY <2>1, <2>2, KeepsLog DEF Grows
<1>7. CASE UNCHANGED vars
  BY <1>7, KeepsLog DEF vars, files, history, Grows
<1> QED
  BY <1>1, <1>2, <1>3, <1>4, <1>5, <1>6, <1>7 DEF Next

\* An entry of an append-only log stays in its place.
LEMMA EntryStays ==
  ASSUME Shape, Shape', Grows, ~rewritten', NEW i \in 0..(Len(log) - 1)
  PROVE  i \in 0..(Len(log') - 1) /\ log'[i + 1] = log[i + 1]
<1>1. log \in Checkpoint /\ log' \in Checkpoint /\ IsPrefix(log, log')
  BY DEF Shape, ValuesOK, Grows
<1>2. /\ Len(log) \in Nat /\ Len(log') \in Nat /\ Len(log) <= Len(log')
      /\ \A k \in 1..Len(log) : log'[k] = log[k]
  BY <1>1, PrefixElements, LenProperties DEF Checkpoint
<1> QED  BY <1>2

\* What is settled stays settled.
LEMMA SettledStays ==
  ASSUME Shape, Shape', Grows, ~rewritten', NEW i, Settled(i)
  PROVE  Settled(i)'
<1>1. CASE i \in waived
  BY <1>1 DEF Grows, Settled
<1>2. CASE Done(i)
  <2>1. i \in 0..(Len(log') - 1) /\ log'[i + 1] = log[i + 1]
    BY <1>2, EntryStays DEF Done
  <2> QED  BY <1>2, <2>1 DEF Grows, Settled, Done, EntryAt, KindOf
<1> QED  BY <1>1, <1>2 DEF Settled

\* What the lists hold stays held while they only grow.
LEMMA HeldStays ==
  ASSUME Shape, Shape', Grows, ~rewritten', found \subseteq found',
         failed \subseteq failed', NEW i, Held(i)
  PROVE  Held(i)'
<1>1. i \in 0..(Len(log') - 1) /\ log'[i + 1] = log[i + 1]
  BY EntryStays DEF Held
<1> QED  BY <1>1 DEF Grows, Held, EntryAt, KindOf, Listed

-----------------------------------------------------------------------------
(* The lists, the log and the outbox.                                      *)

\* A member of a list is what it was, whatever else happens.
LEMMA ListedStays ==
  ASSUME Shape, Shape', Grows, ListsInv, pc \in {"search", "notify"},
         NEW payload \in Payloads, NEW i \in Listed(payload)
  PROVE  i \in searched' /\ (~rewritten' => IsOf(i, KindOf(payload))')
<1>1. i \in searched /\ (~rewritten => IsOf(i, KindOf(payload)))
  BY DEF ListsInv
<1>2. i \in searched'
  BY <1>1 DEF Grows
<1>3. ASSUME ~rewritten' PROVE IsOf(i, KindOf(payload))'
  <2>1. IsOf(i, KindOf(payload))
    BY <1>1, <1>3 DEF Grows
  <2>2. i \in 0..(Len(log') - 1) /\ log'[i + 1] = log[i + 1]
    BY <2>1, <1>3, EntryStays DEF IsOf
  <2> QED  BY <2>1, <2>2 DEF IsOf, EntryAt, KindOf
<1> QED  BY <1>2, <1>3

\* The lists are filled by the batches and emptied with the round.
LEMMA ListsInductive ==
  ASSUME Shape, Shape', Grows, ListsInv, [Next]_vars
  PROVE  ListsInv'
<1>1. ASSUME pc' = "down", found' = {}, failed' = {} PROVE ListsInv'
  BY <1>1 DEF ListsInv
<1>2. ASSUME pc' \in {"check", "wait"}, pc \in {"down", "check", "wait"},
             UNCHANGED <<found, failed>>
      PROVE  ListsInv'
  BY <1>2 DEF ListsInv
<1>3. ASSUME pc' \in {"write", "flush"} PROVE ListsInv'
  BY <1>3 DEF ListsInv
<1>4. ASSUME pc \in {"search", "notify"}, UNCHANGED <<found, failed>>,
             pc' \in {"search", "notify"}
      PROVE  ListsInv'
  <2>1. \A payload : Listed(payload)' = Listed(payload)
    BY <1>4 DEF Listed
  <2> QED  BY <2>1, <1>4, ListedStays DEF ListsInv
<1>5. ASSUME UNCHANGED <<pc, found, failed>> PROVE ListsInv'
  BY <1>5, <1>2, <1>3, <1>4 DEF ListsInv, Shape, ValuesOK, ProcessTypeOK, LoopTypeOK,
     PCs
<1>6. CASE LogAppends \/ LogRewrites \/ UNCHANGED vars
  BY <1>6, <1>5 DEF LogAppends, LogRewrites, vars, loopVars
<1>7. CASE ProcessNext
  <2>1. CASE Start \/ Signal \/ NextRound
    BY <2>1, <1>2, <1>5 DEF Start, StartProcess, Signal, CatchSignal, NextRound,
       Tick, roundVars
  <2>2. CASE Crash \/ FetchFails \/ NotifyFails \/ WriteFails \/ GracefulExit
    BY <2>2, <1>1 DEF Crash, ProcessDies, FetchFails, NotifyFails, SendFails,
       WriteFails, GracefulExit, Shutdown, LoopReturns, Forget
  <2>3. CASE ConsistencyFails
    BY <2>3, <1>1, <1>2 DEF ConsistencyFails, CheckFails, LoopReturns, Forget,
       roundVars
  <2>4. CASE Notify
    <3>1. pc = "notify" /\ UNCHANGED <<found, failed>> /\ pc' \in {"notify", "write"}
      BY <2>4 DEF Notify, SendSucceeds
    <3> QED  BY <3>1, <1>3, <1>4
  <2>5. CASE CheckpointFlushed
    BY <2>5 DEF CheckpointFlushed, CheckpointHandled, LoopReturns, Forget, ListsInv
  <2> QED
    BY <1>7, <2>1, <2>2, <2>3, <2>4, <2>5 DEF ProcessNext
<1>8. CASE RunConsistencyCheck
  <2>1. /\ pc = "check" /\ pc' \in {"write", "search"}
        /\ UNCHANGED <<found, failed>>
    BY <1>8 DEF RunConsistencyCheck, ConsistencyPasses, CheckPasses
  <2>2. found' = {} /\ failed' = {}
    BY <2>1 DEF ListsInv
  <2>3. \A payload : Listed(payload)' = {}
    BY <2>2 DEF Listed
  <2> QED  BY <2>1, <2>3 DEF ListsInv
<1>9. CASE StartAfterEnd \/ IdentitySearchFails \/ WriteCheckpointFails
  BY <1>9, <1>1 DEF StartAfterEnd, RangeRefused, CheckRefusesRange,
     IdentitySearchFails, RecordFails, WriteCheckpointFails, CheckpointNotOpened,
     LoopReturns, Forget
<1>10. CASE GetEntriesByIndexRange
  <2>1. /\ pc = "search" /\ pc' = "search"
        /\ Batch \subseteq 0..(Len(log) - 1)
        /\ found' = found \cup MatchedIndices(Batch, Matching)
        /\ failed' = failed \cup MatchedIndices(Batch, Unreadable)
        /\ searched' = searched \cup Batch
        /\ log' = log /\ rewritten' = rewritten
    BY <1>10 DEF GetEntriesByIndexRange
  <2>2. ASSUME NEW payload \in Payloads, NEW i \in Listed(payload)'
        PROVE  i \in searched' /\ (~rewritten' => IsOf(i, KindOf(payload))')
    <3>1. CASE i \in Listed(payload)
      BY <3>1, <2>1, ListedStays
    <3>2. CASE i \in MatchedIndices(Batch, KindOf(payload))
      <4>1. i \in Batch /\ EntryAt(i) \in KindOf(payload)
        BY <3>2 DEF MatchedIndices
      <4> QED  BY <4>1, <2>1 DEF IsOf, EntryAt, KindOf
    <3> QED  BY <3>1, <3>2, <2>1, <2>2 DEF Listed, KindOf
  <2> QED  BY <2>1, <2>2 DEF ListsInv
<1>11. CASE IdentitySearch
  <2>1. pc = "search" /\ UNCHANGED <<found, failed>> /\ pc' \in {"notify", "write"}
    BY <1>11 DEF IdentitySearch, RecordSucceeds, SearchReturns
  <2> QED  BY <2>1, <1>3, <1>4
<1>12. CASE WriteCheckpoint
  BY <1>12, <1>1, <1>3 DEF WriteCheckpoint, CheckpointKept, CheckpointTruncated,
     CheckpointHandled, LoopReturns, Forget, ListsInv
<1> QED
  BY <1>6, <1>7, <1>8, <1>9, <1>10, <1>11, <1>12 DEF Next

\* The log grows past what the monitor keeps of it.
LEMMA PrefixInductive ==
  ASSUME Shape, Shape', Grows, PrefixInv, [Next]_vars
  PROVE  PrefixInv'
<1> SUFFICES ASSUME ~rewritten' PROVE PrefixInv'
  BY DEF PrefixInv
<1> DEFINE Keeps == {"search", "notify", "write", "flush"}
<1>1. /\ ~rewritten /\ IsPrefix(log, log')
      /\ log \in Checkpoint /\ log' \in Checkpoint
  BY DEF Grows, Shape, ValuesOK
<1>2. Len(log) \in Nat /\ Len(log') \in Nat /\ Len(log) <= Len(log')
  BY <1>1, PrefixElements, LenProperties DEF Checkpoint
<1>3. ASSUME NEW c \in Checkpoint, IsPrefix(c, log) PROVE IsPrefix(c, log')
  BY <1>1, <1>3, PrefixTransitive DEF Checkpoint
<1>4. ASSUME searched' = searched PROVE searched' \subseteq 0..(Len(log') - 1)
  BY <1>1, <1>2, <1>4 DEF PrefixInv
<1>5. ASSUME anchor' = anchor
      PROVE  anchor' # NoCheckpoint => IsPrefix(anchor', log')
  BY <1>1, <1>3, <1>5 DEF PrefixInv, Shape, ValuesOK, ProcessTypeOK
<1>6. ASSUME pc' \in Keeps => pc \in Keeps /\ curCheckpoint' = curCheckpoint
      PROVE  pc' \in Keeps => IsPrefix(curCheckpoint', log')
  BY <1>1, <1>3, <1>6 DEF PrefixInv, Shape
<1>7. ASSUME UNCHANGED <<searched, anchor>>,
             pc' \in Keeps => pc \in Keeps /\ curCheckpoint' = curCheckpoint
      PROVE  PrefixInv'
  BY <1>7, <1>4, <1>5, <1>6 DEF PrefixInv
<1>8. CASE LogAppends \/ LogRewrites \/ UNCHANGED vars
  BY <1>8, <1>7 DEF LogAppends, LogRewrites, vars, loopVars, history
<1>9. CASE ProcessNext
  <2>1. CASE CheckpointFlushed
    <3>1. /\ pc = "flush" /\ anchor' = curCheckpoint /\ searched' = searched
          /\ pc' \notin Keeps
      BY <2>1 DEF CheckpointFlushed, CheckpointHandled, LoopReturns
    <3>2. curCheckpoint \in Checkpoint /\ IsPrefix(curCheckpoint, log)
      BY <3>1, <1>1 DEF PrefixInv, Shape
    <3> QED  BY <3>1, <3>2, <1>3, <1>4 DEF PrefixInv
  <2>2. CASE Start \/ Signal \/ NextRound \/ ConsistencyFails \/ Notify
    BY <2>2, <1>7 DEF Start, StartProcess, Signal, CatchSignal, NextRound, Tick,
       ConsistencyFails, CheckFails, LoopReturns, Notify, SendSucceeds, roundVars,
       history
  <2>3. CASE Crash \/ FetchFails \/ NotifyFails \/ WriteFails \/ GracefulExit
    BY <2>3, <1>7 DEF Crash, ProcessDies, FetchFails, NotifyFails, SendFails,
       WriteFails, GracefulExit, Shutdown, LoopReturns, history
  <2> QED  BY <1>9, <2>1, <2>2, <2>3 DEF ProcessNext
<1>10. CASE RunConsistencyCheck
  <2>1. curCheckpoint' = log /\ UNCHANGED <<searched, anchor>>
    BY <1>10 DEF RunConsistencyCheck, ConsistencyPasses, CheckPasses
  <2> QED  BY <2>1, <1>1, <1>4, <1>5 DEF PrefixInv
<1>11. CASE StartAfterEnd \/ IdentitySearchFails \/ WriteCheckpointFails
  BY <1>11, <1>7 DEF StartAfterEnd, RangeRefused, CheckRefusesRange,
     IdentitySearchFails, RecordFails, WriteCheckpointFails, CheckpointNotOpened,
     LoopReturns, history
<1>12. CASE GetEntriesByIndexRange
  <2>1. /\ pc = "search" /\ curCheckpoint' = curCheckpoint /\ anchor' = anchor
        /\ searched' = searched \cup Batch /\ log' = log
        /\ Batch \subseteq 0..(Len(log) - 1)
    BY <1>12 DEF GetEntriesByIndexRange
  <2>2. searched' \subseteq 0..(Len(log') - 1)
    BY <2>1, <1>1 DEF PrefixInv
  <2> QED  BY <2>1, <2>2, <1>5, <1>6 DEF PrefixInv
<1>13. CASE IdentitySearch
  BY <1>13, <1>7 DEF IdentitySearch, RecordSucceeds, SearchReturns, history
<1>14. CASE WriteCheckpoint
  BY <1>14, <1>7 DEF WriteCheckpoint, CheckpointKept, CheckpointTruncated,
     CheckpointHandled, LoopReturns, roundVars, history
<1> QED
  BY <1>8, <1>9, <1>10, <1>11, <1>12, <1>13, <1>14 DEF Next

\* Nothing found is forgotten between the search and the last Send.
LEMMA OutboxInductive ==
  ASSUME Shape, OutboxInv, [Next]_vars
  PROVE  OutboxInv'
<1>1. CASE RoundStep
  BY <1>1, RoundStepIsProcessStep, ShapeOfProcess, OutboxKept
<1>2. CASE LogAppends \/ LogRewrites \/ UNCHANGED vars
  BY <1>2 DEF LogAppends, LogRewrites, vars, loopVars, files, history, OutboxInv,
     Listed, Pending
<1>3. CASE RunConsistencyCheck \/ GetEntriesByIndexRange
  BY <1>3 DEF RunConsistencyCheck, ConsistencyPasses, CheckPasses,
     GetEntriesByIndexRange, OutboxInv
<1> QED  BY <1>1, <1>2, <1>3 DEF Next, RoundStep

-----------------------------------------------------------------------------
(* The place of the loop.                                                  *)

\* What is settled up to an index stays settled up to it.
LEMMA SettledToStays ==
  ASSUME Shape, Shape', Grows, ~rewritten', NEW n, SettledTo(n)
  PROVE  \A i \in 0..n : Settled(i)'
  BY SettledStays DEF SettledTo

\* What the checkpoint stands for depends on nothing but the checkpoint.
LEMMA AnchorPlaceStays ==
  ASSUME Shape, Shape', Grows, ~rewritten', PlaceInv, anchor' = anchor
  PROVE  anchor' # NoCheckpoint => SettledTo(GetCheckpointIndex(anchor))'
<1>1. anchor # NoCheckpoint => SettledTo(GetCheckpointIndex(anchor))
  BY DEF PlaceInv, Grows
<1>2. GetCheckpointIndex(anchor)' = GetCheckpointIndex(anchor)
  BY DEF GetCheckpointIndex, Size
<1> QED  BY <1>1, <1>2, SettledToStays DEF SettledTo

\* A step that goes down keeps what the checkpoint stands for.
LEMMA ReturnsPlace ==
  ASSUME Shape, Shape', Grows, PlaceInv, pc' = "down", anchor' = anchor
  PROVE  PlaceInv'
  BY AnchorPlaceStays DEF PlaceInv

\* A step that leaves the place of the loop, or moves between a wait and a check.
LEMMA StutterPlace ==
  ASSUME Shape, Shape', Grows, PlaceInv,
         UNCHANGED <<startIndex, endIndex, curCheckpoint, anchor, found, failed>>,
         \/ pc' = pc /\ inputEndIndex' = inputEndIndex
                     /\ (pc' = "search" => next' = next)
         \/ {pc, pc'} \subseteq {"check", "wait"}
         \/ pc = "write" /\ pc' = "flush" /\ inputEndIndex' = inputEndIndex
  PROVE  PlaceInv'
<1> SUFFICES ASSUME ~rewritten' PROVE PlaceInv'
  BY DEF PlaceInv
<1>1. ~rewritten
  BY DEF Grows
<1>2. GetCheckpointIndex(curCheckpoint)' = GetCheckpointIndex(curCheckpoint)
  BY DEF GetCheckpointIndex, Size
<1>3. anchor' # NoCheckpoint => SettledTo(GetCheckpointIndex(anchor))'
  BY AnchorPlaceStays
<1>4. pc' \in {"check", "wait"} /\ startIndex' # NoIndex => SettledTo(startIndex)'
  <2>1. pc' \in {"check", "wait"} /\ startIndex # NoIndex => SettledTo(startIndex)
    BY <1>1 DEF PlaceInv
  <2> QED  BY <2>1, SettledToStays DEF SettledTo
<1>5. ASSUME NEW i, Settled(i) \/ Held(i) PROVE Settled(i)' \/ Held(i)'
  BY <1>5, SettledStays, HeldStays
<1>6. ASSUME pc' = "search", NEW i \in 0..endIndex, i < next'
      PROVE  Settled(i)' \/ Held(i)'
  BY <1>1, <1>5, <1>6 DEF PlaceInv
<1>7. ASSUME pc' = "notify", NEW i \in 0..endIndex
      PROVE  Settled(i)' \/ Held(i)'
  BY <1>1, <1>5, <1>7 DEF PlaceInv
<1>8. ASSUME pc' \in {"write", "flush"}
      PROVE  /\ SettledTo(GetCheckpointIndex(curCheckpoint))'
             /\ startIndex' # NoIndex /\ inputEndIndex' = NoIndex =>
                  SettledTo(startIndex)'
  <2>1. /\ SettledTo(GetCheckpointIndex(curCheckpoint))
        /\ startIndex # NoIndex /\ inputEndIndex' = NoIndex => SettledTo(startIndex)
    BY <1>1, <1>8 DEF PlaceInv
  <2> QED  BY <2>1, <1>2, SettledToStays DEF SettledTo
<1> QED  BY <1>3, <1>4, <1>6, <1>7, <1>8 DEF PlaceInv

\* The round starts from what the file stands for.
LEMMA CheckPlace ==
  ASSUME Shape, Shape', Grows, AnchorInv, CoverageInv, PlaceInv,
         RunConsistencyCheck
  PROVE  PlaceInv'
<1> SUFFICES ASSUME ~rewritten' PROVE PlaceInv'
  BY DEF PlaceInv
<1> DEFINE newest == GetCheckpointIndex(log)
           first  == GetCheckpointIndex(Stored)
           from   == RangeStart(Stored, first)
           to     == RangeEnd(newest)
<1>1. /\ ~rewritten
      /\ pc = "check"
      /\ curCheckpoint' = log
      /\ waived' = waived \cup SteppedOver(Stored, newest)
      /\ UNCHANGED <<searched, anchor, inputEndIndex>>
  BY DEF RunConsistencyCheck, ConsistencyPasses, CheckPasses, Grows
<1>2. /\ newest \in Int
      /\ Stored = anchor
      /\ anchor # NoCheckpoint => first \in Int /\ SettledTo(first)
  BY <1>1, IndexType DEF Shape, ValuesOK, ProcessTypeOK, AnchorInv,
     PlaceInv
<1>3. /\ startIndex \in OptionalIndex /\ endIndex \in OptionalIndex
      /\ startIndex # NoIndex => SettledTo(startIndex)
  BY <1>1 DEF Shape, ValuesOK, ProcessTypeOK, LoopTypeOK, PlaceInv
<1>4. to \in Int /\ (endIndex = NoIndex => to = newest)
  BY <1>2, <1>3 DEF RangeEnd, OptionalIndex, Index
<1>5. anchor' # NoCheckpoint => SettledTo(GetCheckpointIndex(anchor))'
  BY <1>1, AnchorPlaceStays
<1>6. newest = GetCheckpointIndex(curCheckpoint)'
  BY <1>1 DEF GetCheckpointIndex, Size
<1>7. ASSUME 0..newest \subseteq waived'
      PROVE  SettledTo(GetCheckpointIndex(curCheckpoint))'
  BY <1>6, <1>7 DEF SettledTo, Settled
<1>8. CASE ~flags.monitored
  <2>1. 0..newest \subseteq waived'
    BY <1>1, <1>8 DEF SteppedOver
  <2>2. pc' = "write" /\ startIndex' = startIndex
    BY <1>8 DEF RunConsistencyCheck, ConsistencyPasses, CheckPasses
  <2>3. startIndex' # NoIndex => SettledTo(startIndex)'
    BY <2>2, <1>3, SettledToStays DEF SettledTo
  <2> QED  BY <1>5, <1>7, <2>1, <2>2, <2>3 DEF PlaceInv
<1>9. CASE flags.monitored /\ NoIndex \in {from, to}
  <2>1. startIndex = NoIndex /\ anchor = NoCheckpoint
    BY <1>9, <1>4, <1>2, NilAssumption DEF RangeStart
  <2>2. 0..newest \subseteq waived'
    BY <1>1, <1>2, <2>1 DEF SteppedOver
  <2>3. pc' = "write" /\ startIndex' = to
    BY <1>9 DEF RunConsistencyCheck, ConsistencyPasses, CheckPasses
  <2>4. inputEndIndex' = NoIndex => to = newest
    BY <1>1, <1>4 DEF CoverageInv
  <2>5. inputEndIndex' = NoIndex => SettledTo(startIndex)'
    BY <2>2, <2>3, <2>4 DEF SettledTo, Settled
  <2> QED  BY <1>5, <1>7, <2>2, <2>3, <2>5 DEF PlaceInv
<1>10. CASE flags.monitored /\ NoIndex \notin {from, to}
  <2>1. pc' = "search" /\ endIndex' = to /\ next' = from + 1
    BY <1>10 DEF RunConsistencyCheck, ConsistencyPasses, CheckPasses
  <2>2. from \in Int /\ SettledTo(from)
    BY <1>10, <1>2, <1>3 DEF RangeStart, OptionalIndex, Index
  <2>3. ASSUME NEW i \in 0..to, i < from + 1
        PROVE  Settled(i)'
    <3>1. i \in 0..from
      BY <2>2, <2>3, <1>4
    <3> QED  BY <3>1, <2>2, SettledToStays
  <2> QED  BY <1>5, <2>1, <2>3 DEF PlaceInv
<1> QED  BY <1>8, <1>9, <1>10

\* A batch is in the lists once it is fetched.
LEMMA BatchPlace ==
  ASSUME Shape, Shape', Grows, PlaceInv, GetEntriesByIndexRange
  PROVE  PlaceInv'
<1> SUFFICES ASSUME ~rewritten' PROVE PlaceInv'
  BY DEF PlaceInv
<1>1. /\ ~rewritten
      /\ pc = "search" /\ pc' = "search"
      /\ Batch \subseteq 0..(Len(log) - 1)
      /\ found' = found \cup MatchedIndices(Batch, Matching)
      /\ failed' = failed \cup MatchedIndices(Batch, Unreadable)
      /\ searched' = searched \cup Batch
      /\ next' = next + BatchSize
      /\ UNCHANGED <<endIndex, anchor, log>>
  BY DEF GetEntriesByIndexRange, Grows
<1>2. next \in Int /\ endIndex \in Int /\ BatchSize \in Int
  BY <1>1, SizesAssumption DEF Shape, ValuesOK, Index
<1>3. ASSUME NEW i \in 0..endIndex, i < next + BatchSize
      PROVE  Settled(i)' \/ Held(i)'
  <2>1. CASE i < next
    <3>1. Settled(i) \/ Held(i)
      BY <2>1, <1>1 DEF PlaceInv
    <3> QED  BY <3>1, <1>1, SettledStays, HeldStays
  <2>2. CASE i >= next
    <3>1. i \in Batch
      BY <1>2, <1>3, <2>2 DEF Batch, BatchEnd
    <3>2. \A payload \in Payloads :
            EntryAt(i) \in KindOf(payload) => i \in Listed(payload)'
      BY <3>1, <1>1 DEF MatchedIndices, KindOf, Listed
    <3> QED  BY <3>1, <3>2, <1>1 DEF Held, EntryAt, KindOf
  <2> QED  BY <2>1, <2>2, <1>2
<1>4. anchor' # NoCheckpoint => SettledTo(GetCheckpointIndex(anchor))'
  BY <1>1, AnchorPlaceStays
<1> QED  BY <1>1, <1>3, <1>4 DEF PlaceInv

\* What the round held is settled with the last Send.
LEMMA HeldSettles ==
  ASSUME Shape, Shape', Grows, OutboxInv, IdentitySearch \/ Notify, ~rewritten',
         pc' = "write", NEW i, Settled(i) \/ Held(i)
  PROVE  Settled(i)'
<1>1. CASE Settled(i)
  BY <1>1, SettledStays
<1>2. CASE Held(i)
  <2>1. found' = found /\ failed' = failed
    BY DEF IdentitySearch, RecordSucceeds, SearchReturns, Notify, SendSucceeds
  <2>2. Held(i)'
    BY <2>1, <1>2, HeldStays
  <2>3. found \subseteq recorded'
    <3>1. CASE IdentitySearch
      BY <3>1 DEF IdentitySearch, RecordSucceeds
    <3>2. CASE Notify
      BY <3>2 DEF Notify, SendSucceeds, OutboxInv, files
    <3> QED  BY <3>1, <3>2
  <2>4. Len(outbox') = 0
    <3>1. CASE IdentitySearch
      <4>1. outbox' = <<>>
        BY <3>1 DEF IdentitySearch, RecordSucceeds, SearchReturns
      <4> QED  BY <4>1
    <3>2. CASE Notify
      <4>1. pc = "notify" /\ outbox' = Tail(outbox) /\ Len(outbox) = 1
        BY <3>2 DEF Notify, SendSucceeds
      <4>2. outbox \in Seq(Sends) /\ outbox # <<>>
        BY <4>1 DEF Shape, ValuesOK, ProcessTypeOK, LoopTypeOK
      <4> QED  BY <4>1, <4>2, HeadTailProperties
    <3> QED  BY <3>1, <3>2
  <2>5. ASSUME NEW payload \in Payloads, NEW n \in 1..Len(Platforms),
               i \in Listed(payload)
        PROVE  <<payload, Platforms[n], i>> \in delivered'
    <3>1. \/ <<payload, Platforms[n], i>> \in delivered'
          \/ Pending(payload, Platforms[n], outbox')
      <4>1. CASE IdentitySearch
        <5>1. outbox' = ToSend(found, failed)
          BY <4>1 DEF IdentitySearch, RecordSucceeds, SearchReturns
        <5> QED  BY <5>1, <2>5, ToSendComplete
      <4>2. CASE Notify
        BY <4>2, <2>5, ShapeOfProcess, NotifyDelivers
      <4> QED  BY <4>1, <4>2
    <3>2. ~Pending(payload, Platforms[n], outbox')
      BY <2>4 DEF Pending
    <3> QED  BY <3>1, <3>2
  <2>6. \A payload : Listed(payload)' = Listed(payload)
    BY <2>1 DEF Listed
  <2>7. EntryAt(i)' \in Matching => i \in recorded'
    <3>1. EntryAt(i)' \in Matching => i \in Listed("found")'
      BY <2>2 DEF Held, KindOf, Payloads
    <3> QED  BY <3>1, <2>3, <2>6 DEF Listed
  <2>8. \A payload \in Payloads, n \in 1..Len(Platforms) :
          EntryAt(i)' \in KindOf(payload) => <<payload, Platforms[n], i>> \in delivered'
    <3>1. \A payload \in Payloads :
            EntryAt(i)' \in KindOf(payload) => i \in Listed(payload)
      BY <2>2, <2>6 DEF Held, KindOf
    <3> QED  BY <3>1, <2>5
  <2>9. i \in searched' /\ i \in 0..(Len(log') - 1)
    BY <2>2 DEF Held
  <2>10. \A payload : KindOf(payload)' = KindOf(payload)
    BY DEF KindOf
  <2> QED  BY <2>7, <2>8, <2>9, <2>10 DEF Settled, Done
<1> QED  BY <1>1, <1>2

\* When the search and the Sends are over, the whole checkpoint is settled.
LEMMA SearchedPlace ==
  ASSUME Shape, Shape', Grows, OutboxInv, CoverageInv, PlaceInv,
         IdentitySearch \/ Notify
  PROVE  PlaceInv'
<1> SUFFICES ASSUME ~rewritten' PROVE PlaceInv'
  BY DEF PlaceInv
<1>1. /\ ~rewritten
      /\ pc \in {"search", "notify"} /\ pc' \in {"notify", "write"}
      /\ pc' = "write" => startIndex' = endIndex
      /\ pc' = "notify" => endIndex' = endIndex
      /\ UNCHANGED <<waived, anchor, curCheckpoint, found, failed>>
  BY DEF IdentitySearch, RecordSucceeds, Notify, SendSucceeds, SearchReturns,
     Advance, history, Grows
<1>2. endIndex \in Int /\ next \in Int /\ curCheckpoint \in Checkpoint
  BY <1>1 DEF Shape, ValuesOK, Index
<1>3. \A i \in 0..endIndex : Settled(i) \/ Held(i)
  <2>1. CASE IdentitySearch
    <3>1. pc = "search" /\ next > endIndex
      BY <2>1 DEF IdentitySearch
    <3>2. \A i \in 0..endIndex : i < next
      BY <3>1, <1>2
    <3> QED  BY <3>1, <3>2, <1>1 DEF PlaceInv
  <2>2. CASE Notify
    BY <2>2, <1>1 DEF Notify, SendSucceeds, PlaceInv
  <2> QED  BY <2>1, <2>2
<1>4. anchor' # NoCheckpoint => SettledTo(GetCheckpointIndex(anchor))'
  BY <1>1, AnchorPlaceStays
<1>5. CASE pc' = "notify"
  <2>1. \A i \in 0..endIndex : Settled(i)' \/ Held(i)'
    BY <1>1, <1>3, SettledStays, HeldStays
  <2> QED  BY <1>1, <1>4, <1>5, <2>1 DEF PlaceInv
<1>6. CASE pc' = "write"
  <2>1. \A i \in 0..endIndex : Settled(i)'
    BY <1>3, <1>6, HeldSettles
  <2>2. ASSUME NEW i \in 0..GetCheckpointIndex(curCheckpoint)
        PROVE  Settled(i)'
    <3>1. CASE i > endIndex
      <4>1. i \in waived'
        BY <3>1, <1>1 DEF CoverageInv, Below
      <4> QED  BY <4>1 DEF Settled
    <3>2. CASE i <= endIndex
      BY <2>1, <3>2, <1>2
    <3> QED  BY <3>1, <3>2, <1>2
  <2>3. GetCheckpointIndex(curCheckpoint)' = GetCheckpointIndex(curCheckpoint)
    BY <1>1 DEF GetCheckpointIndex, Size
  <2>4. SettledTo(GetCheckpointIndex(curCheckpoint))' /\ SettledTo(startIndex)'
    BY <1>1, <1>6, <2>1, <2>2, <2>3 DEF SettledTo
  <2> QED  BY <1>4, <1>6, <2>4 DEF PlaceInv
<1> QED  BY <1>1, <1>5, <1>6

\* The round ends with its checkpoint settled, stored or not.
LEMMA WrittenPlace ==
  ASSUME Shape, Shape', Grows, PlaceInv, pc \in {"write", "flush"},
         anchor' \in {anchor, curCheckpoint}, CheckpointHandled
  PROVE  PlaceInv'
<1> SUFFICES ASSUME ~rewritten' PROVE PlaceInv'
  BY DEF PlaceInv
<1>1. /\ SettledTo(GetCheckpointIndex(curCheckpoint))
      /\ startIndex # NoIndex /\ inputEndIndex = NoIndex => SettledTo(startIndex)
      /\ anchor # NoCheckpoint => SettledTo(GetCheckpointIndex(anchor))
  BY DEF PlaceInv, Grows
<1>2. \/ pc' = "down"
      \/ pc' = "wait" /\ startIndex' = startIndex /\ inputEndIndex = NoIndex
  BY DEF CheckpointHandled, LoopReturns
<1>3. anchor' # NoCheckpoint => SettledTo(GetCheckpointIndex(anchor))'
  BY <1>1, SettledToStays DEF SettledTo, GetCheckpointIndex, Size
<1>4. pc' = "wait" /\ startIndex' # NoIndex => SettledTo(startIndex)'
  BY <1>1, <1>2, SettledToStays DEF SettledTo
<1> QED  BY <1>2, <1>3, <1>4 DEF PlaceInv

\* Every operation keeps the place settled.
LEMMA PlaceInductive ==
  ASSUME ~TornWrites, Shape, Shape', Grows, AnchorInv, CoverageInv, OutboxInv,
         PlaceInv, [Next]_vars
  PROVE  PlaceInv'
<1>1. CASE LogAppends \/ LogRewrites \/ UNCHANGED vars
  BY <1>1, StutterPlace DEF LogAppends, LogRewrites, vars, loopVars, history
<1>2. CASE ProcessNext /\ LogUnchanged
  <2>1. CASE Start
    <3>1. /\ pc' = "check" /\ anchor' = anchor
          /\ startIndex' # NoIndex => 0..startIndex' \subseteq waived'
      BY <2>1 DEF Start, StartProcess
    <3> QED  BY <3>1, AnchorPlaceStays DEF PlaceInv, SettledTo, Settled
  <2>2. CASE Crash \/ FetchFails \/ NotifyFails \/ WriteFails \/ GracefulExit
    BY <2>2, ReturnsPlace DEF Crash, ProcessDies, FetchFails, NotifyFails,
       SendFails, WriteFails, GracefulExit, Shutdown, LoopReturns, history
  <2>3. CASE Signal
    <3>1. UNCHANGED <<pc, startIndex, endIndex, inputEndIndex, curCheckpoint,
                      anchor, found, failed>>
      BY <2>3 DEF Signal, CatchSignal, roundVars, history
    <3>2. pc' = "search" => next' = next
      BY <1>2 DEF LogUnchanged
    <3> QED  BY <3>1, <3>2, StutterPlace
  <2>4. CASE ConsistencyFails
    <3>1. CASE flags.once
      BY <2>4, <3>1, ReturnsPlace DEF ConsistencyFails, CheckFails, LoopReturns,
         history
    <3>2. CASE ~flags.once
      BY <2>4, <3>2, StutterPlace DEF ConsistencyFails, CheckFails, roundVars,
         history
    <3> QED  BY <3>1, <3>2
  <2>5. CASE Notify
    BY <2>5, SearchedPlace
  <2>6. CASE CheckpointFlushed
    BY <2>6, WrittenPlace DEF CheckpointFlushed
  <2>7. CASE NextRound
    <3>1. /\ pc = "wait" /\ pc' = "check" /\ startIndex' = startIndex
          /\ anchor' = anchor
      BY <2>7 DEF NextRound, Tick, history
    <3>2. ASSUME ~rewritten', startIndex' # NoIndex PROVE SettledTo(startIndex)'
      BY <3>1, <3>2, SettledToStays DEF PlaceInv, SettledTo, Grows
    <3> QED  BY <3>1, <3>2, AnchorPlaceStays DEF PlaceInv
  <2> QED
    BY <1>2, <2>1, <2>2, <2>3, <2>4, <2>5, <2>6, <2>7 DEF ProcessNext
<1>3. CASE RunConsistencyCheck
  BY <1>3, CheckPlace
<1>4. CASE StartAfterEnd \/ IdentitySearchFails \/ WriteCheckpointFails
  BY <1>4, ReturnsPlace DEF StartAfterEnd, RangeRefused, CheckRefusesRange,
     IdentitySearchFails, RecordFails, WriteCheckpointFails, CheckpointNotOpened,
     LoopReturns, history
<1>5. CASE GetEntriesByIndexRange
  BY <1>5, BatchPlace
<1>6. CASE IdentitySearch
  BY <1>6, SearchedPlace
<1>7. CASE WriteCheckpoint
  <2>1. CASE CheckpointKept
    BY <2>1, WrittenPlace DEF CheckpointKept, history
  <2>2. CASE CheckpointTruncated
    BY <2>2, StutterPlace DEF CheckpointTruncated, roundVars, history
  <2> QED  BY <1>7, <2>1, <2>2 DEF WriteCheckpoint
<1> QED
  BY <1>1, <1>2, <1>3, <1>4, <1>5, <1>6, <1>7 DEF Next

\* The inductive invariant of the audit.
AuditInv == SafetyInv /\ ListsInv /\ PrefixInv /\ OutboxInv /\ PlaceInv

\* At first nothing is found, stored or owed.
LEMMA InitAudit == Init => AuditInv
<1> SUFFICES ASSUME Init PROVE AuditInv
  OBVIOUS
<1>1. SafetyInv
  BY InitShape, InitAnchor DEF SafetyInv
<1>2. /\ pc = "down" /\ anchor = NoCheckpoint /\ found = {} /\ failed = {}
      /\ searched = {}
  BY DEF Init, ProcessInit, LoopInit
<1>3. ListsInv /\ PrefixInv /\ OutboxInv /\ PlaceInv
  BY <1>2 DEF ListsInv, PrefixInv, OutboxInv, PlaceInv
<1> QED  BY <1>1, <1>3 DEF AuditInv

\* Every step keeps it.
LEMMA AuditStep ==
  ASSUME ~TornWrites, AuditInv, [Next]_vars
  PROVE  AuditInv' /\ Grows
<1>1. Shape /\ AnchorInv /\ CoverageInv
  BY DEF AuditInv, SafetyInv
<1>2. Shape' /\ AnchorInv' /\ CoverageInv'
  BY <1>1, ShapeInductive, AnchorInductive, CoverageInductive
<1>3. Grows
  BY <1>1, EverythingGrows
<1>4. ListsInv' /\ PrefixInv'
  BY <1>1, <1>2, <1>3, ListsInductive, PrefixInductive DEF AuditInv
<1>5. OutboxInv' /\ PlaceInv'
  BY <1>1, <1>2, <1>3, OutboxInductive, PlaceInductive DEF AuditInv
<1> QED  BY <1>2, <1>3, <1>4, <1>5 DEF AuditInv, SafetyInv

\* No checkpoint is stored before every matching entry it commits to is in the
\* identities file and every platform has accepted what it has to hear of, on an
\* append-only log whose monitor may fail, die and be restarted at any call.
THEOREM NothingUntold ==
  ASSUME ~TornWrites
  PROVE  Spec => []Delivery
<1>1. AuditInv /\ [Next]_vars => AuditInv'
  BY AuditStep
<1>2. AuditInv => Delivery
  <2> SUFFICES ASSUME AuditInv, anchor # NoCheckpoint, ~rewritten,
                      NEW i \in Below(anchor) \ waived, NEW n \in 1..Len(Platforms)
               PROVE  /\ EntryAt(i) \in Matching =>
                           /\ i \in recorded
                           /\ <<"found", Platforms[n], i>> \in delivered
                      /\ EntryAt(i) \in Unreadable =>
                           <<"failed", Platforms[n], i>> \in delivered
    BY DEF Delivery
  <2>1. Done(i)
    BY DEF AuditInv, PlaceInv, SettledTo, Settled, Below
  <2> QED  BY <2>1 DEF Done, KindOf, Payloads
<1> QED  BY <1>1, <1>2, InitAudit, PTL DEF Spec

-----------------------------------------------------------------------------
(* The refinement.                                                         *)

\* Both modules take IsPrefix from the same place.
LEMMA SamePrefix ==
  \A c, d : Audit!IsPrefix(c, d) <=> IsPrefix(c, d)
  BY DEF IsPrefix, Audit!IsPrefix

\* A monitor that has not started has promised nothing.
LEMMA AuditStarts == Init => Audit!Init
<1> SUFFICES ASSUME Init PROVE Audit!Init
  OBVIOUS
<1>1. log \in Seq(Entries)
  BY InitShape DEF Shape, ValuesOK, Checkpoint
<1>2. ~rewritten = TRUE
  BY DEF Init
<1>3. /\ anchor = NoCheckpoint /\ searched = {} /\ waived = {} /\ recorded = {}
      /\ delivered = {}
  BY DEF Init, ProcessInit
<1> QED  BY <1>1, <1>2, <1>3 DEF Audit!Init

\* What a list holds is a justified report.
LEMMA ListedJustified ==
  ASSUME ListsInv, pc \in {"search", "notify"},
         NEW payload \in Payloads, NEW i \in Listed(payload)
  PROVE  Audit!Justified(payload, i)
<1>1. i \in searched /\ (~rewritten => IsOf(i, KindOf(payload)))
  BY DEF ListsInv
<1>2. Audit!Kind(payload) = KindOf(payload) /\ Audit!Indices(log) = 0..(Len(log) - 1)
  BY DEF Audit!Kind, KindOf, Audit!Indices
<1> QED  BY <1>1, <1>2 DEF Audit!Justified, IsOf, EntryAt

\* What is settled is dealt with.
LEMMA SettledDealtWith ==
  ASSUME NEW i, Settled(i)
  PROVE  Audit!DealtWith(i)
<1>1. CASE i \in waived
  BY <1>1 DEF Audit!DealtWith
<1>2. CASE Done(i)
  <2>1. /\ i \in searched /\ i \in 0..(Len(log) - 1)
        /\ log[i + 1] \in Matching => i \in recorded
    BY <1>2 DEF Done, EntryAt
  <2>2. ASSUME NEW payload \in Payloads, NEW n \in 1..Len(Platforms),
               log[i + 1] \in Audit!Kind(payload)
        PROVE  <<payload, Platforms[n], i>> \in delivered
    BY <1>2, <2>2 DEF Done, EntryAt, KindOf, Audit!Kind
  <2> QED  BY <2>1, <2>2 DEF Audit!DealtWith, Audit!Indices, Payloads
<1> QED  BY <1>1, <1>2 DEF Settled

\* The steps in which the monitor does what it promises.
LEMMA NotifyTells ==
  ASSUME AuditInv, Notify, log' = log, rewritten' = rewritten
  PROVE  Audit!Tell
<1>1. /\ pc = "notify"
      /\ delivered' = delivered \cup
           {<<Head(outbox).payload, Head(outbox).platform, j>> :
              j \in Reported(Head(outbox))}
      /\ UNCHANGED <<recorded, searched, waived, anchor>>
  BY DEF Notify, SendSucceeds, files
<1>2. Head(outbox) \in Sends
  <2>1. outbox \in Seq(Sends) /\ outbox # <<>>
    BY <1>1 DEF AuditInv, SafetyInv, Shape, ValuesOK, ProcessTypeOK, LoopTypeOK
  <2> QED  BY <2>1, HeadTailProperties
<1>3. Head(outbox).payload \in Payloads
  BY <1>2 DEF Sends
<1>4. Reported(Head(outbox)) = Listed(Head(outbox).payload)
  BY DEF Reported, Listed
<1>5. ASSUME NEW report \in delivered' \ delivered
      PROVE  Audit!Justified(report[1], report[3])
  <2>1. PICK j \in Reported(Head(outbox)) :
               report = <<Head(outbox).payload, Head(outbox).platform, j>>
    BY <1>1, <1>5
  <2>2. Audit!Justified(Head(outbox).payload, j)
    BY <1>1, <1>3, <1>4, ListedJustified DEF AuditInv
  <2>3. report[1] = Head(outbox).payload /\ report[3] = j
    BY <2>1
  <2> QED  BY <2>2, <2>3
<1> QED  BY <1>1, <1>5 DEF Audit!Tell

LEMMA FlushTrusts ==
  ASSUME ~TornWrites, AuditInv, CheckpointFlushed, log' = log, rewritten' = rewritten
  PROVE  Audit!Trust
<1>1. /\ pc = "flush" /\ anchor' = curCheckpoint
      /\ UNCHANGED <<recorded, searched, waived, delivered>>
  BY DEF CheckpointFlushed
<1>2. curCheckpoint \in Seq(Entries)
  BY <1>1 DEF AuditInv, SafetyInv, Shape, Checkpoint
<1>3. anchor # NoCheckpoint => IsPrefix(anchor, curCheckpoint)
  BY <1>1 DEF AuditInv, SafetyInv, AnchorInv
<1>4. ASSUME ~rewritten
      PROVE  /\ IsPrefix(curCheckpoint, log)
             /\ \A i \in Audit!Indices(curCheckpoint) : Audit!DealtWith(i)
  <2>1. IsPrefix(curCheckpoint, log)
    BY <1>1, <1>4 DEF AuditInv, PrefixInv
  <2>2. SettledTo(GetCheckpointIndex(curCheckpoint))
    BY <1>1, <1>4 DEF AuditInv, PlaceInv
  <2>3. Audit!Indices(curCheckpoint) = 0..GetCheckpointIndex(curCheckpoint)
    <3>1. Len(curCheckpoint) \in Nat
      BY <1>2, LenProperties
    <3>2. GetCheckpointIndex(curCheckpoint) = Len(curCheckpoint) - 1
      BY <3>1, SizesAssumption DEF GetCheckpointIndex, Size
    <3> QED  BY <3>2 DEF Audit!Indices
  <2> QED  BY <2>1, <2>2, <2>3, SettledDealtWith DEF SettledTo
<1>5. ASSUME ~rewritten, NEW i \in Audit!Indices(curCheckpoint)
      PROVE  Audit!DealtWith(i)
  BY <1>4, <1>5
<1> QED  BY <1>1, <1>2, <1>3, <1>4, <1>5, SamePrefix DEF Audit!Trust

LEMMA SearchRecords ==
  ASSUME AuditInv, IdentitySearch \/ IdentitySearchFails
  PROVE  Audit!Examine
<1>1. /\ pc = "search" /\ recorded \subseteq recorded'
      /\ recorded' \subseteq recorded \cup found
      /\ UNCHANGED <<log, rewritten, searched, waived, delivered, anchor>>
  BY DEF IdentitySearch, RecordSucceeds, IdentitySearchFails, RecordFails,
     LogUnchanged, history
<1>2. ASSUME NEW i \in recorded' \ recorded PROVE Audit!Justified("found", i)
  <2>1. i \in Listed("found") /\ "found" \in Payloads
    BY <1>1, <1>2 DEF Listed, Payloads
  <2> QED  BY <1>1, <2>1, ListedJustified DEF AuditInv
<1> QED  BY <1>1, <1>2 DEF Audit!Examine, Audit!Justified, Audit!Indices

\* Every step of the monitor is a step of the promise or none.
LEMMA AuditStepImplements ==
  ASSUME ~TornWrites, AuditInv, [Next]_vars
  PROVE  [Audit!Next]_(Audit!auditVars)
<1> DEFINE Same == UNCHANGED <<log, rewritten, anchor, searched, waived, recorded,
                               delivered>>
<1>1. Same => UNCHANGED Audit!auditVars
  BY DEF Audit!auditVars
<1>2. log \in Seq(Entries) /\ log' \in Seq(Entries)
  <2>1. Shape /\ Shape'
    BY ShapeInductive DEF AuditInv, SafetyInv
  <2> QED  BY <2>1 DEF Shape, ValuesOK, Checkpoint
<1>3. CASE LogAppends
  <2>1. UNCHANGED <<rewritten, anchor, searched, waived, recorded, delivered>>
    BY <1>3 DEF LogAppends, files, history
  <2>2. IsPrefix(log, log')
    <3>1. PICK e \in Entries : log' = Append(log, e)
      BY <1>3 DEF LogAppends
    <3> QED  BY <1>2, <3>1, AppendPrefix
  <2>3. Audit!Grow
    BY <1>2, <2>1, <2>2, SamePrefix DEF Audit!Grow
  <2> QED  BY <2>3 DEF Audit!Next
<1>4. CASE LogRewrites
  <2>1. /\ rewritten' = TRUE
        /\ UNCHANGED <<anchor, searched, waived, recorded, delivered>>
    BY <1>4 DEF LogRewrites, files, history
  <2>2. Audit!Cheat
    BY <1>2, <2>1 DEF Audit!Cheat
  <2> QED  BY <2>2 DEF Audit!Next
<1>5. CASE ProcessNext /\ LogUnchanged
  <2>1. log' = log /\ rewritten' = rewritten
    BY <1>5 DEF LogUnchanged
  <2>2. CASE Start
    <3>1. /\ waived \subseteq waived'
          /\ UNCHANGED <<recorded, searched, delivered, anchor>>
      BY <2>2 DEF Start, files
    <3>2. Audit!Excuse
      BY <2>1, <3>1 DEF Audit!Excuse
    <3> QED  BY <3>2 DEF Audit!Next
  <2>3. CASE Notify
    BY <2>1, <2>3, NotifyTells DEF Audit!Next
  <2>4. CASE CheckpointFlushed
    BY <2>1, <2>4, FlushTrusts DEF Audit!Next
  <2>5. CASE Crash \/ Signal \/ ConsistencyFails \/ FetchFails \/ NotifyFails
               \/ WriteFails \/ NextRound \/ GracefulExit
    <3>1. Same
      BY <2>1, <2>5 DEF Crash, Signal, ConsistencyFails, FetchFails, NotifyFails,
         WriteFails, NextRound, GracefulExit, files, history
    <3> QED  BY <3>1, <1>1
  <2> QED  BY <1>5, <2>2, <2>3, <2>4, <2>5 DEF ProcessNext
<1>6. CASE RunConsistencyCheck
  <2>1. /\ waived \subseteq waived'
        /\ UNCHANGED <<log, rewritten, recorded, searched, delivered, anchor>>
    BY <1>6 DEF RunConsistencyCheck, ConsistencyPasses, files
  <2>2. Audit!Excuse
    BY <2>1 DEF Audit!Excuse
  <2> QED  BY <2>2 DEF Audit!Next
<1>7. CASE GetEntriesByIndexRange
  <2>1. /\ searched' = searched \cup Batch /\ Batch \subseteq 0..(Len(log) - 1)
        /\ UNCHANGED <<log, rewritten, recorded, waived, delivered, anchor>>
    BY <1>7 DEF GetEntriesByIndexRange, files
  <2>2. Audit!Examine
    BY <2>1 DEF Audit!Examine, Audit!Indices
  <2> QED  BY <2>2 DEF Audit!Next
<1>8. CASE IdentitySearch \/ IdentitySearchFails
  BY <1>8, SearchRecords DEF Audit!Next
<1>9. CASE StartAfterEnd \/ WriteCheckpoint \/ WriteCheckpointFails
  <2>1. Same
    BY <1>9 DEF StartAfterEnd, RangeRefused, WriteCheckpoint, CheckpointKept,
       CheckpointTruncated, WriteCheckpointFails, CheckpointNotOpened, LogUnchanged,
       files, history
  <2> QED  BY <2>1, <1>1
<1>10. CASE UNCHANGED vars
  <2>1. Same
    BY <1>10 DEF vars, files, history
  <2> QED  BY <2>1, <1>1
<1> QED
  BY <1>3, <1>4, <1>5, <1>6, <1>7, <1>8, <1>9, <1>10 DEF Next

\* The monitor of a Rekor v1 log implements LogAudit: whatever fails, it reports
\* only what it has looked at and what is so, takes no report back, and trusts a
\* checkpoint only when it extends the last one and everything it commits to has
\* been looked at, recorded and reported.
THEOREM PromiseKept ==
  ASSUME ~TornWrites
  PROVE  Spec => KeepsPromise
<1>1. AuditInv /\ [Next]_vars => AuditInv'
  BY AuditStep
<1>2. AuditInv /\ [Next]_vars => [Audit!Next]_(Audit!auditVars)
  BY AuditStepImplements
<1> QED
  BY <1>1, <1>2, InitAudit, AuditStarts, PTL DEF Spec, KeepsPromise, Audit!Spec
=============================================================================
