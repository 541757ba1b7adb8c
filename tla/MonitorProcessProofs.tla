-------------------------- MODULE MonitorProcessProofs --------------------------
(***************************************************************************)
(* Facts about MonitorProcess that hold beside any log.  The theorems      *)
(* about RekorV1 and CTLog rest on them.                                   *)
(***************************************************************************)
EXTENDS MonitorProcess, MonitorLoopProofs

-----------------------------------------------------------------------------
(* The steps of a process.                                                 *)

\* The steps that end the process.
Ends ==
  \/ Crash
  \/ FetchFails
  \/ \E prev, first, last : RangeRefused(prev, first, last)
  \/ pc = "search" /\ RecordFails
  \/ NotifyFails
  \/ CheckpointNotOpened
  \/ WriteFails
  \/ GracefulExit

\* All its steps but two, the check that passes and the fetch, which depend on the
\* log.
ProcessStep ==
  \/ Start
  \/ Ends
  \/ Signal
  \/ ConsistencyFails
  \/ pc = "search" /\ RecordSucceeds
  \/ Notify
  \/ CheckpointKept
  \/ CheckpointTruncated
  \/ CheckpointFlushed
  \/ NextRound

\* The actions shared by every log are among them.
LEMMA ProcessNextIsStep == ProcessNext => ProcessStep
  BY DEF ProcessNext, ProcessStep, Ends

\* The end of a process forgets the round; of what stays it may have written some
\* of the matches, and, when a write may be cut short, spoilt the checkpoint file.
LEMMA EndForgets ==
  ASSUME Ends
  PROVE  /\ LoopReturns
         /\ UNCHANGED <<latestIndex, history>>
         /\ \E written \in SUBSET found : recorded' = recorded \cup written
         /\ file' = file \/ (TornWrites /\ file' \in {EmptyFile, Garbage})
         /\ pc = "flush" => TornWrites
<1>1. recorded = recorded \cup {}
  OBVIOUS
<1>2. CASE Crash \/ FetchFails \/ NotifyFails \/ CheckpointNotOpened \/ GracefulExit
             \/ \E prev, first, last : RangeRefused(prev, first, last)
  BY <1>1, <1>2 DEF Crash, ProcessDies, FetchFails, NotifyFails, SendFails,
     CheckpointNotOpened, GracefulExit, Shutdown, RangeRefused, CheckRefusesRange, files
<1>3. CASE pc = "search" /\ RecordFails
  BY <1>3 DEF RecordFails
<1>4. CASE WriteFails
  BY <1>1, <1>4 DEF WriteFails
<1> QED  BY <1>2, <1>3, <1>4 DEF Ends

-----------------------------------------------------------------------------
(* Types.                                                                  *)

\* What the types of the process come to at each of its calls, C being the set of
\* checkpoints: the range is set from the check to the last Send, and so is the
\* checkpoint to store, until it is stored.
ProcessShape(C) ==
  /\ ProcessTypeOK(C)
  /\ pc \in {"search", "notify"} =>
       startIndex \in Int /\ endIndex \in Int /\ startIndex <= endIndex
  /\ pc \in {"search", "notify", "write", "flush"} => curCheckpoint \in C
  /\ pc = "notify" => outbox # <<>>

\* A monitor that never ran has it.
LEMMA InitProcessShape ==
  ASSUME NEW C, ProcessInit
  PROVE  ProcessShape(C)
<1>1. LoopTypeOK(C)
  BY EmptySeq DEF ProcessInit, LoopInit, LoopTypeOK, PCs, OptionalIndex
<1>2. ProcessTypeOK(C)
  BY <1>1 DEF ProcessInit, ProcessTypeOK, OptionalIndex
<1>3. pc = "down"
  BY DEF ProcessInit, LoopInit
<1> QED  BY <1>2, <1>3 DEF ProcessShape

\* So does a process that ends, whatever it was doing.
LEMMA ReturnsProcessShape ==
  ASSUME NEW C, ProcessShape(C), LoopReturns,
         UNCHANGED <<searched, waived, delivered, fetchedTo>>,
         file' \in C \cup {EmptyFile, Garbage},
         anchor' \in C \cup {NoCheckpoint},
         recorded' \subseteq Int,
         latestIndex' \in OptionalIndex
  PROVE  ProcessShape(C)'
<1>1. LoopTypeOK(C)'
  BY EmptySeq DEF ProcessShape, ProcessTypeOK, LoopTypeOK, LoopReturns, Forget,
     PCs, OptionalIndex
<1>2. pc' = "down"
  BY DEF LoopReturns
<1>3. ProcessTypeOK(C)'
  BY <1>1 DEF ProcessShape, ProcessTypeOK, Index
<1> QED  BY <1>2, <1>3 DEF ProcessShape

\* Every step of the process keeps the types, and hands each call what it needs.
LEMMA ProcessShapeKept ==
  ASSUME NEW C, ProcessShape(C), ProcessStep
  PROVE  ProcessShape(C)'
<1> USE DEF ProcessShape, ProcessTypeOK, LoopTypeOK, PCs, OptionalIndex, Index
<1>1. CASE Start
  <2>1. PICK f \in Flags : flags' = f /\ startIndex' = f.start /\ endIndex' = f.end
                            /\ inputEndIndex' = f.end
    BY <1>1 DEF Start, StartProcess
  <2>2. f.start \in OptionalIndex /\ f.end \in OptionalIndex
    BY FlagsAssumption
  <2>3. waived' \subseteq Int
    <3>1. /\ startIndex' = NoIndex => waived' = waived
          /\ startIndex' # NoIndex => waived' = waived \cup 0..startIndex'
      BY <1>1 DEF Start
    <3>2. 0..startIndex' \subseteq Int /\ waived \subseteq Int
      OBVIOUS
    <3> QED  BY <3>1, <3>2
  <2> QED
    BY <1>1, <2>1, <2>2, <2>3 DEF Start, StartProcess, roundVars, files
<1>2. CASE Ends
  <2>1. /\ LoopReturns
        /\ UNCHANGED <<searched, waived, delivered, anchor, fetchedTo, latestIndex>>
        /\ file' \in {file, EmptyFile, Garbage}
    BY <1>2, EndForgets DEF history
  <2>2. recorded' \subseteq Int
    <3>1. PICK written \in SUBSET found : recorded' = recorded \cup written
      BY <1>2, EndForgets
    <3> QED  BY <3>1
  <2> QED  BY <2>1, <2>2, ReturnsProcessShape
<1>3. CASE Signal
  BY <1>3 DEF Signal, CatchSignal, roundVars, files, history
<1>4. CASE ConsistencyFails
  <2>1. CASE flags.once
    BY <1>4, <2>1, ReturnsProcessShape DEF ConsistencyFails, CheckFails, files, history
  <2>2. CASE ~flags.once
    BY <1>4, <2>2 DEF ConsistencyFails, CheckFails, files, history, roundVars
  <2> QED  BY <2>1, <2>2
<1>5. CASE pc = "search" /\ RecordSucceeds
  BY <1>5, ToSendType DEF RecordSucceeds, SearchReturns, Advance, history
<1>6. CASE Notify
  <2>1. /\ Head(outbox) \in Sends
        /\ outbox' \in Seq(Sends)
        /\ Len(outbox) \in Nat
        /\ Len(outbox) # 1 => outbox' # <<>>
    <3>1. outbox' = Tail(outbox) /\ outbox \in Seq(Sends) /\ outbox # <<>>
      BY <1>6 DEF Notify, SendSucceeds
    <3>2. Len(outbox) \in Nat \ {0} /\ Len(<<>>) = 0
      BY <3>1, EmptySeq
    <3>3. Len(outbox') = Len(outbox) - 1 /\ outbox' \in Seq(Sends)
      BY <3>1, HeadTailProperties
    <3>4. Head(outbox) \in Sends
      BY <3>1, HeadTailProperties
    <3> QED  BY <3>2, <3>3, <3>4
  <2>2. delivered' \subseteq Reports
    <3> DEFINE send == Head(outbox)
    <3>1. delivered' = delivered \cup
            {<<send.payload, send.platform, i>> : i \in Reported(send)}
      BY <1>6 DEF Notify
    <3>2. Reported(send) \subseteq Int
      BY DEF Reported
    <3>3. send.payload \in Payloads /\ send.platform \in STRING
      BY <2>1 DEF Sends
    <3>4. ASSUME NEW i \in Reported(send)
          PROVE  <<send.payload, send.platform, i>> \in Reports
      BY <3>2, <3>3 DEF Reports
    <3> QED  BY <3>1, <3>4
  <2>3. CASE Len(outbox) = 1
    BY <1>6, <2>1, <2>2, <2>3 DEF Notify, SendSucceeds, Advance, files
  <2>4. CASE Len(outbox) # 1
    BY <1>6, <2>1, <2>2, <2>4 DEF Notify, SendSucceeds, files
  <2> QED  BY <2>3, <2>4
<1>7. CASE CheckpointKept
  <2>1. CASE flags.once \/ inputEndIndex # NoIndex
    BY <1>7, <2>1, ReturnsProcessShape DEF CheckpointKept, CheckpointHandled, files,
       history
  <2>2. CASE ~(flags.once \/ inputEndIndex # NoIndex)
    BY <1>7, <2>2 DEF CheckpointKept, CheckpointHandled, files, history
  <2> QED  BY <2>1, <2>2
<1>8. CASE CheckpointTruncated
  BY <1>8 DEF CheckpointTruncated, roundVars, history
<1>9. CASE CheckpointFlushed
  <2>1. file' \in C /\ anchor' \in C
    BY <1>9 DEF CheckpointFlushed
  <2>2. CASE flags.once \/ inputEndIndex # NoIndex
    BY <1>9, <2>1, <2>2, ReturnsProcessShape DEF CheckpointFlushed, CheckpointHandled
  <2>3. CASE ~(flags.once \/ inputEndIndex # NoIndex)
    BY <1>9, <2>1, <2>3 DEF CheckpointFlushed, CheckpointHandled
  <2> QED  BY <2>2, <2>3
<1>10. CASE NextRound
  BY <1>10 DEF NextRound, Tick, files, history
<1> QED
  BY <1>1, <1>2, <1>3, <1>4, <1>5, <1>6, <1>7, <1>8, <1>9, <1>10 DEF ProcessStep

\* So does a check that passes, when its parameters are what they stand for.
LEMMA CheckShapeKept ==
  ASSUME NEW C, ProcessShape(C),
         NEW prev \in C \cup {NoCheckpoint}, NEW cur \in C,
         NEW first, prev # NoCheckpoint => first \in Int,
         NEW last \in Int, NEW newest \in Int,
         ConsistencyPasses(prev, cur, first, last, newest)
  PROVE  ProcessShape(C)'
<1> USE DEF ProcessShape, ProcessTypeOK, LoopTypeOK, PCs, OptionalIndex, Index
<1> DEFINE from == RangeStart(prev, first)
           to   == RangeEnd(last)
<1>1. from \in OptionalIndex /\ to \in OptionalIndex
  BY DEF RangeStart, RangeEnd
<1>2. waived' \subseteq Int
  <2>1. SteppedOver(prev, newest) \subseteq Int
    BY DEF SteppedOver
  <2> QED  BY <2>1 DEF ConsistencyPasses
<1> QED
  BY <1>1, <1>2 DEF ConsistencyPasses, CheckPasses, files

\* The Boolean variables of the loop only ever get Boolean values.
LEMMA LoopBooleansKept ==
  ASSUME LoopBooleansOK,
         ProcessStep \/ \E prev, cur, first, last, newest :
                          ConsistencyPasses(prev, cur, first, last, newest)
  PROVE  LoopBooleansOK'
<1> USE DEF LoopBooleansOK
<1>1. ASSUME LoopReturns PROVE LoopBooleansOK'
  BY <1>1 DEF LoopReturns, Forget
<1>2. ASSUME UNCHANGED <<signalled, failureCounted>> PROVE LoopBooleansOK'
  BY <1>2
<1>3. CASE Ends
  BY <1>3, <1>1, EndForgets
<1>4. CASE Start
  BY <1>4, <1>2 DEF Start, StartProcess
<1>5. CASE Signal \/ NextRound
  BY <1>5 DEF Signal, CatchSignal, NextRound, Tick
<1>6. CASE ConsistencyFails
  BY <1>6, <1>1 DEF ConsistencyFails, CheckFails
<1>7. CASE (pc = "search" /\ RecordSucceeds) \/ Notify
  BY <1>7, <1>2 DEF RecordSucceeds, SearchReturns, Notify, SendSucceeds
<1>8. CASE CheckpointKept \/ CheckpointFlushed \/ CheckpointTruncated
  BY <1>8, <1>1, <1>2 DEF CheckpointKept, CheckpointFlushed, CheckpointTruncated,
     CheckpointHandled
<1>9. CASE \E prev, cur, first, last, newest :
             ConsistencyPasses(prev, cur, first, last, newest)
  BY <1>9, <1>2 DEF ConsistencyPasses, CheckPasses
<1> QED
  BY <1>3, <1>4, <1>5, <1>6, <1>7, <1>8, <1>9 DEF ProcessStep

-----------------------------------------------------------------------------
(* The checkpoint file and the Sends still to be made.                     *)

\* Except while it is being replaced, the file holds the last checkpoint stored;
\* what a round read from it, it still holds when the round replaces it.
StoredInv ==
  /\ file # Garbage
  /\ pc # "flush" => Stored = anchor
  /\ pc \in {"search", "notify", "write", "flush"} =>
       /\ prevCheckpoint = anchor
       /\ anchor # NoCheckpoint => IsPrefix(anchor, curCheckpoint)

\* The file changes only where it is truncated and where it is written in full.
LEMMA StoredKept ==
  ASSUME ~TornWrites, NEW C, ProcessShape(C), StoredInv, ProcessStep,
         {NoCheckpoint, EmptyFile, Garbage} \cap C = {},
         NoCheckpoint \notin {EmptyFile, Garbage}, EmptyFile # Garbage
  PROVE  StoredInv'
<1> USE DEF StoredInv, Stored
<1>1. ASSUME UNCHANGED <<file, anchor>>, pc # "flush", pc' = "down" PROVE StoredInv'
  BY <1>1
<1>2. ASSUME UNCHANGED <<file, anchor, prevCheckpoint, curCheckpoint>>,
             pc' = pc \/ (pc # "flush" /\ pc' \in {"check", "wait"})
               \/ (pc \in {"search", "notify"} /\ pc' \in {"notify", "write"})
      PROVE  StoredInv'
  BY <1>2
<1>3. CASE Ends
  BY <1>3, <1>1, EndForgets DEF LoopReturns, history
<1>4. CASE Start \/ ConsistencyFails \/ NextRound
  BY <1>4, <1>1, <1>2 DEF Start, StartProcess, ConsistencyFails, CheckFails,
     LoopReturns, NextRound, Tick, roundVars, files, history
<1>5. CASE Signal \/ Notify
  BY <1>5, <1>2 DEF Signal, CatchSignal, Notify, SendSucceeds, roundVars, files,
     history
<1>6. CASE pc = "search" /\ RecordSucceeds
  BY <1>6, <1>2 DEF RecordSucceeds, SearchReturns, history
<1>7. CASE CheckpointKept
  BY <1>7, <1>1, <1>2 DEF CheckpointKept, CheckpointHandled, LoopReturns, files,
     history
<1>8. CASE CheckpointTruncated
  BY <1>8 DEF CheckpointTruncated, roundVars, history
<1>9. CASE CheckpointFlushed
  <2>1. file' = curCheckpoint /\ anchor' = curCheckpoint /\ pc = "flush"
    BY <1>9 DEF CheckpointFlushed
  <2>2. pc' \in {"down", "wait"}
    BY <1>9 DEF CheckpointFlushed, CheckpointHandled, LoopReturns
  <2>3. curCheckpoint \notin {NoCheckpoint, EmptyFile, Garbage}
    BY <2>1 DEF ProcessShape
  <2> QED  BY <2>1, <2>2, <2>3
<1> QED
  BY <1>3, <1>4, <1>5, <1>6, <1>7, <1>8, <1>9 DEF ProcessStep

\* Also with writes that are cut short: the file holds the last checkpoint stored, or
\* nothing, or nothing readable; and a round read from it that checkpoint or none, and
\* found it consistent.
ReadInv ==
  /\ file \in {EmptyFile, Garbage, anchor}
  /\ pc \in {"search", "notify", "write", "flush"} =>
       /\ prevCheckpoint \in {NoCheckpoint, anchor}
       /\ prevCheckpoint # NoCheckpoint => IsPrefix(prevCheckpoint, curCheckpoint)

\* What a round read stays, until the round replaces it.
LEMMA ReadKept ==
  ASSUME ReadInv, ProcessStep
  PROVE  ReadInv'
<1> USE DEF ReadInv
<1>1. ASSUME UNCHANGED <<file, anchor>>, pc' = "down" PROVE ReadInv'
  BY <1>1
<1>2. ASSUME UNCHANGED <<file, anchor, prevCheckpoint, curCheckpoint>>,
             pc' = pc \/ pc' \in {"check", "wait"}
               \/ (pc \in {"search", "notify"} /\ pc' \in {"notify", "write"})
      PROVE  ReadInv'
  BY <1>2
<1>3. CASE Ends
  <2>1. pc' = "down" /\ anchor' = anchor
        /\ (file' = file \/ file' \in {EmptyFile, Garbage})
    BY <1>3, EndForgets DEF LoopReturns, history
  <2> QED  BY <2>1
<1>4. CASE Start \/ ConsistencyFails \/ NextRound
  BY <1>4, <1>1, <1>2 DEF Start, StartProcess, ConsistencyFails, CheckFails,
     LoopReturns, NextRound, Tick, roundVars, files, history
<1>5. CASE Signal \/ Notify
  BY <1>5, <1>2 DEF Signal, CatchSignal, Notify, SendSucceeds, roundVars, files,
     history
<1>6. CASE pc = "search" /\ RecordSucceeds
  BY <1>6, <1>2 DEF RecordSucceeds, SearchReturns, history
<1>7. CASE CheckpointKept
  BY <1>7, <1>1, <1>2 DEF CheckpointKept, CheckpointHandled, LoopReturns, files,
     history
<1>8. CASE CheckpointTruncated
  BY <1>8 DEF CheckpointTruncated, roundVars, history
<1>9. CASE CheckpointFlushed
  <2>1. file' = curCheckpoint /\ anchor' = curCheckpoint
    BY <1>9 DEF CheckpointFlushed
  <2>2. pc' \in {"down", "wait"}
    BY <1>9 DEF CheckpointFlushed, CheckpointHandled, LoopReturns
  <2> QED  BY <2>1, <2>2
<1> QED
  BY <1>3, <1>4, <1>5, <1>6, <1>7, <1>8, <1>9 DEF ProcessStep

\* A round passes over the checkpoint it has to write only for one of the same
\* size that it read, and consistent checkpoints of one size are one.
LEMMA SameSizeIsStored ==
  ASSUME ReadInv, NEW S, pc = "write", curCheckpoint \in Seq(S), anchor \in Seq(S),
         prevCheckpoint # NoCheckpoint, Len(prevCheckpoint) = Len(curCheckpoint)
  PROVE  anchor = curCheckpoint
<1>1. prevCheckpoint = anchor /\ IsPrefix(anchor, curCheckpoint)
  BY DEF ReadInv
<1> QED  BY <1>1, EqualLengthPrefix

\* A process beside an unreadable file is waiting, checking or down.
StoppedAtGarbage == file = Garbage => pc \in {"down", "check", "wait"}

\* An unreadable file is neither left nor overwritten by a step that does not pass
\* the check: only a round that passed it records, notifies or writes.
LEMMA GarbageKept ==
  ASSUME Garbage # EmptyFile, StoppedAtGarbage, ProcessStep
  PROVE  /\ StoppedAtGarbage'
         /\ file = Garbage =>
              UNCHANGED <<file, anchor, searched, recorded, latestIndex, delivered>>
<1> USE DEF StoppedAtGarbage
<1>1. CASE Start
  BY <1>1 DEF Start, StartProcess, files
<1>2. CASE Ends
  <2>1. pc' = "down" /\ UNCHANGED <<latestIndex, anchor, searched, delivered>>
    BY <1>2, EndForgets DEF LoopReturns, history
  <2>2. ASSUME file = Garbage PROVE UNCHANGED files
    <3>1. pc \notin {"search", "flush"}
      BY <2>2
    <3> QED
      BY <1>2, <3>1 DEF Ends, Crash, ProcessDies, FetchFails, RangeRefused, NotifyFails,
         CheckpointNotOpened, WriteFails, GracefulExit
  <2> QED  BY <2>1, <2>2 DEF files
<1>3. CASE Signal \/ NextRound \/ ConsistencyFails
  BY <1>3 DEF Signal, CatchSignal, NextRound, Tick, ConsistencyFails, CheckFails,
     LoopReturns, files, history
<1>4. CASE pc = "search" /\ RecordSucceeds
  BY <1>4 DEF RecordSucceeds
<1>5. CASE Notify
  BY <1>5 DEF Notify, SendSucceeds, files
<1>6. CASE CheckpointKept
  BY <1>6 DEF CheckpointKept, CheckpointHandled, files
<1>7. CASE CheckpointTruncated
  BY <1>7 DEF CheckpointTruncated
<1>8. CASE CheckpointFlushed
  <2>1. pc = "flush" /\ pc' \in {"down", "wait"}
    BY <1>8 DEF CheckpointFlushed, CheckpointHandled, LoopReturns
  <2> QED  BY <2>1
<1> QED
  BY <1>1, <1>2, <1>3, <1>4, <1>5, <1>6, <1>7, <1>8 DEF ProcessStep

\* Between the search and the last Send everything found is in the file, and told
\* or about to be told.
OutboxInv ==
  pc = "notify" =>
    /\ found \subseteq recorded
    /\ \A payload \in Payloads, n \in 1..Len(Platforms) : \A i \in Listed(payload) :
         \/ <<payload, Platforms[n], i>> \in delivered
         \/ Pending(payload, Platforms[n], outbox)

\* One Send less is pending, and what it carried is delivered.
LEMMA NotifyDelivers ==
  ASSUME NEW C, ProcessShape(C), OutboxInv, Notify, NEW payload \in Payloads,
         NEW n \in 1..Len(Platforms), NEW i \in Listed(payload)
  PROVE  \/ <<payload, Platforms[n], i>> \in delivered'
         \/ Pending(payload, Platforms[n], outbox')
<1>1. /\ pc = "notify"
      /\ outbox' = Tail(outbox)
      /\ delivered' = delivered \cup
           {<<Head(outbox).payload, Head(outbox).platform, j>> :
              j \in Reported(Head(outbox))}
  BY DEF Notify, SendSucceeds
<1>2. outbox \in Seq(Sends) /\ outbox # <<>>
  BY <1>1 DEF ProcessShape, ProcessTypeOK, LoopTypeOK
<1>3. /\ Len(outbox) \in Nat /\ Len(Tail(outbox)) = Len(outbox) - 1
      /\ \A k \in 1..Len(Tail(outbox)) : Tail(outbox)[k] = outbox[k + 1]
      /\ Head(outbox) = outbox[1]
  BY <1>2, HeadTailProperties, LenProperties
<1>4. CASE <<payload, Platforms[n], i>> \in delivered
  BY <1>1, <1>4
<1>5. ASSUME NEW k \in 1..Len(outbox),
             outbox[k] = [payload |-> payload, platform |-> Platforms[n]]
      PROVE  \/ <<payload, Platforms[n], i>> \in delivered'
             \/ Pending(payload, Platforms[n], outbox')
  <2>1. CASE k = 1
    <3>1. Head(outbox).payload = payload /\ Head(outbox).platform = Platforms[n]
      BY <1>3, <1>5, <2>1
    <3>2. i \in Reported(Head(outbox))
      BY <3>1 DEF Reported, Listed
    <3>3. <<Head(outbox).payload, Head(outbox).platform, i>> \in delivered'
      BY <1>1, <3>2
    <3> QED  BY <3>1, <3>3
  <2>2. CASE k # 1
    <3>1. k - 1 \in 1..Len(Tail(outbox)) /\ k - 1 + 1 = k
      BY <1>3, <2>2
    <3>2. outbox'[k - 1] = [payload |-> payload, platform |-> Platforms[n]]
      BY <1>1, <1>3, <1>5, <3>1
    <3>3. k - 1 \in 1..Len(outbox')
      BY <1>1, <3>1
    <3> QED  BY <3>2, <3>3 DEF Pending
  <2> QED  BY <2>1, <2>2
<1>6. \/ <<payload, Platforms[n], i>> \in delivered
      \/ Pending(payload, Platforms[n], outbox)
  BY <1>1 DEF OutboxInv
<1> QED  BY <1>4, <1>5, <1>6 DEF Pending

\* Nothing found is forgotten between the search and the last Send.
LEMMA OutboxKept ==
  ASSUME NEW C, ProcessShape(C), OutboxInv, ProcessStep
  PROVE  OutboxInv'
<1>1. ASSUME pc' # "notify" PROVE OutboxInv'
  BY <1>1 DEF OutboxInv
<1>2. CASE Start \/ NextRound \/ ConsistencyFails \/ CheckpointFlushed
            \/ CheckpointKept \/ CheckpointTruncated
  BY <1>2, <1>1 DEF Start, StartProcess, NextRound, Tick, ConsistencyFails,
     CheckFails, CheckpointFlushed, CheckpointKept, CheckpointTruncated,
     CheckpointHandled, LoopReturns
<1>3. CASE Ends
  BY <1>3, <1>1, EndForgets DEF LoopReturns
<1>4. CASE Signal
  BY <1>4 DEF Signal, CatchSignal, roundVars, files, history, OutboxInv, Listed, Pending
<1>5. CASE Notify
  <2>1. pc = "notify" /\ UNCHANGED <<found, failed, recorded>>
    BY <1>5 DEF Notify, SendSucceeds, files
  <2>2. \A payload : Listed(payload)' = Listed(payload)
    BY <2>1 DEF Listed
  <2>3. found' \subseteq recorded'
    BY <2>1 DEF OutboxInv
  <2>4. ASSUME NEW payload \in Payloads, NEW n \in 1..Len(Platforms),
               NEW i \in Listed(payload)
        PROVE  \/ <<payload, Platforms[n], i>> \in delivered'
               \/ Pending(payload, Platforms[n], outbox')
    BY <1>5, NotifyDelivers
  <2>5. \A payload, platform : Pending(payload, platform, outbox)'
                                 = Pending(payload, platform, outbox')
    BY DEF Pending
  <2> QED  BY <2>2, <2>3, <2>4, <2>5 DEF OutboxInv
<1>6. CASE pc = "search" /\ RecordSucceeds
  <2>1. /\ found' = found /\ failed' = failed
        /\ outbox' = ToSend(found, failed)
        /\ recorded' = recorded \cup found
    BY <1>6 DEF RecordSucceeds, SearchReturns
  <2>2. ASSUME NEW payload \in Payloads, NEW n \in 1..Len(Platforms),
               NEW i \in Listed(payload)'
        PROVE  Pending(payload, Platforms[n], outbox')
    <3>1. Listed(payload) # {}
      BY <2>1, <2>2 DEF Listed
    <3> QED  BY <3>1, <2>1, ToSendComplete
  <2>3. \A payload, platform : Pending(payload, platform, outbox)'
                                 = Pending(payload, platform, outbox')
    BY DEF Pending
  <2> QED  BY <2>1, <2>2, <2>3 DEF OutboxInv
<1> QED
  BY <1>2, <1>3, <1>4, <1>5, <1>6 DEF ProcessStep
=============================================================================
