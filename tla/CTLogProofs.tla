------------------------------- MODULE CTLogProofs -------------------------------
(***************************************************************************)
(* Theorems about CTLog, for every log, every set of platforms and every   *)
(* configuration.                                                          *)
(*                                                                         *)
(* Those that say that nothing is missed rest on two assumptions, which    *)
(* they name: no write of the checkpoint file is cut short (~TornWrites),  *)
(* and the log answers a request in full (AnswersInFull).                  *)
(***************************************************************************)
EXTENDS CTLog, MonitorProcessProofs

-----------------------------------------------------------------------------
(* The steps.                                                              *)

\* There is an answer only in a search.
AnswerInv == answer # {} => pc = "search"

\* The steps of the process but two, RunConsistencyCheck and GetCTLogEntries.
RoundStep ==
  /\ LogUnchanged
  /\ \/ Start
     \/ Ends
     \/ Signal
     \/ ConsistencyFails
     \/ pc = "search" /\ answer # {} /\ RecordSucceeds
     \/ Notify
     \/ KeepsTreeHead /\ CheckpointKept
     \/ ~KeepsTreeHead /\ CheckpointTruncated
     \/ CheckpointFlushed
     \/ NextRound

\* Every step is one of these.
LEMMA NextSorts ==
  ASSUME AnswerInv, [Next]_vars
  PROVE  \/ LogAppends
         \/ LogRewrites
         \/ RunConsistencyCheck
         \/ GetCTLogEntries
         \/ RoundStep
         \/ UNCHANGED vars
<1>1. CASE ProcessNext /\ LogUnchanged
  BY <1>1 DEF ProcessNext, RoundStep, Ends
<1>2. CASE StartAfterEnd
  BY <1>2 DEF StartAfterEnd, RoundStep, Ends
<1>3. CASE IdentitySearch \/ IdentitySearchFails
  BY <1>3 DEF IdentitySearch, IdentitySearchFails, AnswerInv, RoundStep, Ends
<1>4. CASE WriteCheckpoint \/ WriteCheckpointFails
  BY <1>4 DEF WriteCheckpoint, WriteCheckpointFails, RoundStep, Ends
<1> QED
  BY <1>1, <1>2, <1>3, <1>4 DEF Next

\* And those of a round are steps of any monitor's process.
LEMMA RoundStepIsProcessStep == RoundStep => ProcessStep /\ LogUnchanged
  BY DEF RoundStep, ProcessStep

-----------------------------------------------------------------------------
(* Types.                                                                  *)

Shape ==
  /\ ProcessShape(TreeHead)
  /\ AnswerInv
  /\ log \in TreeHead
  /\ answer \subseteq Index

BooleansOK == LoopBooleansOK /\ rewritten \in BOOLEAN

\* The log stays a sequence of entries.
LEMMA LogType ==
  ASSUME log \in TreeHead, LogAppends \/ LogRewrites
  PROVE  log' \in TreeHead
<1> USE DEF TreeHead
<1>1. CASE LogAppends
  BY <1>1, AppendProperties DEF LogAppends
<1>2. CASE LogRewrites
  <2>1. CASE log' = Front(log)
    <3>1. \A i \in 1..(Len(log) - 1) : log[i] \in Entries
      BY LenProperties, ElementOfSeq
    <3> QED BY <2>1, <3>1, SubSeqProperties, LenProperties DEF Front
  <2>2. ASSUME NEW i \in 1..Len(log), NEW e \in Entries, log' = [log EXCEPT ![i] = e]
        PROVE  log' \in TreeHead
    BY <2>2, ExceptSeq
  <2> QED BY <1>2, <2>1, <2>2 DEF LogRewrites
<1> QED  BY <1>1, <1>2

\* A tree head has a size, whatever its length.
LEMMA SizeType ==
  ASSUME NEW sth \in TreeHead
  PROVE  TreeSize(sth) \in Nat
  BY LenProperties DEF TreeSize, TreeHead

\* A monitor that never ran, beside an empty log.
LEMMA InitShape == Init => Shape
<1> SUFFICES ASSUME Init PROVE Shape
  OBVIOUS
<1>1. ProcessShape(TreeHead)
  BY InitProcessShape DEF Init
<1>2. log \in TreeHead
  BY EmptySeq DEF Init, TreeHead
<1> QED  BY <1>1, <1>2 DEF Init, Shape, AnswerInv

\* What the answer to a request is: at least the entry it begins at, none beyond
\* the end of the range or of the log, and its newest is what fetchedTo keeps.
LEMMA AnswerBounds ==
  ASSUME Shape, GetCTLogEntries
  PROVE  /\ startIndex \in Nat /\ endIndex \in Int /\ startIndex \in Answer
         /\ Answer \subseteq startIndex..endIndex
         /\ Answer \subseteq 0..(Len(log) - 1)
         /\ fetchedTo' \in Answer
<1>1. /\ pc = "search" /\ Answerable
      /\ fetchedTo' = CHOOSE i \in Answer : \A j \in Answer : j <= i
  BY DEF GetCTLogEntries
<1>2. Len(log) \in Nat /\ MaxGetEntries \in Nat \ {0}
  BY CTAssumption, LenProperties DEF Shape, TreeHead
<1>3. startIndex \in Int /\ endIndex \in Int /\ startIndex <= endIndex
  BY <1>1 DEF Shape, ProcessShape
<1>4. startIndex \in Nat /\ startIndex < Len(log)
  BY <1>1, <1>2, <1>3 DEF Answerable
<1>5. startIndex \in Answer
  BY <1>2, <1>3, <1>4 DEF Answer
<1>6. Answer \subseteq startIndex..endIndex /\ Answer \subseteq 0..(Len(log) - 1)
  BY <1>2, <1>3, <1>4 DEF Answer
<1>7. \E i \in Answer : \A j \in Answer : j <= i
  <2> DEFINE a == Len(log) - 1
             b == startIndex + MaxGetEntries - 1
  <2>1. a \in Int /\ b \in Int /\ startIndex <= a /\ startIndex <= b
    BY <1>2, <1>4
  <2>2. \A j : j \in Answer <=> j \in startIndex..endIndex /\ j <= a /\ j <= b
    BY <1>2, <1>3 DEF Answer
  <2> HIDE DEF a, b
  <2>3. CASE endIndex <= a /\ endIndex <= b
    BY <1>3, <2>1, <2>2, <2>3
  <2>4. CASE a <= endIndex /\ a <= b
    BY <1>3, <2>1, <2>2, <2>4
  <2>5. CASE b <= endIndex /\ b <= a
    BY <1>3, <2>1, <2>2, <2>5
  <2> QED  BY <1>3, <2>1, <2>3, <2>4, <2>5
<1>8. fetchedTo' \in Answer
  BY <1>1, <1>7
<1> QED  BY <1>3, <1>4, <1>5, <1>6, <1>8

\* Every operation of the process and of the log keeps the types, and leaves a
\* search a range and a tree head to work on.
LEMMA ShapeInductive ==
  ASSUME Shape, [Next]_vars
  PROVE  Shape'
<1>1. CASE LogAppends \/ LogRewrites
  <2>1. log' \in TreeHead
    BY <1>1, LogType DEF Shape
  <2>2. UNCHANGED <<loopVars, files, history, answer>>
    BY <1>1 DEF LogAppends, LogRewrites
  <2> QED
    BY <2>1, <2>2 DEF Shape, AnswerInv, ProcessShape, ProcessTypeOK, LoopTypeOK,
       loopVars, files, history
<1>2. CASE RoundStep
  <2>1. ProcessShape(TreeHead)'
    BY <1>2, RoundStepIsProcessStep, ProcessShapeKept DEF Shape
  <2>2. log' = log /\ answer' \in {answer, {}} /\ (answer' # {} => pc' = "search")
    BY <1>2 DEF RoundStep, LogUnchanged
  <2> QED  BY <2>1, <2>2 DEF Shape, AnswerInv
<1>3. CASE RunConsistencyCheck
  <2>1. /\ Stored # Garbage /\ ConsistencyPasses(Stored, log, GetStartIndex(Stored),
                                      GetEndIndex(log), TreeSize(log) - 1)
        /\ LogUnchanged
    BY <1>3 DEF RunConsistencyCheck, Consistent
  <2>2. log \in TreeHead /\ TreeSize(log) \in Int
    BY SizeType DEF Shape
  <2>3. Stored \in TreeHead \cup {NoCheckpoint}
    BY <2>1 DEF Stored, Shape, ProcessShape, ProcessTypeOK
  <2>4. Stored # NoCheckpoint => GetStartIndex(Stored) \in Int
    BY <2>3, SizeType DEF GetStartIndex
  <2>5. ProcessShape(TreeHead)'
    <3>1. GetEndIndex(log) \in Int /\ TreeSize(log) - 1 \in Int
      BY <2>2 DEF GetEndIndex
    <3> QED  BY <2>1, <2>2, <2>3, <2>4, <3>1, CheckShapeKept DEF Shape
  <2> QED  BY <2>1, <2>5 DEF Shape, LogUnchanged, AnswerInv
<1>4. CASE GetCTLogEntries
  <2>1. /\ pc = "search" /\ pc' = "search" /\ log' = log /\ answer' = Answer
        /\ found' \subseteq Answer /\ failed' \subseteq Answer
        /\ searched' = searched \cup Answer
        /\ UNCHANGED <<flags, startIndex, endIndex, inputEndIndex, prevCheckpoint,
                       curCheckpoint, outbox, files, waived, delivered, anchor>>
    BY <1>4 DEF GetCTLogEntries, MatchedIndices
  <2>2. Answer \subseteq Int /\ fetchedTo' \in Int
    BY <1>4, AnswerBounds
  <2> QED
    BY <2>1, <2>2 DEF Shape, AnswerInv, ProcessShape, ProcessTypeOK, LoopTypeOK, PCs,
       OptionalIndex, Index, files
<1>5. CASE UNCHANGED vars
  BY <1>5 DEF vars, Shape, AnswerInv, ProcessShape, ProcessTypeOK, LoopTypeOK,
     loopVars, files, history
<1> QED
  BY <1>1, <1>2, <1>3, <1>4, <1>5, NextSorts DEF Shape

\* The Boolean variables only ever get Boolean values.
LEMMA BooleansInductive ==
  ASSUME AnswerInv, BooleansOK, [Next]_vars
  PROVE  BooleansOK'
<1>1. CASE LogAppends \/ LogRewrites \/ UNCHANGED vars
  BY <1>1 DEF LogAppends, LogRewrites, vars, loopVars, BooleansOK, LoopBooleansOK
<1>2. CASE RoundStep
  BY <1>2, RoundStepIsProcessStep, LoopBooleansKept DEF LogUnchanged, BooleansOK
<1>3. CASE RunConsistencyCheck
  BY <1>3, LoopBooleansKept DEF RunConsistencyCheck, LogUnchanged, BooleansOK
<1>4. CASE GetCTLogEntries
  BY <1>4 DEF GetCTLogEntries, BooleansOK, LoopBooleansOK
<1> QED  BY <1>1, <1>2, <1>3, <1>4, NextSorts

\* Every variable always has its type.  Shape, which carries the proof, adds that
\* MonitorLoop calls IdentitySearch only with two indices and WriteCheckpoint only
\* with a tree head, the pointers that those dereference.
THEOREM TypeCorrect == Spec => []TypeOK
<1>1. Init => Shape /\ BooleansOK
  <2>1. Init => BooleansOK
    BY DEF Init, ProcessInit, LoopInit, BooleansOK, LoopBooleansOK
  <2> QED  BY <2>1, InitShape
<1>2. Shape /\ BooleansOK /\ [Next]_vars => (Shape /\ BooleansOK)'
  BY ShapeInductive, BooleansInductive DEF Shape
<1>3. Shape /\ BooleansOK => TypeOK
  BY DEF Shape, ProcessShape, BooleansOK, TypeOK
<1> QED
  BY <1>1, <1>2, <1>3, PTL DEF Spec

-----------------------------------------------------------------------------
(* The stored tree head.                                                   *)

SafetyInv == Shape /\ StoredInv

\* What holds the tree head of a round is the log itself when the round begins.
LEMMA StoredInductive ==
  ASSUME ~TornWrites, Shape, StoredInv, [Next]_vars
  PROVE  StoredInv'
<1>1. CASE LogAppends \/ LogRewrites \/ UNCHANGED vars
  BY <1>1 DEF LogAppends, LogRewrites, vars, loopVars, files, history, StoredInv, Stored
<1>2. CASE RoundStep
  BY <1>2, RoundStepIsProcessStep, StoredKept, TreeHeadAssumption DEF Shape
<1>3. CASE RunConsistencyCheck
  <2>1. /\ prevCheckpoint' = Stored /\ curCheckpoint' = log /\ pc = "check"
        /\ pc' \in {"write", "search"}
        /\ Stored # NoCheckpoint => IsPrefix(Stored, log)
        /\ UNCHANGED <<file, anchor>>
    BY <1>3 DEF RunConsistencyCheck, Consistent, ConsistencyPasses, CheckPasses, files
  <2>2. Stored = anchor
    BY <2>1 DEF StoredInv
  <2> QED  BY <2>1, <2>2 DEF StoredInv, Stored
<1>4. CASE GetCTLogEntries
  BY <1>4 DEF GetCTLogEntries, files, StoredInv, Stored
<1> QED  BY <1>1, <1>2, <1>3, <1>4, NextSorts DEF Shape

\* The two parts of the invariant together.
LEMMA SafetyInductive ==
  ASSUME ~TornWrites
  PROVE  Spec => []SafetyInv
<1>1. Init => SafetyInv
  BY InitShape, TreeHeadAssumption
  DEF SafetyInv, StoredInv, Stored, Init, ProcessInit, LoopInit
<1>2. SafetyInv /\ [Next]_vars => SafetyInv'
  BY ShapeInductive, StoredInductive DEF SafetyInv
<1> QED  BY <1>1, <1>2, PTL DEF Spec

\* Only the complete write of a tree head moves the anchor.
LEMMA OnlyFlushAnchors ==
  ASSUME Shape, [Next]_vars
  PROVE  anchor' = anchor \/ CheckpointFlushed
<1>1. CASE RoundStep
  BY <1>1, EndForgets DEF RoundStep, Start, Signal, ConsistencyFails, RecordSucceeds,
     Notify, CheckpointKept, CheckpointTruncated, NextRound, history
<1>2. CASE LogAppends \/ LogRewrites \/ UNCHANGED vars
  BY <1>2 DEF LogAppends, LogRewrites, vars, history
<1>3. CASE RunConsistencyCheck \/ GetCTLogEntries
  BY <1>3 DEF RunConsistencyCheck, ConsistencyPasses, GetCTLogEntries
<1> QED  BY <1>1, <1>2, <1>3, NextSorts DEF Shape

\* Each stored tree head commits to everything the one before it did: no sequence
\* of failures makes the monitor accept a log that rewrote its past, or exchange
\* the two tree heads when it writes one.
THEOREM NoFork ==
  ASSUME ~TornWrites
  PROVE  Spec => StoredChain
<1>1. ASSUME SafetyInv, [Next]_vars, anchor # NoCheckpoint
      PROVE  anchor' # NoCheckpoint /\ IsPrefix(anchor, anchor')
  <2>1. anchor' = anchor \/ CheckpointFlushed
    BY <1>1, OnlyFlushAnchors DEF SafetyInv
  <2>2. CASE anchor' = anchor
    <3>1. anchor \in TreeHead
      BY <1>1 DEF SafetyInv, Shape, ProcessShape, ProcessTypeOK
    <3> QED  BY <2>2, <3>1, <1>1, PrefixReflexive DEF TreeHead
  <2>3. CASE CheckpointFlushed
    <3>1. pc = "flush" /\ anchor' = curCheckpoint
      BY <2>3 DEF CheckpointFlushed
    <3>2. curCheckpoint \in TreeHead /\ IsPrefix(anchor, curCheckpoint)
      BY <3>1, <1>1 DEF SafetyInv, Shape, ProcessShape, StoredInv
    <3> QED  BY <3>1, <3>2, TreeHeadAssumption
  <2> QED  BY <2>1, <2>2, <2>3
<1> QED
  BY <1>1, SafetyInductive, PTL DEF Spec, StoredChain

-----------------------------------------------------------------------------
(* The place of a round.                                                   *)
(*                                                                         *)
(* As for Rekor v1 there are two records of it, but here they differ by    *)
(* one: memory holds the size of the tree searched last, the file gives    *)
(* the last entry of the tree stored last.                                 *)

StoredSize == IF anchor = NoCheckpoint THEN 0 ELSE TreeSize(anchor)

\* An empty tree is never stored.
NotEmptyInv ==
  /\ anchor # NoCheckpoint => TreeSize(anchor) > 0
  /\ pc = "flush" => TreeSize(curCheckpoint) > 0

ResumeInv ==
  /\ Running => inputEndIndex = flags.end
  /\ pc \in {"check", "wait"} => endIndex = flags.end
  /\ pc \in {"search", "notify"} => flags.monitored
  /\ flags.monitored /\ flags.start = NoIndex =>
       /\ pc \in {"check", "wait"} => startIndex \in {NoIndex, StoredSize}
       /\ pc \in {"search", "notify"} =>
            \/ startIndex = StoredSize
            \/ anchor # NoCheckpoint /\ startIndex = StoredSize - 1
       /\ pc \in {"write", "flush"} /\ flags.end = NoIndex =>
            startIndex = TreeSize(curCheckpoint)
  /\ flags.end = NoIndex =>
       /\ pc \in {"search", "notify"} => endIndex = TreeSize(curCheckpoint)
       /\ pc \in {"write", "flush"} => endIndex = NoIndex

\* WriteCTSignedTreeHead writes no tree head of an empty tree.
LEMMA NotEmptyInductive ==
  ASSUME Shape, NotEmptyInv, [Next]_vars
  PROVE  NotEmptyInv'
<1>1. CASE LogAppends \/ LogRewrites \/ UNCHANGED vars
  BY <1>1 DEF LogAppends, LogRewrites, vars, loopVars, history, NotEmptyInv, TreeSize
<1>2. CASE RoundStep
  <2>1. CASE ~KeepsTreeHead /\ CheckpointTruncated
    <3>1. pc = "write" /\ UNCHANGED <<anchor, curCheckpoint>>
      BY <2>1 DEF CheckpointTruncated, roundVars, history
    <3>2. TreeSize(curCheckpoint) \in Nat /\ TreeSize(curCheckpoint) # 0
      BY <2>1, <3>1, SizeType DEF Shape, ProcessShape, KeepsTreeHead
    <3> QED  BY <3>1, <3>2 DEF NotEmptyInv, TreeSize
  <2>2. CASE CheckpointFlushed
    <3>1. anchor' = curCheckpoint /\ pc = "flush" /\ pc' # "flush"
      BY <2>2 DEF CheckpointFlushed, CheckpointHandled, LoopReturns
    <3> QED  BY <3>1 DEF NotEmptyInv, TreeSize
  <2>3. CASE Ends
    BY <2>3, EndForgets DEF LoopReturns, history, NotEmptyInv, TreeSize
  <2>4. CASE Signal
    BY <2>4 DEF Signal, CatchSignal, roundVars, history, NotEmptyInv, TreeSize
  <2>5. CASE Start \/ ConsistencyFails \/ (pc = "search" /\ answer # {} /\ RecordSucceeds)
             \/ Notify \/ (KeepsTreeHead /\ CheckpointKept) \/ NextRound
    <3>1. anchor' = anchor /\ pc' # "flush"
      BY <2>5 DEF Start, StartProcess, ConsistencyFails, CheckFails, LoopReturns,
         RecordSucceeds, SearchReturns, Notify, SendSucceeds, CheckpointKept,
         CheckpointHandled, NextRound, Tick, history
    <3> QED  BY <3>1 DEF NotEmptyInv, TreeSize
  <2> QED  BY <1>2, <2>1, <2>2, <2>3, <2>4, <2>5 DEF RoundStep
<1>3. CASE RunConsistencyCheck \/ GetCTLogEntries
  BY <1>3 DEF RunConsistencyCheck, ConsistencyPasses, CheckPasses, GetCTLogEntries,
     NotEmptyInv, TreeSize
<1> QED  BY <1>1, <1>2, <1>3, NextSorts DEF Shape

\* The range of a round begins where memory or the file says.
LEMMA CheckResumes ==
  ASSUME Shape, StoredInv, ResumeInv, RunConsistencyCheck
  PROVE  ResumeInv'
<1> DEFINE first == GetStartIndex(Stored)
           last  == GetEndIndex(log)
           from  == RangeStart(Stored, first)
           to    == RangeEnd(last)
<1>1. /\ pc = "check" /\ curCheckpoint' = log
      /\ CheckPasses(Stored, log, first, last)
      /\ UNCHANGED <<flags, anchor, inputEndIndex>>
      /\ inputEndIndex = flags.end /\ endIndex = flags.end
  BY DEF RunConsistencyCheck, ConsistencyPasses, CheckPasses, ResumeInv, Running
<1>2. last \in Int /\ last = TreeSize(curCheckpoint)'
  BY <1>1, SizeType DEF Shape, GetEndIndex, TreeSize
<1>3. Stored = anchor /\ StoredSize' = StoredSize
      /\ (anchor # NoCheckpoint => first = StoredSize - 1)
  BY <1>1 DEF StoredInv, StoredSize, GetStartIndex, TreeSize
<1>4. flags.end = NoIndex => to = last
  BY <1>1 DEF RangeEnd
<1>5. ASSUME flags.monitored, flags.start = NoIndex, from # NoIndex
      PROVE  from = StoredSize \/ (anchor # NoCheckpoint /\ from = StoredSize - 1)
  <2>1. startIndex \in {NoIndex, StoredSize}
    BY <1>1, <1>5 DEF ResumeInv
  <2>2. CASE startIndex = NoIndex /\ anchor # NoCheckpoint
    BY <1>3, <2>2 DEF RangeStart
  <2>3. CASE ~(startIndex = NoIndex /\ anchor # NoCheckpoint)
    BY <1>3, <1>5, <2>1, <2>3 DEF RangeStart
  <2> QED  BY <2>2, <2>3
<1>6. flags.end = NoIndex => to # NoIndex
  BY <1>2, <1>4, NilAssumption
<1> HIDE DEF first, last, from, to
<1>7. CASE pc' = "write"
  <2>1. flags.monitored => startIndex' = to /\ endIndex' = NoIndex
    BY <1>1, <1>7 DEF CheckPasses, from, to
  <2>2. ~flags.monitored => endIndex' = endIndex
    BY <1>1, <1>7 DEF CheckPasses
  <2> QED  BY <1>1, <1>2, <1>4, <1>7, <2>1, <2>2 DEF ResumeInv, Running
<1>8. CASE pc' = "search"
  <2>1. /\ flags.monitored /\ startIndex' = from /\ endIndex' = to /\ from # NoIndex
    BY <1>1, <1>8 DEF CheckPasses, from, to
  <2> QED  BY <1>1, <1>2, <1>3, <1>4, <1>5, <1>8, <2>1 DEF ResumeInv, Running
<1> QED  BY <1>1, <1>7, <1>8 DEF CheckPasses

\* A handled tree head leaves one of its size stored, or is that of an empty tree.
LEMMA HandledSize ==
  ASSUME Shape, NotEmptyInv, StoredInv,
         (KeepsTreeHead /\ CheckpointKept) \/ CheckpointFlushed
  PROVE  StoredSize' = TreeSize(curCheckpoint)
<1>1. curCheckpoint \in TreeHead /\ TreeSize(curCheckpoint) \in Nat
  BY SizeType DEF CheckpointKept, CheckpointFlushed, Shape, ProcessShape
<1>2. CASE CheckpointFlushed
  <2>1. anchor' = curCheckpoint /\ curCheckpoint # NoCheckpoint
    BY <1>1, <1>2, TreeHeadAssumption DEF CheckpointFlushed
  <2> QED  BY <2>1 DEF StoredSize, TreeSize
<1>3. CASE KeepsTreeHead /\ CheckpointKept
  <2>1. /\ anchor' = anchor /\ prevCheckpoint = anchor
        /\ anchor # NoCheckpoint => IsPrefix(anchor, curCheckpoint)
    BY <1>3 DEF CheckpointKept, history, StoredInv
  <2>2. StoredSize' = StoredSize
    BY <2>1 DEF StoredSize, TreeSize
  <2>3. CASE TreeSize(curCheckpoint) = 0
    <3>1. ASSUME anchor # NoCheckpoint PROVE FALSE
      <4>1. Len(anchor) <= Len(curCheckpoint)
        BY <2>1, <3>1 DEF IsPrefix
      <4>2. TreeSize(anchor) \in Nat /\ TreeSize(anchor) > 0
        BY <3>1, SizeType DEF Shape, ProcessShape, ProcessTypeOK, NotEmptyInv
      <4> QED  BY <2>3, <4>1, <4>2, <1>1 DEF TreeSize
    <3> QED  BY <2>2, <2>3, <3>1 DEF StoredSize
  <2>4. CASE prevCheckpoint # NoCheckpoint
             /\ TreeSize(prevCheckpoint) = TreeSize(curCheckpoint)
    BY <2>1, <2>2, <2>4 DEF StoredSize
  <2> QED  BY <1>3, <2>3, <2>4 DEF KeepsTreeHead
<1> QED  BY <1>2, <1>3

\* So memory agrees with the file again when the round is over.
LEMMA HandledResumes ==
  ASSUME Shape, NotEmptyInv, StoredInv, ResumeInv,
         (KeepsTreeHead /\ CheckpointKept) \/ CheckpointFlushed
  PROVE  ResumeInv'
<1>1. /\ pc \in {"write", "flush"} /\ CheckpointHandled
      /\ StoredSize' = TreeSize(curCheckpoint)
  BY HandledSize DEF CheckpointKept, CheckpointFlushed
<1>2. CASE pc' = "down"
  BY <1>2 DEF ResumeInv, Running
<1>3. CASE pc' # "down"
  <2>1. /\ pc' = "wait" /\ inputEndIndex = NoIndex
        /\ UNCHANGED <<flags, startIndex, endIndex, inputEndIndex>>
    BY <1>1, <1>3 DEF CheckpointHandled, LoopReturns
  <2>2. /\ inputEndIndex = flags.end /\ endIndex = NoIndex
        /\ flags.monitored /\ flags.start = NoIndex =>
             startIndex = TreeSize(curCheckpoint)
    BY <1>1, <2>1 DEF ResumeInv, Running
  <2>3. (inputEndIndex = flags.end /\ endIndex = flags.end)'
    BY <2>1, <2>2
  <2>4. (flags.monitored /\ flags.start = NoIndex => startIndex = StoredSize)'
    BY <1>1, <2>1, <2>2
  <2> QED  BY <2>1, <2>3, <2>4 DEF ResumeInv, Running
<1> QED  BY <1>2, <1>3

\* Every operation keeps the two records in agreement.
LEMMA ResumeInductive ==
  ASSUME Shape, NotEmptyInv, StoredInv, ResumeInv, [Next]_vars
  PROVE  ResumeInv'
<1>1. ASSUME UNCHANGED <<pc, flags, startIndex, endIndex, inputEndIndex, curCheckpoint,
                         anchor>>
      PROVE  ResumeInv'
  BY <1>1 DEF ResumeInv, Running, StoredSize, TreeSize
<1>2. ASSUME pc' = "down" PROVE ResumeInv'
  BY <1>2 DEF ResumeInv, Running
<1>3. CASE LogAppends \/ LogRewrites \/ UNCHANGED vars
  BY <1>1, <1>3 DEF LogAppends, LogRewrites, vars, loopVars, history
<1>4. CASE RunConsistencyCheck
  BY <1>4, CheckResumes
<1>5. CASE GetCTLogEntries
  BY <1>5, <1>1 DEF GetCTLogEntries
<1>6. CASE RoundStep
  <2>1. CASE Ends
    BY <2>1, <1>2, EndForgets DEF LoopReturns
  <2>2. CASE (pc = "search" /\ answer # {} /\ RecordSucceeds) \/ Notify
    <3>1. /\ pc \in {"search", "notify"}
          /\ UNCHANGED <<flags, inputEndIndex, curCheckpoint, anchor>>
          /\ \/ pc' = "notify" /\ UNCHANGED <<startIndex, endIndex>>
             \/ pc' = "write" /\ startIndex' = endIndex /\ endIndex' = NoIndex
      BY <2>2 DEF RecordSucceeds, SearchReturns, Notify, SendSucceeds, Advance, history
    <3> QED  BY <3>1 DEF ResumeInv, Running, StoredSize, TreeSize
  <2>3. CASE (KeepsTreeHead /\ CheckpointKept) \/ CheckpointFlushed
    BY <2>3, HandledResumes
  <2>4. CASE CheckpointTruncated
    BY <2>4 DEF CheckpointTruncated, roundVars, history, ResumeInv, Running, StoredSize,
       TreeSize
  <2>5. CASE Start
    BY <2>5 DEF Start, StartProcess, ResumeInv, Running
  <2>6. CASE Signal
    BY <2>6, <1>1 DEF Signal, CatchSignal, roundVars, history
  <2>7. CASE NextRound
    BY <2>7 DEF NextRound, Tick, history, ResumeInv, Running, StoredSize, TreeSize
  <2>8. CASE ConsistencyFails
    <3>1. CASE flags.once
      BY <2>8, <3>1, <1>2 DEF ConsistencyFails, CheckFails, LoopReturns
    <3>2. CASE ~flags.once
      BY <2>8, <3>2 DEF ConsistencyFails, CheckFails, roundVars, history, ResumeInv,
         Running, StoredSize, TreeSize
    <3> QED  BY <3>1, <3>2
  <2> QED
    BY <1>6, <2>1, <2>2, <2>3, <2>4, <2>5, <2>6, <2>7, <2>8 DEF RoundStep
<1> QED
  BY <1>3, <1>4, <1>5, <1>6, NextSorts DEF Shape

\* A round that nobody gave a start begins where the stored tree head ends or at its
\* last entry, whether the process remembers its place or reads it from the file it
\* finds after a restart: no sequence of rounds, failures and restarts begins a search
\* beyond the entries already searched, or further back.
THEOREM RoundsBeginAtStored ==
  ASSUME ~TornWrites
  PROVE  Spec => []BeginsAtStored
<1> DEFINE Inv == SafetyInv /\ NotEmptyInv /\ ResumeInv
<1>1. Init => Inv
  <2>1. Init => SafetyInv
    BY InitShape, TreeHeadAssumption
    DEF SafetyInv, StoredInv, Stored, Init, ProcessInit, LoopInit
  <2>2. Init => NotEmptyInv /\ ResumeInv
    BY DEF Init, ProcessInit, LoopInit, NotEmptyInv, ResumeInv, Running
  <2> QED  BY <2>1, <2>2
<1>2. Inv /\ [Next]_vars => Inv'
  BY ShapeInductive, StoredInductive, NotEmptyInductive, ResumeInductive DEF SafetyInv
<1>3. Inv => BeginsAtStored
  <2> SUFFICES ASSUME Inv, pc = "search", flags.start = NoIndex
               PROVE  BeginsAtStored
    BY DEF BeginsAtStored
  <2>1. \/ startIndex = StoredSize
        \/ anchor # NoCheckpoint /\ startIndex = StoredSize - 1
    BY DEF ResumeInv
  <2> QED  BY <2>1 DEF StoredSize, BeginsAtStored
<1> HIDE DEF Inv
<1> QED
  BY <1>1, <1>2, <1>3, PTL DEF Spec

-----------------------------------------------------------------------------
(* A tree head file that does not parse.                                   *)

\* Every step of the monitor and of the log stops at an unreadable file:
\* RunConsistencyCheck fails on it.
LEMMA GarbageInductive ==
  ASSUME AnswerInv, StoppedAtGarbage, [Next]_vars
  PROVE  /\ StoppedAtGarbage'
         /\ file = Garbage =>
              UNCHANGED <<file, anchor, searched, recorded, latestIndex, delivered>>
<1>1. CASE LogAppends \/ LogRewrites \/ UNCHANGED vars
  BY <1>1 DEF LogAppends, LogRewrites, vars, loopVars, files, history,
     StoppedAtGarbage
<1>2. CASE RoundStep
  BY <1>2, RoundStepIsProcessStep, GarbageKept, TreeHeadAssumption
<1>3. CASE RunConsistencyCheck
  <2>1. file # Garbage /\ file' = file
    BY <1>3, TreeHeadAssumption
    DEF RunConsistencyCheck, Consistent, Stored, ConsistencyPasses, files
  <2> QED  BY <2>1 DEF StoppedAtGarbage
<1>4. CASE GetCTLogEntries
  BY <1>4 DEF GetCTLogEntries, files, StoppedAtGarbage
<1> QED
  BY <1>1, <1>2, <1>3, <1>4, NextSorts

\* As for Rekor v1, the signed tree head file cut short stops the monitor: whichever way
\* it is run, it searches, records, reports and stores nothing beside such a file.
UnreadableFileStops ==
  [][file = Garbage =>
       UNCHANGED <<file, anchor, searched, recorded, latestIndex, delivered>>]_vars

\* RunConsistencyCheck fails on an unreadable tree head, and never takes it for the file
\* of a first run, with torn writes or without.
THEOREM UnreadableFileStopsAll == Spec => UnreadableFileStops
<1>1. Init => Shape /\ StoppedAtGarbage
  BY InitShape DEF Init, ProcessInit, LoopInit, StoppedAtGarbage
<1>2. ASSUME Shape, StoppedAtGarbage, [Next]_vars
      PROVE  /\ Shape' /\ StoppedAtGarbage'
             /\ [file = Garbage =>
                   UNCHANGED <<file, anchor, searched, recorded, latestIndex,
                               delivered>>]_vars
  <2>1. AnswerInv
    BY <1>2 DEF Shape
  <2> QED  BY <1>2, <2>1, ShapeInductive, GarbageInductive
<1> QED
  BY <1>1, <1>2, PTL DEF Spec, UnreadableFileStops

\* What a finished round leaves behind.
RoundStored == anchor = curCheckpoint \/ TreeSize(curCheckpoint) = 0

\* What a round finds stored, with torn writes too.
RoundInv == Shape /\ ReadInv

LEMMA RoundInductive == Spec => []RoundInv
<1>1. Init => RoundInv
  BY InitShape DEF RoundInv, ReadInv, Init, ProcessInit, LoopInit
<1>2. ASSUME RoundInv, [Next]_vars PROVE RoundInv'
  <2>1. Shape'
    BY <1>2, ShapeInductive DEF RoundInv
  <2>2. CASE LogAppends \/ LogRewrites \/ UNCHANGED vars
    BY <1>2, <2>1, <2>2 DEF LogAppends, LogRewrites, vars, loopVars, files, history,
       RoundInv, ReadInv
  <2>3. CASE RoundStep
    BY <1>2, <2>1, <2>3, RoundStepIsProcessStep, ReadKept DEF RoundInv
  <2>4. CASE RunConsistencyCheck
    BY <1>2, <2>1, <2>4 DEF RunConsistencyCheck, Consistent, ConsistencyPasses,
       CheckPasses, files, RoundInv, ReadInv, Stored
  <2>5. CASE GetCTLogEntries
    BY <1>2, <2>1, <2>5 DEF GetCTLogEntries, files, RoundInv, ReadInv
  <2> QED
    BY <1>2, <2>2, <2>3, <2>4, <2>5, NextSorts DEF RoundInv, Shape
<1> QED  BY <1>1, <1>2, PTL DEF Spec

\* A write step ends in "wait" only with the tree head stored.
LEMMA WriteStores ==
  ASSUME RoundInv, (KeepsTreeHead /\ CheckpointKept) \/ CheckpointFlushed, pc' = "wait"
  PROVE  /\ curCheckpoint \in TreeHead /\ curCheckpoint' = curCheckpoint
         /\ RoundStored'
<1>1. pc \in {"write", "flush"} /\ curCheckpoint' = curCheckpoint
  BY DEF CheckpointFlushed, CheckpointKept, CheckpointHandled, LoopReturns
<1>2. curCheckpoint \in TreeHead
  BY <1>1 DEF RoundInv, Shape, ProcessShape
<1>3. CASE CheckpointFlushed
  BY <1>1, <1>2, <1>3 DEF CheckpointFlushed, RoundStored
<1>4. CASE KeepsTreeHead /\ CheckpointKept
  <2>1. anchor' = anchor /\ pc = "write"
    BY <1>4 DEF CheckpointKept, history
  <2>2. CASE TreeSize(curCheckpoint) = 0
    BY <2>2, <1>1, <1>2 DEF RoundStored, TreeSize
  <2>3. CASE prevCheckpoint # NoCheckpoint /\ TreeSize(prevCheckpoint) = TreeSize(curCheckpoint)
    <3>1. prevCheckpoint = anchor /\ anchor \in TreeHead
      BY <2>1, <2>3 DEF RoundInv, ReadInv, Shape, ProcessShape, ProcessTypeOK
    <3>2. anchor = curCheckpoint
      BY <1>2, <2>1, <2>3, <3>1, SameSizeIsStored DEF RoundInv, TreeSize, TreeHead
    <3> QED  BY <3>2, <1>1, <1>2, <2>1 DEF RoundStored
  <2> QED  BY <1>4, <2>2, <2>3 DEF KeepsTreeHead
<1> QED  BY <1>3, <1>4

\* A round that ends without a counted failure has stored the log's tree head, or
\* an equal one was stored already, although WriteCTSignedTreeHead compares no more
\* than the sizes: a step into "wait" counts a failure or is the end of a write.
THEOREM RoundsAreQuietOnlyWhenStored == Spec => []QuietRound
<1>1. Init => QuietRound
  BY DEF Init, ProcessInit, LoopInit, QuietRound
<1>2. ASSUME RoundInv, QuietRound, [Next]_vars PROVE QuietRound'
  <2>1. ASSUME pc' # "wait" PROVE QuietRound'
    BY <2>1 DEF QuietRound
  <2>2. ASSUME UNCHANGED <<pc, failureCounted, curCheckpoint, anchor>>
        PROVE  QuietRound'
    BY <1>2, <2>2 DEF QuietRound, TreeSize
  <2>3. CASE LogAppends \/ LogRewrites \/ UNCHANGED vars
    BY <2>3, <2>2 DEF LogAppends, LogRewrites, vars, loopVars, history
  <2>4. CASE RoundStep
    <3>1. CASE Start \/ NextRound \/ Notify \/ CheckpointTruncated
                \/ (pc = "search" /\ answer # {} /\ RecordSucceeds)
      BY <3>1, <2>1 DEF Start, StartProcess, NextRound, Tick, Notify, SendSucceeds,
         CheckpointTruncated, RecordSucceeds, SearchReturns
    <3>2. CASE Ends
      BY <3>2, <2>1, EndForgets DEF LoopReturns
    <3>3. CASE Signal
      BY <3>3, <2>2 DEF Signal, CatchSignal, roundVars, history
    <3>4. CASE ConsistencyFails
      BY <3>4, <2>1 DEF ConsistencyFails, CheckFails, LoopReturns, QuietRound
    <3>5. CASE (KeepsTreeHead /\ CheckpointKept) \/ CheckpointFlushed
      BY <3>5, <1>2, <2>1, WriteStores, TreeHeadAssumption DEF QuietRound, RoundStored
    <3> QED  BY <2>4, <3>1, <3>2, <3>3, <3>4, <3>5 DEF RoundStep
  <2>5. CASE RunConsistencyCheck \/ GetCTLogEntries
    BY <2>5, <2>1 DEF RunConsistencyCheck, ConsistencyPasses, CheckPasses,
       GetCTLogEntries
  <2> QED  BY <1>2, <2>3, <2>4, <2>5, NextSorts DEF RoundInv, Shape
<1> QED  BY <1>1, <1>2, RoundInductive, PTL DEF Spec

\* A log is accepted that does not extend the last tree head stored only in a round
\* that found no tree head in the file.
ForksOnlyUnread ==
  [][anchor # NoCheckpoint /\ anchor' # anchor =>
       prevCheckpoint = NoCheckpoint \/ IsPrefix(anchor, anchor')]_vars

\* RunConsistencyCheck and WriteCTSignedTreeHead together, with torn writes too: the loss of
\* the file is the one way to a fork.
THEOREM ForksNeedALostFile == Spec => ForksOnlyUnread
<1>1. ASSUME RoundInv, [Next]_vars
      PROVE  [anchor # NoCheckpoint /\ anchor' # anchor =>
                prevCheckpoint = NoCheckpoint \/ IsPrefix(anchor, anchor')]_vars
  <2> SUFFICES ASSUME anchor # NoCheckpoint, anchor' # anchor,
                      prevCheckpoint # NoCheckpoint
               PROVE  IsPrefix(anchor, anchor')
    OBVIOUS
  <2>1. pc = "flush" /\ anchor' = curCheckpoint
    BY <1>1, OnlyFlushAnchors DEF CheckpointFlushed, RoundInv
  <2> QED  BY <1>1, <2>1 DEF RoundInv, ReadInv
<1> QED  BY <1>1, RoundInductive, PTL DEF Spec, ForksOnlyUnread

-----------------------------------------------------------------------------
(* The ranges of one process.                                              *)

\* Where a process stands with respect to what it has fetched.
FetchInv ==
  fetchedTo # NoIndex =>
    /\ pc \in {"check", "write", "flush", "wait"} =>
         startIndex # NoIndex /\ fetchedTo <= startIndex
    /\ pc = "search" /\ answer = {} => fetchedTo <= startIndex
    /\ pc = "notify" \/ answer # {} => fetchedTo <= endIndex

\* A round begins where the one before it ended.
LEMMA CheckFetch ==
  ASSUME Shape, FetchInv, RunConsistencyCheck
  PROVE  FetchInv'
<1> DEFINE from == RangeStart(Stored, GetStartIndex(Stored))
           to   == RangeEnd(GetEndIndex(log))
<1>1. /\ pc = "check" /\ fetchedTo' = fetchedTo /\ answer = {} /\ answer' = {}
      /\ pc' \in {"write", "search"}
      /\ pc' = "search" => startIndex' = from
      /\ pc' = "write" => startIndex' = startIndex \/ from = NoIndex \/ to = NoIndex
  BY DEF RunConsistencyCheck, ConsistencyPasses, CheckPasses, LogUnchanged, Shape,
     AnswerInv
<1>2. to # NoIndex
  <2>1. GetEndIndex(log) \in Int
    BY SizeType DEF Shape, GetEndIndex
  <2> QED  BY <2>1, NilAssumption DEF RangeEnd
<1>3. startIndex # NoIndex => from = startIndex
  BY DEF RangeStart
<1> QED
  BY <1>1, <1>2, <1>3 DEF FetchInv

\* Every operation leaves the next fetch no lower than the last one ended.
LEMMA FetchInductive ==
  ASSUME Shape, FetchInv, [Next]_vars
  PROVE  FetchInv'
<1>1. ASSUME pc' = "down", AnswerInv' PROVE FetchInv'
  BY <1>1 DEF FetchInv, AnswerInv
<1>2. AnswerInv /\ AnswerInv'
  BY ShapeInductive DEF Shape
<1>3. ASSUME UNCHANGED <<fetchedTo, startIndex>>,
             pc \in {"check", "write", "flush", "wait"},
             pc' \in {"check", "write", "flush", "wait"}
      PROVE  FetchInv'
  BY <1>2, <1>3 DEF FetchInv, AnswerInv
<1>4. ASSUME UNCHANGED <<fetchedTo, startIndex, endIndex, pc>>,
             answer' = answer \/ pc # "search"
      PROVE  FetchInv'
  BY <1>2, <1>4 DEF FetchInv, AnswerInv
<1>5. CASE LogAppends \/ LogRewrites \/ UNCHANGED vars
  BY <1>5, <1>4 DEF LogAppends, LogRewrites, vars, loopVars, history
<1>6. CASE RoundStep
  <2>1. CASE Start
    BY <2>1 DEF Start, FetchInv
  <2>2. CASE Ends
    BY <2>2, <1>1, <1>2, EndForgets DEF LoopReturns
  <2>3. CASE Signal
    <3>1. UNCHANGED <<fetchedTo, startIndex, endIndex, pc>>
      BY <2>3 DEF Signal, CatchSignal, history
    <3>2. pc' = "search" => answer' = answer
      BY <1>6 DEF RoundStep, LogUnchanged
    <3> QED  BY <3>1, <3>2, <1>4
  <2>4. CASE ConsistencyFails
    BY <2>4, <1>1, <1>2, <1>3 DEF ConsistencyFails, CheckFails, LoopReturns, history
  <2>5. CASE (pc = "search" /\ answer # {} /\ RecordSucceeds) \/ Notify
    <3>1. /\ pc = "notify" \/ answer # {}
          /\ pc' \in {"notify", "write"} /\ fetchedTo' = fetchedTo
          /\ pc' = "notify" => endIndex' = endIndex
          /\ pc' = "write" => startIndex' = endIndex
          /\ endIndex # NoIndex
      BY <2>5, NilAssumption DEF RecordSucceeds, SearchReturns, Notify, SendSucceeds,
         Advance, history, Shape, ProcessShape
    <3> QED  BY <3>1, <1>2 DEF FetchInv, AnswerInv
  <2>6. CASE CheckpointFlushed \/ CheckpointKept \/ CheckpointTruncated
    BY <2>6, <1>1, <1>2, <1>3 DEF CheckpointFlushed, CheckpointKept,
       CheckpointTruncated, CheckpointHandled, LoopReturns, history
  <2>7. CASE NextRound
    BY <2>7, <1>3 DEF NextRound, Tick, history
  <2> QED
    BY <1>6, <2>1, <2>2, <2>3, <2>4, <2>5, <2>6, <2>7 DEF RoundStep
<1>7. CASE RunConsistencyCheck
  BY <1>7, CheckFetch
<1>8. CASE GetCTLogEntries
  <2>1. /\ pc' = "search" /\ answer' = Answer /\ endIndex' = endIndex
    BY <1>8 DEF GetCTLogEntries
  <2>2. fetchedTo' <= endIndex /\ Answer # {}
    BY <1>8, AnswerBounds
  <2> QED  BY <2>1, <2>2 DEF FetchInv
<1> QED
  BY <1>5, <1>6, <1>7, <1>8, NextSorts DEF Shape

\* One process fetches at most one entry twice, the one at the border of two of
\* its rounds, although GetEndIndex names an index past the end of the tree.
THEOREM RoundsOverlapInOne == Spec => []OverlapOfOne
<1>1. Init => Shape /\ FetchInv
  BY InitShape DEF Init, ProcessInit, FetchInv
<1>2. Shape /\ FetchInv /\ [Next]_vars => (Shape /\ FetchInv)'
  BY ShapeInductive, FetchInductive
<1>3. Shape /\ FetchInv => OverlapOfOne
  <2> SUFFICES ASSUME Shape, FetchInv, pc = "search", answer = {}, fetchedTo # NoIndex
               PROVE  startIndex >= fetchedTo
    BY DEF OverlapOfOne
  <2>1. startIndex \in Int /\ fetchedTo \in Int /\ fetchedTo <= startIndex
    BY DEF FetchInv, Shape, ProcessShape, ProcessTypeOK, OptionalIndex, Index
  <2> QED  BY <2>1
<1> QED  BY <1>1, <1>2, <1>3, PTL DEF Spec

-----------------------------------------------------------------------------
(* What is recorded and reported.                                          *)
(*                                                                         *)
(* Settled says of an index that nothing is owed for it any more, Held     *)
(* that the round holds what is owed.  PlaceInv follows the place of the   *)
(* loop among the settled indices; that it may pass an index needs the     *)
(* lists to be true (ListsInv), the log to be what it was when the entries *)
(* were matched (PrefixInv), and the Sends to be still to come (OutboxInv).*)

\* The log answers with everything it is asked for.
AnswersInFull == MaxGetEntries >= MaxLog

\* The entry at index i is in the log and of one of some kinds.
IsOf(i, kinds) == i \in 0..(Len(log) - 1) /\ EntryAt(i) \in kinds

\* The entries a payload may be about.
KindOf(payload) == IF payload = "found" THEN Matching ELSE Unreadable

\* All that is owed for index i has been done.
Done(i) ==
  /\ i \in searched /\ i \in 0..(Len(log) - 1)
  /\ EntryAt(i) \in Matching => i \in recorded
  /\ \A payload \in Payloads, n \in 1..Len(Platforms) :
       EntryAt(i) \in KindOf(payload) => <<payload, Platforms[n], i>> \in delivered

Settled(i) == i \in waived \/ Done(i)

\* It has not, but the round holds it in its lists.
Held(i) ==
  /\ i \in searched /\ i \in 0..(Len(log) - 1)
  /\ \A payload \in Payloads : EntryAt(i) \in KindOf(payload) => i \in Listed(payload)

\* The lists are empty until there is an answer, and never speak of what was not
\* fetched, or, on an append-only log, of an entry of another kind.
ListsInv ==
  /\ pc \in {"down", "check", "wait"} => found = {} /\ failed = {}
  /\ pc = "search" /\ answer = {} => found = {} /\ failed = {}
  /\ pc \in {"search", "notify"} =>
       \A payload \in Payloads : \A i \in Listed(payload) :
         i \in searched /\ (~rewritten => IsOf(i, KindOf(payload)))

\* What the monitor keeps of the log is still a part of it.
PrefixInv ==
  ~rewritten =>
    /\ Len(log) <= MaxLog
    /\ searched \subseteq 0..(Len(log) - 1)
    /\ anchor # NoCheckpoint => IsPrefix(anchor, log)
    /\ pc \in {"search", "notify", "write", "flush"} => IsPrefix(curCheckpoint, log)

\* The indices a tree head covers, and those before an index, are settled.
SettledBelow(sth) == \A i \in Below(sth) : Settled(i)
SettledBefore(n) == \A i \in 0..(n - 1) : Settled(i)

\* The range of a round ends one past the tree head, or where the operator wants
\* it to end, and then the rest is not his concern.
RangeInv ==
  /\ pc = "check" => endIndex = inputEndIndex
  /\ pc \in {"search", "notify"} =>
       /\ inputEndIndex = NoIndex => endIndex = TreeSize(curCheckpoint)
       /\ {i \in Below(curCheckpoint) : i > endIndex} \subseteq waived

\* The range begins at a settled index or right after one, and the round goes on
\* only with what is settled or held.
PlaceInv ==
  ~rewritten =>
    /\ anchor # NoCheckpoint => SettledBelow(anchor)
    /\ pc \in {"check", "wait"} /\ startIndex # NoIndex => SettledBefore(startIndex)
    /\ pc = "search" /\ answer = {} => SettledBefore(startIndex)
    /\ pc = "notify" \/ answer # {} =>
         \A i \in Below(curCheckpoint) : i <= endIndex => Settled(i) \/ Held(i)
    /\ pc \in {"write", "flush"} =>
         /\ SettledBelow(curCheckpoint)
         /\ startIndex # NoIndex /\ inputEndIndex = NoIndex =>
              SettledBefore(startIndex)

\* From now on no history is lost, and an append-only log keeps its entries.
Grows ==
  /\ searched \subseteq searched'
  /\ waived \subseteq waived'
  /\ recorded \subseteq recorded'
  /\ delivered \subseteq delivered'
  /\ ~rewritten' => ~rewritten /\ IsPrefix(log, log')

\* No step takes anything back.
LEMMA EverythingGrows ==
  ASSUME Shape, [Next]_vars
  PROVE  Grows
<1>1. ASSUME log' = log, rewritten' = rewritten
      PROVE  ~rewritten' => ~rewritten /\ IsPrefix(log, log')
  BY <1>1, PrefixReflexive DEF Shape, TreeHead
<1>2. CASE LogAppends
  <2>1. PICK e \in Entries : log' = Append(log, e)
    BY <1>2 DEF LogAppends
  <2>2. IsPrefix(log, log')
    BY <2>1, AppendPrefix DEF Shape, TreeHead
  <2>3. UNCHANGED <<searched, waived, recorded, delivered, rewritten>>
    BY <1>2 DEF LogAppends, files, history
  <2> QED  BY <2>2, <2>3 DEF Grows
<1>3. CASE LogRewrites
  <2>1. UNCHANGED <<searched, waived, recorded, delivered>> /\ rewritten'
    BY <1>3 DEF LogRewrites, files, history
  <2> QED  BY <2>1 DEF Grows
<1>4. CASE RoundStep
  <2>1. log' = log /\ rewritten' = rewritten
    BY <1>4 DEF RoundStep, LogUnchanged
  <2>2. CASE Ends
    <3>1. PICK written \in SUBSET found : recorded' = recorded \cup written
      BY <2>2, EndForgets
    <3>2. UNCHANGED <<searched, waived, delivered>>
      BY <2>2, EndForgets DEF history
    <3> QED  BY <2>1, <3>1, <3>2, <1>1 DEF Grows
  <2>3. CASE ~Ends
    <3>1. /\ searched \subseteq searched' /\ waived \subseteq waived'
          /\ recorded \subseteq recorded' /\ delivered \subseteq delivered'
      BY <1>4, <2>3 DEF RoundStep, Start, Signal, ConsistencyFails, RecordSucceeds,
         Notify, CheckpointKept, CheckpointTruncated, CheckpointFlushed, NextRound,
         files, history
    <3> QED  BY <2>1, <3>1, <1>1 DEF Grows
  <2> QED  BY <2>2, <2>3
<1>5. CASE RunConsistencyCheck
  BY <1>5, <1>1 DEF RunConsistencyCheck, ConsistencyPasses, LogUnchanged, files, Grows
<1>6. CASE GetCTLogEntries
  BY <1>6, <1>1 DEF GetCTLogEntries, files, Grows
<1>7. CASE UNCHANGED vars
  BY <1>7, <1>1 DEF vars, files, history, Grows
<1> QED
  BY <1>2, <1>3, <1>4, <1>5, <1>6, <1>7, NextSorts DEF Shape

\* An entry of an append-only log stays in its place.
LEMMA EntryStays ==
  ASSUME Shape, Shape', Grows, ~rewritten', NEW i \in 0..(Len(log) - 1)
  PROVE  i \in 0..(Len(log') - 1) /\ log'[i + 1] = log[i + 1]
<1>1. log \in Seq(Entries) /\ log' \in Seq(Entries) /\ IsPrefix(log, log')
  BY DEF Shape, TreeHead, Grows
<1>2. /\ Len(log) \in Nat /\ Len(log') \in Nat /\ Len(log) <= Len(log')
      /\ \A k \in 1..Len(log) : log'[k] = log[k]
  BY <1>1, PrefixElements, LenProperties
<1> QED  BY <1>2

\* What is settled stays settled.
LEMMA SettledStays ==
  ASSUME Shape, Shape', Grows, ~rewritten', NEW i, Settled(i)
  PROVE  Settled(i)'
<1>1. CASE i \in waived
  BY <1>1 DEF Grows, Settled
<1>2. CASE Done(i)
  <2>1. i \in 0..(Len(log') - 1) /\ log'[i + 1] = log[i + 1]
    BY <1>2, EntryStays DEF Done
  <2> QED  BY <1>2, <2>1 DEF Grows, Settled, Done, EntryAt, KindOf
<1> QED  BY <1>1, <1>2 DEF Settled

\* What the lists hold stays held while they only grow.
LEMMA HeldStays ==
  ASSUME Shape, Shape', Grows, ~rewritten', found \subseteq found',
         failed \subseteq failed', NEW i, Held(i)
  PROVE  Held(i)'
<1>1. i \in 0..(Len(log') - 1) /\ log'[i + 1] = log[i + 1]
  BY EntryStays DEF Held
<1> QED  BY <1>1 DEF Grows, Held, EntryAt, KindOf, Listed

\* A member of a list is what it was, whatever else happens.
LEMMA ListedStays ==
  ASSUME Shape, Shape', Grows, ListsInv, pc \in {"search", "notify"},
         NEW payload \in Payloads, NEW i \in Listed(payload)
  PROVE  i \in searched' /\ (~rewritten' => IsOf(i, KindOf(payload))')
<1>1. i \in searched /\ (~rewritten => IsOf(i, KindOf(payload)))
  BY DEF ListsInv
<1>2. i \in searched'
  BY <1>1 DEF Grows
<1>3. ASSUME ~rewritten' PROVE IsOf(i, KindOf(payload))'
  <2>1. IsOf(i, KindOf(payload))
    BY <1>1, <1>3 DEF Grows
  <2>2. i \in 0..(Len(log') - 1) /\ log'[i + 1] = log[i + 1]
    BY <2>1, <1>3, EntryStays DEF IsOf
  <2> QED  BY <2>1, <2>2 DEF IsOf, EntryAt, KindOf
<1> QED  BY <1>2, <1>3

\* The lists are filled by the answer and emptied with the round.
LEMMA ListsInductive ==
  ASSUME Shape, Shape', Grows, ListsInv, [Next]_vars
  PROVE  ListsInv'
<1>1. ASSUME pc' = "down", found' = {}, failed' = {} PROVE ListsInv'
  BY <1>1 DEF ListsInv
<1>2. ASSUME pc' \in {"check", "wait"}, pc \in {"down", "check", "wait"},
             UNCHANGED <<found, failed>>
      PROVE  ListsInv'
  BY <1>2 DEF ListsInv
<1>3. ASSUME pc' \in {"write", "flush"} PROVE ListsInv'
  BY <1>3 DEF ListsInv
<1>4. ASSUME pc \in {"search", "notify"}, UNCHANGED <<found, failed>>,
             pc' = "notify" \/ (pc' = pc /\ answer' = answer)
      PROVE  ListsInv'
  <2>1. \A payload : Listed(payload)' = Listed(payload)
    BY <1>4 DEF Listed
  <2> QED  BY <2>1, <1>4, ListedStays DEF ListsInv
<1>5. ASSUME UNCHANGED <<pc, found, failed>>, pc = "search" => answer' = answer
      PROVE  ListsInv'
  <2>1. pc \in PCs /\ (pc = "notify" => pc' = "notify")
    BY <1>5 DEF Shape, ProcessShape, ProcessTypeOK, LoopTypeOK
  <2> QED  BY <1>5, <2>1, <1>2, <1>3, <1>4 DEF ListsInv, PCs
<1>6. CASE LogAppends \/ LogRewrites \/ UNCHANGED vars
  BY <1>6, <1>5 DEF LogAppends, LogRewrites, vars, loopVars
<1>7. CASE RoundStep
  <2>1. CASE Start \/ NextRound
    BY <2>1, <1>2 DEF Start, StartProcess, NextRound, Tick, roundVars
  <2>2. CASE Signal
    <3>1. UNCHANGED <<pc, found, failed>>
      BY <2>2 DEF Signal, CatchSignal, roundVars
    <3>2. pc' = "search" => answer' = answer
      BY <1>7 DEF RoundStep, LogUnchanged
    <3> QED  BY <3>1, <3>2, <1>5
  <2>3. CASE Ends
    BY <2>3, <1>1, EndForgets DEF LoopReturns, Forget
  <2>4. CASE ConsistencyFails
    BY <2>4, <1>1, <1>2 DEF ConsistencyFails, CheckFails, LoopReturns, Forget,
       roundVars
  <2>5. CASE Notify
    <3>1. pc = "notify" /\ UNCHANGED <<found, failed>> /\ pc' \in {"notify", "write"}
      BY <2>5 DEF Notify, SendSucceeds
    <3> QED  BY <3>1, <1>3, <1>4
  <2>6. CASE pc = "search" /\ answer # {} /\ RecordSucceeds
    <3>1. UNCHANGED <<found, failed>> /\ pc' \in {"notify", "write"}
      BY <2>6 DEF RecordSucceeds, SearchReturns
    <3> QED  BY <2>6, <3>1, <1>3, <1>4
  <2>7. CASE CheckpointKept \/ CheckpointTruncated \/ CheckpointFlushed
    BY <2>7, <1>1, <1>3 DEF CheckpointKept, CheckpointTruncated, CheckpointFlushed,
       CheckpointHandled, LoopReturns, Forget, ListsInv
  <2> QED
    BY <1>7, <2>1, <2>2, <2>3, <2>4, <2>5, <2>6, <2>7 DEF RoundStep
<1>8. CASE RunConsistencyCheck
  <2>1. /\ pc = "check" /\ pc' \in {"write", "search"}
        /\ UNCHANGED <<found, failed>>
    BY <1>8 DEF RunConsistencyCheck, ConsistencyPasses, CheckPasses
  <2>2. found' = {} /\ failed' = {}
    BY <2>1 DEF ListsInv
  <2>3. \A payload : Listed(payload)' = {}
    BY <2>2 DEF Listed
  <2> QED  BY <2>1, <2>2, <2>3 DEF ListsInv
<1>9. CASE GetCTLogEntries
  <2>1. /\ pc' = "search" /\ answer' = Answer /\ answer' # {}
        /\ found' = MatchedIndices(Answer, Matching)
        /\ failed' = MatchedIndices(Answer, Unreadable)
        /\ searched' = searched \cup Answer
        /\ log' = log /\ rewritten' = rewritten
        /\ Answer \subseteq 0..(Len(log) - 1)
    BY <1>9, AnswerBounds DEF GetCTLogEntries
  <2>2. ASSUME NEW payload \in Payloads, NEW i \in Listed(payload)'
        PROVE  i \in searched' /\ (~rewritten' => IsOf(i, KindOf(payload))')
    <3>1. i \in MatchedIndices(Answer, KindOf(payload))
      BY <2>1, <2>2 DEF Listed, KindOf
    <3>2. i \in Answer /\ EntryAt(i) \in KindOf(payload)
      BY <3>1 DEF MatchedIndices
    <3> QED  BY <3>2, <2>1 DEF IsOf, EntryAt, KindOf
  <2> QED  BY <2>1, <2>2 DEF ListsInv
<1> QED
  BY <1>6, <1>7, <1>8, <1>9, NextSorts DEF Shape

\* The log grows past what the monitor keeps of it.
LEMMA PrefixInductive ==
  ASSUME Shape, Shape', Grows, PrefixInv, [Next]_vars
  PROVE  PrefixInv'
<1> SUFFICES ASSUME ~rewritten' PROVE PrefixInv'
  BY DEF PrefixInv
<1> DEFINE Keeps == {"search", "notify", "write", "flush"}
<1>1. /\ ~rewritten /\ IsPrefix(log, log')
      /\ log \in TreeHead /\ log' \in TreeHead
  BY DEF Grows, Shape
<1>2. Len(log) \in Nat /\ Len(log') \in Nat /\ Len(log) <= Len(log')
  BY <1>1, PrefixElements, LenProperties DEF TreeHead
<1>3. ASSUME NEW c \in TreeHead, IsPrefix(c, log) PROVE IsPrefix(c, log')
  BY <1>1, <1>3, PrefixTransitive DEF TreeHead
<1>4. ASSUME searched' = searched PROVE searched' \subseteq 0..(Len(log') - 1)
  BY <1>1, <1>2, <1>4 DEF PrefixInv
<1>5. ASSUME anchor' = anchor
      PROVE  anchor' # NoCheckpoint => IsPrefix(anchor', log')
  BY <1>1, <1>3, <1>5 DEF PrefixInv, Shape, ProcessShape, ProcessTypeOK
<1>6. ASSUME pc' \in Keeps => pc \in Keeps /\ curCheckpoint' = curCheckpoint
      PROVE  pc' \in Keeps => IsPrefix(curCheckpoint', log')
  BY <1>1, <1>3, <1>6 DEF PrefixInv, Shape, ProcessShape
<1>7. Len(log') <= MaxLog
  <2>1. log' = log \/ LogAppends \/ LogRewrites
    BY NextSorts DEF Shape, RunConsistencyCheck, GetCTLogEntries, RoundStep,
       LogUnchanged, vars
  <2>2. CASE log' = log
    BY <2>2, <1>1 DEF PrefixInv
  <2>3. CASE LogAppends
    <3>1. PICK e \in Entries : log' = Append(log, e) /\ Len(log) < MaxLog
      BY <2>3 DEF LogAppends
    <3>2. Len(log') = Len(log) + 1
      BY <3>1, <1>1, AppendPrefix DEF TreeHead
    <3> QED  BY <3>1, <3>2, <1>2, CTAssumption
  <2>4. CASE LogRewrites
    BY <2>4 DEF LogRewrites
  <2> QED  BY <2>1, <2>2, <2>3, <2>4
<1>8. ASSUME UNCHANGED <<searched, anchor>>,
             pc' \in Keeps => pc \in Keeps /\ curCheckpoint' = curCheckpoint
      PROVE  PrefixInv'
  BY <1>7, <1>8, <1>4, <1>5, <1>6 DEF PrefixInv
<1>9. CASE LogAppends \/ LogRewrites \/ UNCHANGED vars
  BY <1>9, <1>8 DEF LogAppends, LogRewrites, vars, loopVars, history
<1>10. CASE RoundStep
  <2>1. CASE CheckpointFlushed
    <3>1. /\ pc = "flush" /\ anchor' = curCheckpoint /\ searched' = searched
          /\ pc' \notin Keeps
      BY <2>1 DEF CheckpointFlushed, CheckpointHandled, LoopReturns
    <3>2. curCheckpoint \in TreeHead /\ IsPrefix(curCheckpoint, log)
      BY <3>1, <1>1 DEF PrefixInv, Shape, ProcessShape
    <3> QED  BY <3>1, <3>2, <1>3, <1>4, <1>7 DEF PrefixInv
  <2>2. CASE Ends
    BY <2>2, <1>8, EndForgets DEF LoopReturns, history
  <2>3. CASE Start \/ Signal \/ NextRound \/ ConsistencyFails \/ Notify
    BY <2>3, <1>8 DEF Start, StartProcess, Signal, CatchSignal, NextRound, Tick,
       ConsistencyFails, CheckFails, LoopReturns, Notify, SendSucceeds, roundVars,
       history
  <2>4. CASE (pc = "search" /\ answer # {} /\ RecordSucceeds) \/ CheckpointKept
             \/ CheckpointTruncated
    BY <2>4, <1>8 DEF RecordSucceeds, SearchReturns, CheckpointKept,
       CheckpointTruncated, CheckpointHandled, LoopReturns, roundVars, history
  <2> QED  BY <1>10, <2>1, <2>2, <2>3, <2>4 DEF RoundStep
<1>11. CASE RunConsistencyCheck
  <2>1. curCheckpoint' = log /\ UNCHANGED <<searched, anchor>>
    BY <1>11 DEF RunConsistencyCheck, ConsistencyPasses, CheckPasses
  <2> QED  BY <2>1, <1>1, <1>4, <1>5, <1>7 DEF PrefixInv
<1>12. CASE GetCTLogEntries
  <2>1. /\ pc = "search" /\ curCheckpoint' = curCheckpoint /\ anchor' = anchor
        /\ searched' = searched \cup Answer /\ log' = log
    BY <1>12 DEF GetCTLogEntries
  <2>2. searched' \subseteq 0..(Len(log') - 1)
    BY <2>1, <1>1, <1>12, AnswerBounds DEF PrefixInv
  <2> QED  BY <2>1, <2>2, <1>5, <1>6, <1>7 DEF PrefixInv
<1> QED
  BY <1>9, <1>10, <1>11, <1>12, NextSorts DEF Shape

\* The range is set by the check and moved on by the last Send.
LEMMA RangeInductive ==
  ASSUME Shape, RangeInv, [Next]_vars
  PROVE  RangeInv'
<1>1. ASSUME pc' \notin {"check", "search", "notify"} PROVE RangeInv'
  BY <1>1 DEF RangeInv
<1>2. ASSUME waived' = waived, UNCHANGED <<endIndex, inputEndIndex, curCheckpoint>>,
             pc' = pc \/ (pc = "search" /\ pc' = "notify")
      PROVE  RangeInv'
  BY <1>2 DEF RangeInv, Below, TreeSize
<1>3. CASE LogAppends \/ LogRewrites \/ UNCHANGED vars
  BY <1>3, <1>2 DEF LogAppends, LogRewrites, vars, loopVars, history
<1>4. CASE RoundStep
  <2>1. CASE Start \/ NextRound
    BY <2>1 DEF Start, StartProcess, NextRound, Tick, RangeInv
  <2>2. CASE Ends
    BY <2>2, <1>1, EndForgets DEF LoopReturns
  <2>3. CASE Signal
    BY <2>3, <1>2 DEF Signal, CatchSignal, roundVars, history
  <2>4. CASE ConsistencyFails
    BY <2>4, <1>1 DEF ConsistencyFails, CheckFails, LoopReturns
  <2>5. CASE (pc = "search" /\ answer # {} /\ RecordSucceeds) \/ Notify
    BY <2>5, <1>1, <1>2 DEF RecordSucceeds, SearchReturns, Notify, SendSucceeds,
       history
  <2>6. CASE CheckpointKept \/ CheckpointTruncated \/ CheckpointFlushed
    BY <2>6, <1>1 DEF CheckpointKept, CheckpointTruncated, CheckpointFlushed,
       CheckpointHandled, LoopReturns
  <2> QED  BY <1>4, <2>1, <2>2, <2>3, <2>4, <2>5, <2>6 DEF RoundStep
<1>5. CASE RunConsistencyCheck
  <2> DEFINE newest == TreeSize(log) - 1
             to     == RangeEnd(GetEndIndex(log))
  <2>1. /\ pc = "check" /\ curCheckpoint' = log
        /\ waived' = waived \cup SteppedOver(Stored, newest)
        /\ inputEndIndex' = inputEndIndex
        /\ pc' = "write" \/ (pc' = "search" /\ endIndex' = to)
    BY <1>5 DEF RunConsistencyCheck, ConsistencyPasses, CheckPasses
  <2>2. TreeSize(log) \in Nat /\ endIndex = inputEndIndex
        /\ inputEndIndex \in OptionalIndex
    BY <2>1, SizeType DEF Shape, ProcessShape, ProcessTypeOK, LoopTypeOK, RangeInv
  <2>3. /\ inputEndIndex = NoIndex => to = TreeSize(log)
        /\ inputEndIndex # NoIndex => to = inputEndIndex /\ to \in Int
    BY <2>2 DEF RangeEnd, GetEndIndex, OptionalIndex, Index
  <2>4. ASSUME NEW i \in Below(log), i > to PROVE i \in waived'
    <3>1. i \in Nat /\ i <= newest /\ i \in 0..newest
      BY <2>2, <2>4 DEF Below
    <3>2. inputEndIndex # NoIndex /\ to = inputEndIndex /\ to \in Int
      BY <2>2, <2>3, <2>4, <3>1
    <3>3. i \in (inputEndIndex + 1)..newest
      BY <2>2, <2>4, <3>1, <3>2
    <3> QED  BY <2>1, <3>1, <3>2, <3>3 DEF SteppedOver
  <2>5. CASE pc' = "write"
    BY <1>1, <2>5
  <2>6. CASE pc' = "search" /\ endIndex' = to
    <3>1. Below(curCheckpoint)' = Below(log) /\ TreeSize(curCheckpoint)' = TreeSize(log)
      BY <2>1 DEF Below, TreeSize
    <3>2. {i \in Below(curCheckpoint) : i > endIndex}' \subseteq waived'
      BY <2>4, <2>6, <3>1
    <3> QED  BY <2>1, <2>3, <2>6, <3>1, <3>2 DEF RangeInv
  <2> QED  BY <2>1, <2>5, <2>6
<1>6. CASE GetCTLogEntries
  BY <1>6, <1>2 DEF GetCTLogEntries
<1> QED
  BY <1>3, <1>4, <1>5, <1>6, NextSorts DEF Shape

\* The Sends that tell what a list holds are made, or still to be made.
LEMMA OutboxInductive ==
  ASSUME Shape, OutboxInv, [Next]_vars
  PROVE  OutboxInv'
<1>1. CASE RoundStep
  BY <1>1, RoundStepIsProcessStep, OutboxKept DEF Shape
<1>2. CASE LogAppends \/ LogRewrites \/ UNCHANGED vars
  BY <1>2 DEF LogAppends, LogRewrites, vars, loopVars, files, history, OutboxInv,
     Listed, Pending
<1>3. CASE RunConsistencyCheck \/ GetCTLogEntries
  BY <1>3 DEF RunConsistencyCheck, ConsistencyPasses, CheckPasses, GetCTLogEntries,
     OutboxInv
<1> QED  BY <1>1, <1>2, <1>3, NextSorts DEF Shape

\* What is settled before an index, or below a tree head, stays so.
LEMMA SettledBeforeStays ==
  ASSUME Shape, Shape', Grows, ~rewritten', NEW n, SettledBefore(n)
  PROVE  \A i \in 0..(n - 1) : Settled(i)'
  BY SettledStays DEF SettledBefore

LEMMA SettledBelowStays ==
  ASSUME Shape, Shape', Grows, ~rewritten', NEW sth, SettledBelow(sth)
  PROVE  \A i \in Below(sth) : Settled(i)'
  BY SettledStays DEF SettledBelow

\* What the tree head stands for depends on nothing but the tree head.
LEMMA AnchorPlaceStays ==
  ASSUME Shape, Shape', Grows, ~rewritten', PlaceInv, anchor' = anchor
  PROVE  anchor' # NoCheckpoint => SettledBelow(anchor)'
<1>1. anchor # NoCheckpoint => SettledBelow(anchor)
  BY DEF PlaceInv, Grows
<1>2. Below(anchor)' = Below(anchor)
  BY DEF Below, TreeSize
<1> QED  BY <1>1, <1>2, SettledBelowStays DEF SettledBelow

\* A step that goes down keeps it.
LEMMA ReturnsPlace ==
  ASSUME Shape, Shape', Grows, PlaceInv, pc' = "down", anchor' = anchor
  PROVE  PlaceInv'
  BY AnchorPlaceStays DEF PlaceInv, Shape, AnswerInv

\* So does a step that leaves the place of the loop, or moves between a wait and a
\* check.
LEMMA StutterPlace ==
  ASSUME Shape, Shape', Grows, PlaceInv,
         UNCHANGED <<startIndex, endIndex, curCheckpoint, anchor, found, failed>>,
         \/ pc' = pc /\ inputEndIndex' = inputEndIndex /\ answer' = answer
         \/ {pc, pc'} \subseteq {"check", "wait"}
         \/ pc = "write" /\ pc' = "flush" /\ inputEndIndex' = inputEndIndex
  PROVE  PlaceInv'
<1> SUFFICES ASSUME ~rewritten' PROVE PlaceInv'
  BY DEF PlaceInv
<1>1. ~rewritten /\ AnswerInv /\ AnswerInv'
  BY DEF Grows, Shape
<1>2. Below(curCheckpoint)' = Below(curCheckpoint)
  BY DEF Below, TreeSize
<1>3. anchor' # NoCheckpoint => SettledBelow(anchor)'
  BY AnchorPlaceStays
<1>4. pc' \in {"check", "wait"} /\ startIndex' # NoIndex => SettledBefore(startIndex)'
  <2>1. pc' \in {"check", "wait"} /\ startIndex # NoIndex => SettledBefore(startIndex)
    BY <1>1 DEF PlaceInv
  <2> QED  BY <2>1, SettledBeforeStays DEF SettledBefore
<1>5. pc' = "search" /\ answer' = {} => SettledBefore(startIndex)'
  <2>1. pc' = "search" /\ answer' = {} => SettledBefore(startIndex)
    BY <1>1 DEF PlaceInv
  <2> QED  BY <2>1, SettledBeforeStays DEF SettledBefore
<1>6. ASSUME pc' = "notify" \/ answer' # {}, NEW i \in Below(curCheckpoint)', i <= endIndex'
      PROVE  Settled(i)' \/ Held(i)'
  <2>1. Settled(i) \/ Held(i)
    BY <1>1, <1>2, <1>6 DEF PlaceInv, AnswerInv
  <2> QED  BY <2>1, SettledStays, HeldStays
<1>7. ASSUME pc' \in {"write", "flush"}
      PROVE  /\ SettledBelow(curCheckpoint)'
             /\ startIndex' # NoIndex /\ inputEndIndex' = NoIndex =>
                  SettledBefore(startIndex)'
  <2>1. /\ SettledBelow(curCheckpoint)
        /\ startIndex # NoIndex /\ inputEndIndex' = NoIndex => SettledBefore(startIndex)
    BY <1>1, <1>7 DEF PlaceInv
  <2> QED  BY <2>1, <1>2, SettledBelowStays, SettledBeforeStays
           DEF SettledBelow, SettledBefore
<1> QED  BY <1>3, <1>4, <1>5, <1>6, <1>7 DEF PlaceInv

\* The round starts from what the file stands for, at its last entry.
LEMMA CheckPlace ==
  ASSUME Shape, Shape', Grows, StoredInv, RangeInv, PlaceInv, RunConsistencyCheck
  PROVE  PlaceInv'
<1> SUFFICES ASSUME ~rewritten' PROVE PlaceInv'
  BY DEF PlaceInv
<1> DEFINE newest == TreeSize(log) - 1
           from   == RangeStart(Stored, GetStartIndex(Stored))
           to     == RangeEnd(GetEndIndex(log))
<1>1. /\ ~rewritten
      /\ pc = "check" /\ answer' = {}
      /\ curCheckpoint' = log
      /\ waived' = waived \cup SteppedOver(Stored, newest)
      /\ UNCHANGED <<searched, anchor, inputEndIndex>>
  BY DEF RunConsistencyCheck, ConsistencyPasses, CheckPasses, Grows, LogUnchanged,
     Shape, AnswerInv
<1>2. /\ TreeSize(log) \in Nat
      /\ Stored = anchor
      /\ anchor # NoCheckpoint => GetStartIndex(Stored) \in Int
                                    /\ SettledBefore(GetStartIndex(Stored))
  <2>1. TreeSize(log) \in Nat /\ Stored = anchor
    BY <1>1, SizeType DEF Shape, StoredInv
  <2>2. ASSUME anchor # NoCheckpoint
        PROVE  GetStartIndex(Stored) \in Int /\ SettledBefore(GetStartIndex(Stored))
    <3>1. TreeSize(anchor) \in Nat
      BY <2>2, SizeType DEF Shape, ProcessShape, ProcessTypeOK
    <3>2. \A i \in 0..(TreeSize(anchor) - 1) : Settled(i)
      BY <1>1, <2>2 DEF PlaceInv, SettledBelow, Below
    <3>3. GetStartIndex(Stored) = TreeSize(anchor) - 1
      BY <2>1 DEF GetStartIndex
    <3>4. \A i \in 0..(TreeSize(anchor) - 1 - 1) : i \in 0..(TreeSize(anchor) - 1)
      BY <3>1
    <3> QED  BY <3>1, <3>2, <3>3, <3>4 DEF SettledBefore
  <2> QED  BY <2>1, <2>2
<1>3. /\ startIndex \in OptionalIndex /\ inputEndIndex \in OptionalIndex
      /\ startIndex # NoIndex => SettledBefore(startIndex)
      /\ endIndex = inputEndIndex
  BY <1>1 DEF Shape, ProcessShape, ProcessTypeOK, LoopTypeOK, PlaceInv, RangeInv
<1>4. to \in Int /\ (inputEndIndex = NoIndex => to = TreeSize(log))
  BY <1>2, <1>3 DEF RangeEnd, GetEndIndex, OptionalIndex, Index
<1>5. anchor' # NoCheckpoint => SettledBelow(anchor)'
  BY <1>1, AnchorPlaceStays
<1>6. Below(curCheckpoint)' = 0..newest
  BY <1>1 DEF Below, TreeSize
<1>7. ASSUME 0..newest \subseteq waived'
      PROVE  SettledBelow(curCheckpoint)'
  BY <1>6, <1>7 DEF SettledBelow, Settled
<1>8. CASE ~flags.monitored
  <2>1. 0..newest \subseteq waived'
    BY <1>1, <1>8 DEF SteppedOver
  <2>2. pc' = "write" /\ startIndex' = startIndex
    BY <1>8 DEF RunConsistencyCheck, ConsistencyPasses, CheckPasses
  <2>3. startIndex' # NoIndex => SettledBefore(startIndex)'
    BY <2>2, <1>3, SettledBeforeStays DEF SettledBefore
  <2> QED  BY <1>1, <1>5, <1>7, <2>1, <2>2, <2>3 DEF PlaceInv
<1>9. CASE flags.monitored /\ NoIndex \in {from, to}
  <2>1. startIndex = NoIndex /\ anchor = NoCheckpoint
    BY <1>9, <1>4, <1>2, NilAssumption DEF RangeStart
  <2>2. 0..newest \subseteq waived'
    BY <1>1, <1>2, <2>1 DEF SteppedOver
  <2>3. pc' = "write" /\ startIndex' = to
    BY <1>9 DEF RunConsistencyCheck, ConsistencyPasses, CheckPasses
  <2>4. inputEndIndex' = NoIndex => to - 1 = newest
    BY <1>1, <1>4
  <2>5. inputEndIndex' = NoIndex => SettledBefore(startIndex)'
    BY <2>2, <2>3, <2>4 DEF SettledBefore, Settled
  <2> QED  BY <1>1, <1>5, <1>7, <2>2, <2>3, <2>5 DEF PlaceInv
<1>10. CASE flags.monitored /\ NoIndex \notin {from, to}
  <2>1. pc' = "search" /\ startIndex' = from
    BY <1>10 DEF RunConsistencyCheck, ConsistencyPasses, CheckPasses
  <2>2. SettledBefore(from)
    BY <1>10, <1>2, <1>3 DEF RangeStart, OptionalIndex, Index
  <2>3. SettledBefore(startIndex)'
    BY <2>1, <2>2, SettledBeforeStays DEF SettledBefore
  <2> QED  BY <1>1, <1>5, <2>1, <2>3 DEF PlaceInv
<1> QED  BY <1>8, <1>9, <1>10

\* The answer is in the lists, and with the entries before it makes up the tree
\* head, for the log answers in full.
LEMMA AnswerPlace ==
  ASSUME AnswersInFull, Shape, Shape', Grows, PrefixInv, PlaceInv, GetCTLogEntries
  PROVE  PlaceInv'
<1> SUFFICES ASSUME ~rewritten' PROVE PlaceInv'
  BY DEF PlaceInv
<1>1. /\ ~rewritten
      /\ pc = "search" /\ pc' = "search" /\ answer = {} /\ answer' = Answer
      /\ found' = MatchedIndices(Answer, Matching)
      /\ failed' = MatchedIndices(Answer, Unreadable)
      /\ searched' = searched \cup Answer
      /\ UNCHANGED <<endIndex, curCheckpoint, anchor, log>>
  BY DEF GetCTLogEntries, Grows
<1>2. /\ startIndex \in Nat /\ endIndex \in Int /\ Answer # {}
      /\ Answer \subseteq 0..(Len(log) - 1)
  BY AnswerBounds
<1>3. /\ TreeSize(curCheckpoint) \in Nat /\ TreeSize(curCheckpoint) <= Len(log)
      /\ Len(log) \in Nat /\ Len(log) <= MaxGetEntries /\ MaxGetEntries \in Nat
  <2>1. curCheckpoint \in TreeHead /\ log \in TreeHead
    BY <1>1 DEF Shape, ProcessShape
  <2>2. IsPrefix(curCheckpoint, log) /\ Len(log) <= MaxLog
    BY <1>1 DEF PrefixInv
  <2>3. Len(curCheckpoint) <= Len(log) /\ Len(log) \in Nat
    BY <2>1, <2>2, PrefixElements, LenProperties DEF TreeHead
  <2> QED
    BY <2>1, <2>2, <2>3, SizeType, CTAssumption DEF TreeSize, AnswersInFull
<1>4. ASSUME NEW i \in Below(curCheckpoint), i <= endIndex
      PROVE  Settled(i)' \/ Held(i)'
  <2>1. i \in Nat /\ i < Len(log)
    BY <1>3 DEF Below
  <2>2. CASE i < startIndex
    <3>1. i \in 0..(startIndex - 1)
      BY <1>2, <2>1, <2>2
    <3>2. Settled(i)
      BY <3>1, <1>1 DEF PlaceInv, SettledBefore
    <3> QED  BY <3>2, SettledStays
  <2>3. CASE i >= startIndex
    <3>1. i \in Answer
      BY <1>2, <1>3, <1>4, <2>1, <2>3 DEF Answer
    <3>2. \A payload \in Payloads :
            EntryAt(i) \in KindOf(payload) => i \in Listed(payload)'
      BY <3>1, <1>1 DEF MatchedIndices, KindOf, Listed
    <3> QED  BY <3>1, <3>2, <1>1, <1>2 DEF Held, EntryAt, KindOf
  <2> QED  BY <2>1, <2>2, <2>3, <1>2
<1>5. anchor' # NoCheckpoint => SettledBelow(anchor)'
  BY <1>1, AnchorPlaceStays
<1>6. Below(curCheckpoint)' = Below(curCheckpoint)
  BY <1>1 DEF Below, TreeSize
<1> QED  BY <1>1, <1>2, <1>4, <1>5, <1>6 DEF PlaceInv

\* What the round held is settled with the last Send.
LEMMA HeldSettles ==
  ASSUME Shape, Shape', Grows, OutboxInv, RecordSucceeds \/ Notify, ~rewritten',
         pc' = "write", NEW i, Settled(i) \/ Held(i)
  PROVE  Settled(i)'
<1>1. CASE Settled(i)
  BY <1>1, SettledStays
<1>2. CASE Held(i)
  <2>1. found' = found /\ failed' = failed
    BY DEF RecordSucceeds, SearchReturns, Notify, SendSucceeds
  <2>2. Held(i)'
    BY <2>1, <1>2, HeldStays
  <2>3. found \subseteq recorded'
    <3>1. CASE RecordSucceeds
      BY <3>1 DEF RecordSucceeds
    <3>2. CASE Notify
      BY <3>2 DEF Notify, SendSucceeds, OutboxInv, files
    <3> QED  BY <3>1, <3>2
  <2>4. Len(outbox') = 0
    <3>1. CASE RecordSucceeds
      <4>1. outbox' = <<>>
        BY <3>1 DEF RecordSucceeds, SearchReturns
      <4> QED  BY <4>1
    <3>2. CASE Notify
      <4>1. pc = "notify" /\ outbox' = Tail(outbox) /\ Len(outbox) = 1
        BY <3>2 DEF Notify, SendSucceeds
      <4>2. outbox \in Seq(Sends) /\ outbox # <<>>
        BY <4>1 DEF Shape, ProcessShape, ProcessTypeOK, LoopTypeOK
      <4> QED  BY <4>1, <4>2, HeadTailProperties
    <3> QED  BY <3>1, <3>2
  <2>5. ASSUME NEW payload \in Payloads, NEW n \in 1..Len(Platforms),
               i \in Listed(payload)
        PROVE  <<payload, Platforms[n], i>> \in delivered'
    <3>1. \/ <<payload, Platforms[n], i>> \in delivered'
          \/ Pending(payload, Platforms[n], outbox')
      <4>1. CASE RecordSucceeds
        <5>1. outbox' = ToSend(found, failed)
          BY <4>1 DEF RecordSucceeds, SearchReturns
        <5> QED  BY <5>1, <2>5, ToSendComplete
      <4>2. CASE Notify
        BY <4>2, <2>5, NotifyDelivers DEF Shape
      <4> QED  BY <4>1, <4>2
    <3>2. ~Pending(payload, Platforms[n], outbox')
      BY <2>4 DEF Pending
    <3> QED  BY <3>1, <3>2
  <2>6. \A payload : Listed(payload)' = Listed(payload)
    BY <2>1 DEF Listed
  <2>7. EntryAt(i)' \in Matching => i \in recorded'
    <3>1. EntryAt(i)' \in Matching => i \in Listed("found")'
      BY <2>2 DEF Held, KindOf, Payloads
    <3> QED  BY <3>1, <2>3, <2>6 DEF Listed
  <2>8. \A payload \in Payloads, n \in 1..Len(Platforms) :
          EntryAt(i)' \in KindOf(payload) => <<payload, Platforms[n], i>> \in delivered'
    <3>1. \A payload \in Payloads :
            EntryAt(i)' \in KindOf(payload) => i \in Listed(payload)
      BY <2>2, <2>6 DEF Held, KindOf
    <3> QED  BY <3>1, <2>5
  <2>9. i \in searched' /\ i \in 0..(Len(log') - 1)
    BY <2>2 DEF Held
  <2>10. \A payload : KindOf(payload)' = KindOf(payload)
    BY DEF KindOf
  <2> QED  BY <2>7, <2>8, <2>9, <2>10 DEF Settled, Done
<1> QED  BY <1>1, <1>2

\* When the search and the Sends are over, the whole tree head is settled.
LEMMA SearchedPlace ==
  ASSUME Shape, Shape', Grows, OutboxInv, RangeInv, PlaceInv,
         (pc = "search" /\ answer # {} /\ RecordSucceeds) \/ Notify
  PROVE  PlaceInv'
<1> SUFFICES ASSUME ~rewritten' PROVE PlaceInv'
  BY DEF PlaceInv
<1>1. /\ ~rewritten
      /\ pc \in {"search", "notify"} /\ pc' \in {"notify", "write"}
      /\ pc = "notify" \/ answer # {}
      /\ pc' = "write" => startIndex' = endIndex
      /\ pc' = "notify" => endIndex' = endIndex
      /\ UNCHANGED <<inputEndIndex, waived, anchor, curCheckpoint, found, failed>>
  BY DEF RecordSucceeds, Notify, SendSucceeds, SearchReturns, Advance, history, Grows
<1>2. endIndex \in Int /\ curCheckpoint \in TreeHead /\ TreeSize(curCheckpoint) \in Nat
  BY <1>1, SizeType DEF Shape, ProcessShape
<1>3. \A i \in Below(curCheckpoint) : i <= endIndex => Settled(i) \/ Held(i)
  BY <1>1 DEF PlaceInv
<1>4. anchor' # NoCheckpoint => SettledBelow(anchor)'
  BY <1>1, AnchorPlaceStays
<1>5. Below(curCheckpoint)' = Below(curCheckpoint)
  BY <1>1 DEF Below, TreeSize
<1>6. answer' # {} => pc' = "search"
  BY DEF Shape, AnswerInv
<1>7. CASE pc' = "notify"
  <2>1. \A i \in Below(curCheckpoint) : i <= endIndex => Settled(i)' \/ Held(i)'
    BY <1>1, <1>3, SettledStays, HeldStays
  <2> QED  BY <1>1, <1>4, <1>5, <1>6, <1>7, <2>1 DEF PlaceInv
<1>8. CASE pc' = "write"
  <2>1. ASSUME NEW i \in Below(curCheckpoint) PROVE Settled(i)'
    <3>1. CASE i > endIndex
      <4>1. i \in waived'
        BY <3>1, <1>1 DEF RangeInv
      <4> QED  BY <4>1 DEF Settled
    <3>2. CASE i <= endIndex
      BY <1>3, <1>8, <3>2, HeldSettles
    <3> QED  BY <3>1, <3>2, <1>2 DEF Below
  <2>2. SettledBelow(curCheckpoint)'
    BY <1>5, <2>1 DEF SettledBelow
  <2>3. inputEndIndex' = NoIndex => SettledBefore(startIndex)'
    <3>1. inputEndIndex' = NoIndex => startIndex' = TreeSize(curCheckpoint)
      BY <1>1, <1>8 DEF RangeInv
    <3> QED  BY <2>1, <3>1 DEF SettledBefore, Below
  <2> QED  BY <1>4, <1>6, <1>8, <2>2, <2>3 DEF PlaceInv
<1> QED  BY <1>1, <1>7, <1>8

\* The round ends with its tree head settled, stored or not.
LEMMA WrittenPlace ==
  ASSUME Shape, Shape', Grows, PlaceInv, pc \in {"write", "flush"},
         anchor' \in {anchor, curCheckpoint}, CheckpointHandled
  PROVE  PlaceInv'
<1> SUFFICES ASSUME ~rewritten' PROVE PlaceInv'
  BY DEF PlaceInv
<1>1. /\ SettledBelow(curCheckpoint)
      /\ startIndex # NoIndex /\ inputEndIndex = NoIndex => SettledBefore(startIndex)
      /\ anchor # NoCheckpoint => SettledBelow(anchor)
      /\ answer' # {} => pc' = "search"
  BY DEF PlaceInv, Grows, Shape, AnswerInv
<1>2. \/ pc' = "down"
      \/ pc' = "wait" /\ startIndex' = startIndex /\ inputEndIndex = NoIndex
  BY DEF CheckpointHandled, LoopReturns
<1>3. anchor' # NoCheckpoint => SettledBelow(anchor)'
  <2>1. CASE anchor' = anchor
    BY <2>1, AnchorPlaceStays
  <2>2. CASE anchor' = curCheckpoint
    <3>1. Below(anchor)' = Below(curCheckpoint)
      BY <2>2 DEF Below, TreeSize
    <3> QED  BY <1>1, <3>1, SettledBelowStays DEF SettledBelow
  <2> QED  BY <2>1, <2>2
<1>4. pc' = "wait" /\ startIndex' # NoIndex => SettledBefore(startIndex)'
  BY <1>1, <1>2, SettledBeforeStays DEF SettledBefore
<1> QED  BY <1>1, <1>2, <1>3, <1>4 DEF PlaceInv

\* Every operation keeps the place settled.
LEMMA PlaceInductive ==
  ASSUME ~TornWrites, AnswersInFull, Shape, Shape', Grows, StoredInv, PrefixInv,
         RangeInv, OutboxInv, PlaceInv, [Next]_vars
  PROVE  PlaceInv'
<1>1. CASE LogAppends \/ LogRewrites \/ UNCHANGED vars
  BY <1>1, StutterPlace DEF LogAppends, LogRewrites, vars, loopVars, history
<1>2. CASE RoundStep
  <2>0. answer' # {} => pc' = "search" /\ answer' = answer
    BY <1>2 DEF RoundStep, LogUnchanged
  <2>1. CASE Start
    <3>1. /\ pc' = "check" /\ anchor' = anchor
          /\ startIndex' # NoIndex => 0..startIndex' \subseteq waived'
      BY <2>1 DEF Start, StartProcess
    <3>2. startIndex' \in OptionalIndex
      BY DEF Shape, ProcessShape, ProcessTypeOK, LoopTypeOK
    <3>3. startIndex' # NoIndex => SettledBefore(startIndex)'
      <4>1. \A n \in Int : 0..(n - 1) \subseteq 0..n
        OBVIOUS
      <4>2. startIndex' # NoIndex => startIndex' \in Int
        BY <3>2 DEF OptionalIndex, Index
      <4>3. startIndex' # NoIndex => 0..(startIndex' - 1) \subseteq waived'
        BY <3>1, <4>1, <4>2
      <4> QED  BY <4>3 DEF SettledBefore, Settled
    <3> QED  BY <2>0, <3>1, <3>3, AnchorPlaceStays DEF PlaceInv
  <2>2. CASE Ends
    BY <2>2, ReturnsPlace, EndForgets DEF LoopReturns, history
  <2>3. CASE Signal
    <3>1. UNCHANGED <<pc, startIndex, endIndex, inputEndIndex, curCheckpoint,
                      anchor, found, failed>>
      BY <2>3 DEF Signal, CatchSignal, roundVars, history
    <3>2. answer' = answer
      BY <1>2, <3>1 DEF RoundStep, LogUnchanged, Shape, AnswerInv
    <3> QED  BY <3>1, <3>2, StutterPlace
  <2>4. CASE ConsistencyFails
    <3>1. CASE flags.once
      BY <2>4, <3>1, ReturnsPlace DEF ConsistencyFails, CheckFails, LoopReturns,
         history
    <3>2. CASE ~flags.once
      BY <2>4, <3>2, StutterPlace DEF ConsistencyFails, CheckFails, roundVars,
         history
    <3> QED  BY <3>1, <3>2
  <2>5. CASE (pc = "search" /\ answer # {} /\ RecordSucceeds) \/ Notify
    BY <2>5, SearchedPlace
  <2>6. CASE CheckpointKept
    BY <2>6, WrittenPlace DEF CheckpointKept, history
  <2>7. CASE CheckpointTruncated
    BY <2>7, StutterPlace DEF CheckpointTruncated, roundVars, history
  <2>8. CASE CheckpointFlushed
    BY <2>8, WrittenPlace DEF CheckpointFlushed
  <2>9. CASE NextRound
    <3>1. /\ pc = "wait" /\ pc' = "check" /\ startIndex' = startIndex
          /\ anchor' = anchor
      BY <2>9 DEF NextRound, Tick, history
    <3>2. ASSUME ~rewritten', startIndex' # NoIndex PROVE SettledBefore(startIndex)'
      BY <3>1, <3>2, SettledBeforeStays DEF PlaceInv, SettledBefore, Grows
    <3> QED  BY <2>0, <3>1, <3>2, AnchorPlaceStays DEF PlaceInv
  <2> QED
    BY <1>2, <2>1, <2>2, <2>3, <2>4, <2>5, <2>6, <2>7, <2>8, <2>9 DEF RoundStep
<1>3. CASE RunConsistencyCheck
  BY <1>3, CheckPlace
<1>4. CASE GetCTLogEntries
  BY <1>4, AnswerPlace
<1> QED
  BY <1>1, <1>2, <1>3, <1>4, NextSorts DEF Shape

\* The inductive invariant of the audit.
AuditInv == SafetyInv /\ ListsInv /\ PrefixInv /\ RangeInv /\ OutboxInv /\ PlaceInv

\* At first nothing is found, stored or owed.
LEMMA InitAudit == Init => AuditInv
<1> SUFFICES ASSUME Init PROVE AuditInv
  OBVIOUS
<1>1. /\ pc = "down" /\ anchor = NoCheckpoint /\ found = {} /\ failed = {}
      /\ searched = {} /\ file = EmptyFile /\ log = <<>> /\ answer = {}
  BY DEF Init, ProcessInit, LoopInit
<1>2. SafetyInv
  BY <1>1, InitShape, TreeHeadAssumption DEF SafetyInv, StoredInv, Stored
<1>3. ListsInv /\ RangeInv /\ OutboxInv /\ PlaceInv
  BY <1>1 DEF ListsInv, RangeInv, OutboxInv, PlaceInv
<1>4. PrefixInv
  <2>1. Len(log) = 0
    BY <1>1
  <2> QED  BY <1>1, <2>1, CTAssumption DEF PrefixInv
<1> QED  BY <1>2, <1>3, <1>4 DEF AuditInv

\* Every step keeps it.
LEMMA AuditStep ==
  ASSUME ~TornWrites, AnswersInFull, AuditInv, [Next]_vars
  PROVE  AuditInv' /\ Grows
<1>1. Shape /\ StoredInv
  BY DEF AuditInv, SafetyInv
<1>2. Shape' /\ StoredInv'
  BY <1>1, ShapeInductive, StoredInductive
<1>3. Grows
  BY <1>1, EverythingGrows
<1>4. ListsInv' /\ PrefixInv' /\ RangeInv'
  BY <1>1, <1>2, <1>3, ListsInductive, PrefixInductive, RangeInductive DEF AuditInv
<1>5. OutboxInv' /\ PlaceInv'
  BY <1>1, <1>2, <1>3, OutboxInductive, PlaceInductive DEF AuditInv
<1> QED  BY <1>2, <1>3, <1>4, <1>5 DEF AuditInv, SafetyInv

\* No tree head is stored before the entries it commits to have been fetched, as
\* long as the log is append-only and answers in full, and no write of the tree
\* head is cut short: the range may begin at an entry it had already and ends
\* beyond the tree, but skips nothing.
THEOREM NoGap ==
  ASSUME ~TornWrites, AnswersInFull
  PROVE  Spec => []Coverage
<1>1. AuditInv /\ [Next]_vars => AuditInv'
  BY AuditStep
<1>2. AuditInv => Coverage
  BY DEF AuditInv, PlaceInv, SettledBelow, Settled, Done, Coverage
<1> QED  BY <1>1, <1>2, InitAudit, PTL DEF Spec

\* Nor before everything in it that matters is recorded and reported.
THEOREM NothingUntold ==
  ASSUME ~TornWrites, AnswersInFull
  PROVE  Spec => []Delivery
<1>1. AuditInv /\ [Next]_vars => AuditInv'
  BY AuditStep
<1>2. AuditInv => Delivery
  <2> SUFFICES ASSUME AuditInv, anchor # NoCheckpoint, ~rewritten,
                      NEW i \in Below(anchor) \ waived, NEW n \in 1..Len(Platforms)
               PROVE  /\ EntryAt(i) \in Matching =>
                           /\ i \in recorded
                           /\ <<"found", Platforms[n], i>> \in delivered
                      /\ EntryAt(i) \in Unreadable =>
                           <<"failed", Platforms[n], i>> \in delivered
    BY DEF Delivery
  <2>1. Done(i)
    BY DEF AuditInv, PlaceInv, SettledBelow, Settled
  <2> QED  BY <2>1 DEF Done, KindOf, Payloads
<1> QED  BY <1>1, <1>2, InitAudit, PTL DEF Spec

-----------------------------------------------------------------------------
(* The refinement.                                                         *)

\* Both modules take IsPrefix from the same place.
LEMMA SamePrefix ==
  \A c, d : Audit!IsPrefix(c, d) <=> IsPrefix(c, d)
  BY DEF IsPrefix, Audit!IsPrefix

\* A monitor that has not started has promised nothing.
LEMMA AuditStarts == Init => Audit!Init
<1> SUFFICES ASSUME Init PROVE Audit!Init
  OBVIOUS
<1>1. log \in Seq(Entries)
  BY InitShape DEF Shape, TreeHead
<1>2. ~rewritten = TRUE
  BY DEF Init
<1>3. /\ anchor = NoCheckpoint /\ searched = {} /\ waived = {} /\ recorded = {}
      /\ delivered = {}
  BY DEF Init, ProcessInit
<1> QED  BY <1>1, <1>2, <1>3 DEF Audit!Init

\* What a list holds is a justified report.
LEMMA ListedJustified ==
  ASSUME ListsInv, pc \in {"search", "notify"},
         NEW payload \in Payloads, NEW i \in Listed(payload)
  PROVE  Audit!Justified(payload, i)
<1>1. i \in searched /\ (~rewritten => IsOf(i, KindOf(payload)))
  BY DEF ListsInv
<1>2. Audit!Kind(payload) = KindOf(payload) /\ Audit!Indices(log) = 0..(Len(log) - 1)
  BY DEF Audit!Kind, KindOf, Audit!Indices
<1> QED  BY <1>1, <1>2 DEF Audit!Justified, IsOf, EntryAt

\* What is settled is dealt with.
LEMMA SettledDealtWith ==
  ASSUME NEW i, Settled(i)
  PROVE  Audit!DealtWith(i)
<1>1. CASE i \in waived
  BY <1>1 DEF Audit!DealtWith
<1>2. CASE Done(i)
  <2>1. /\ i \in searched /\ i \in 0..(Len(log) - 1)
        /\ log[i + 1] \in Matching => i \in recorded
    BY <1>2 DEF Done, EntryAt
  <2>2. ASSUME NEW payload \in Payloads, NEW n \in 1..Len(Platforms),
               log[i + 1] \in Audit!Kind(payload)
        PROVE  <<payload, Platforms[n], i>> \in delivered
    BY <1>2, <2>2 DEF Done, EntryAt, KindOf, Audit!Kind
  <2> QED  BY <2>1, <2>2 DEF Audit!DealtWith, Audit!Indices, Payloads
<1> QED  BY <1>1, <1>2 DEF Settled

\* The steps in which the monitor does what it promises.
LEMMA NotifyTells ==
  ASSUME AuditInv, Notify, log' = log, rewritten' = rewritten
  PROVE  Audit!Tell
<1>1. /\ pc = "notify"
      /\ delivered' = delivered \cup
           {<<Head(outbox).payload, Head(outbox).platform, j>> :
              j \in Reported(Head(outbox))}
      /\ UNCHANGED <<recorded, searched, waived, anchor>>
  BY DEF Notify, SendSucceeds, files
<1>2. Head(outbox) \in Sends
  <2>1. outbox \in Seq(Sends) /\ outbox # <<>>
    BY <1>1 DEF AuditInv, SafetyInv, Shape, ProcessShape, ProcessTypeOK, LoopTypeOK
  <2> QED  BY <2>1, HeadTailProperties
<1>3. Head(outbox).payload \in Payloads
  BY <1>2 DEF Sends
<1>4. Reported(Head(outbox)) = Listed(Head(outbox).payload)
  BY DEF Reported, Listed
<1>5. ASSUME NEW report \in delivered' \ delivered
      PROVE  Audit!Justified(report[1], report[3])
  <2>1. PICK j \in Reported(Head(outbox)) :
               report = <<Head(outbox).payload, Head(outbox).platform, j>>
    BY <1>1, <1>5
  <2>2. Audit!Justified(Head(outbox).payload, j)
    BY <1>1, <1>3, <1>4, ListedJustified DEF AuditInv
  <2>3. report[1] = Head(outbox).payload /\ report[3] = j
    BY <2>1
  <2> QED  BY <2>2, <2>3
<1> QED  BY <1>1, <1>5 DEF Audit!Tell

LEMMA FlushTrusts ==
  ASSUME AuditInv, CheckpointFlushed, log' = log, rewritten' = rewritten
  PROVE  Audit!Trust
<1>1. /\ pc = "flush" /\ anchor' = curCheckpoint
      /\ UNCHANGED <<recorded, searched, waived, delivered>>
  BY DEF CheckpointFlushed
<1>2. curCheckpoint \in Seq(Entries)
  BY <1>1 DEF AuditInv, SafetyInv, Shape, ProcessShape, TreeHead
<1>3. anchor # NoCheckpoint => IsPrefix(anchor, curCheckpoint)
  BY <1>1 DEF AuditInv, SafetyInv, StoredInv
<1>4. ASSUME ~rewritten PROVE IsPrefix(curCheckpoint, log)
  BY <1>1, <1>4 DEF AuditInv, PrefixInv
<1>5. ASSUME ~rewritten, NEW i \in Audit!Indices(curCheckpoint)
      PROVE  Audit!DealtWith(i)
  <2>1. SettledBelow(curCheckpoint)
    BY <1>1, <1>5 DEF AuditInv, PlaceInv
  <2>2. i \in Below(curCheckpoint)
    BY <1>5 DEF Audit!Indices, Below, TreeSize
  <2> QED  BY <2>1, <2>2, SettledDealtWith DEF SettledBelow
<1> QED  BY <1>1, <1>2, <1>3, <1>4, <1>5, SamePrefix DEF Audit!Trust

LEMMA SearchRecords ==
  ASSUME AuditInv, pc = "search", recorded \subseteq recorded',
         recorded' \subseteq recorded \cup found,
         UNCHANGED <<log, rewritten, searched, waived, delivered, anchor>>
  PROVE  Audit!Examine
<1>1. ASSUME NEW i \in recorded' \ recorded PROVE Audit!Justified("found", i)
  <2>1. i \in Listed("found") /\ "found" \in Payloads
    BY <1>1 DEF Listed, Payloads
  <2> QED  BY <2>1, ListedJustified DEF AuditInv
<1> QED  BY <1>1 DEF Audit!Examine, Audit!Justified, Audit!Indices

\* Every step of the monitor is a step of the promise or none.
LEMMA AuditStepImplements ==
  ASSUME AuditInv, [Next]_vars
  PROVE  [Audit!Next]_(Audit!auditVars)
<1> DEFINE Same == UNCHANGED <<log, rewritten, anchor, searched, waived, recorded,
                               delivered>>
<1>1. Same => UNCHANGED Audit!auditVars
  BY DEF Audit!auditVars
<1>2. Shape /\ Shape'
  BY ShapeInductive DEF AuditInv, SafetyInv
<1>3. log \in Seq(Entries) /\ log' \in Seq(Entries)
  BY <1>2 DEF Shape, TreeHead
<1>4. CASE LogAppends
  <2>1. UNCHANGED <<rewritten, anchor, searched, waived, recorded, delivered>>
    BY <1>4 DEF LogAppends, files, history
  <2>2. IsPrefix(log, log')
    <3>1. PICK e \in Entries : log' = Append(log, e)
      BY <1>4 DEF LogAppends
    <3> QED  BY <1>3, <3>1, AppendPrefix
  <2>3. Audit!Grow
    BY <1>3, <2>1, <2>2, SamePrefix DEF Audit!Grow
  <2> QED  BY <2>3 DEF Audit!Next
<1>5. CASE LogRewrites
  <2>1. /\ rewritten' = TRUE
        /\ UNCHANGED <<anchor, searched, waived, recorded, delivered>>
    BY <1>5 DEF LogRewrites, files, history
  <2>2. Audit!Cheat
    BY <1>3, <2>1 DEF Audit!Cheat
  <2> QED  BY <2>2 DEF Audit!Next
<1>6. CASE RoundStep
  <2>1. log' = log /\ rewritten' = rewritten
    BY <1>6 DEF RoundStep, LogUnchanged
  <2>2. CASE Start
    <3>1. /\ waived \subseteq waived'
          /\ UNCHANGED <<recorded, searched, delivered, anchor>>
      BY <2>2 DEF Start, files
    <3>2. Audit!Excuse
      BY <2>1, <3>1 DEF Audit!Excuse
    <3> QED  BY <3>2 DEF Audit!Next
  <2>3. CASE Notify
    BY <2>1, <2>3, NotifyTells DEF Audit!Next
  <2>4. CASE CheckpointFlushed
    BY <2>1, <2>4, FlushTrusts DEF Audit!Next
  <2>5. CASE pc = "search" /\ answer # {} /\ RecordSucceeds
    <3>1. /\ recorded' = recorded \cup found
          /\ UNCHANGED <<searched, waived, delivered, anchor>>
      BY <2>5 DEF RecordSucceeds, history
    <3> QED  BY <2>1, <2>5, <3>1, SearchRecords DEF Audit!Next
  <2>6. CASE Ends
    <3>1. UNCHANGED <<searched, waived, delivered, anchor>>
      BY <2>6, EndForgets DEF history
    <3>2. CASE pc = "search" /\ RecordFails
      <4>1. PICK written \in SUBSET found : recorded' = recorded \cup written
        BY <3>2 DEF RecordFails
      <4> QED  BY <2>1, <3>1, <3>2, <4>1, SearchRecords DEF Audit!Next
    <3>3. CASE ~(pc = "search" /\ RecordFails)
      <4>1. recorded' = recorded
        BY <2>6, <3>3 DEF Ends, Crash, FetchFails, NotifyFails, CheckpointNotOpened,
           GracefulExit, RangeRefused, WriteFails, files
      <4> QED  BY <2>1, <3>1, <4>1, <1>1
    <3> QED  BY <3>2, <3>3
  <2>7. CASE Signal \/ ConsistencyFails \/ (KeepsTreeHead /\ CheckpointKept)
             \/ CheckpointTruncated \/ NextRound
    <3>1. Same
      BY <2>1, <2>7 DEF Signal, ConsistencyFails, CheckpointKept, CheckpointTruncated,
         NextRound, files, history
    <3> QED  BY <3>1, <1>1
  <2> QED  BY <1>6, <2>2, <2>3, <2>4, <2>5, <2>6, <2>7 DEF RoundStep
<1>7. CASE RunConsistencyCheck
  <2>1. /\ waived \subseteq waived'
        /\ UNCHANGED <<log, rewritten, recorded, searched, delivered, anchor>>
    BY <1>7 DEF RunConsistencyCheck, ConsistencyPasses, LogUnchanged, files
  <2>2. Audit!Excuse
    BY <2>1 DEF Audit!Excuse
  <2> QED  BY <2>2 DEF Audit!Next
<1>8. CASE GetCTLogEntries
  <2>1. /\ searched' = searched \cup Answer
        /\ UNCHANGED <<log, rewritten, recorded, waived, delivered, anchor>>
    BY <1>8 DEF GetCTLogEntries, files
  <2>2. Answer \subseteq 0..(Len(log) - 1)
    BY <1>2, <1>8, AnswerBounds
  <2>3. Audit!Examine
    BY <2>1, <2>2 DEF Audit!Examine, Audit!Indices
  <2> QED  BY <2>3 DEF Audit!Next
<1>9. CASE UNCHANGED vars
  <2>1. Same
    BY <1>9 DEF vars, files, history
  <2> QED  BY <2>1, <1>1
<1> QED
  BY <1>2, <1>4, <1>5, <1>6, <1>7, <1>8, <1>9, NextSorts DEF Shape

\* The monitor of a certificate transparency log implements LogAudit, as that of a
\* Rekor v1 log does: whatever fails, it reports only what it has looked at and what
\* is so, takes no report back, and trusts a tree head only when it extends the last
\* one and everything it commits to is dealt with.
THEOREM PromiseKept ==
  ASSUME ~TornWrites, AnswersInFull
  PROVE  Spec => KeepsPromise
<1>1. AuditInv /\ [Next]_vars => AuditInv'
  BY AuditStep
<1>2. AuditInv /\ [Next]_vars => [Audit!Next]_(Audit!auditVars)
  BY AuditStepImplements
<1> QED
  BY <1>1, <1>2, InitAudit, AuditStarts, PTL DEF Spec, KeepsPromise, Audit!Spec
=============================================================================
