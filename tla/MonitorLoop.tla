------------------------------ MODULE MonitorLoop ------------------------------
(***************************************************************************)
(* The loop every monitor of this repository runs: MonitorLoop of          *)
(* internal/cmd/common.go, with the process around it.  A round is         *)
(*                                                                         *)
(*   check  -> search -> notify -> write -> wait -> check ...              *)
(*                                                                         *)
(* and everything a log needs of its own (the consistency check, the two   *)
(* index functions, the identity search, the checkpoint file) is reached   *)
(* through the MonitorLogic interface.  The modules that implement that    *)
(* interface extend this one: an action below takes the RESULT of an       *)
(* interface call as its parameters, and does everything the loop does     *)
(* from there to its next call.                                            *)
(*                                                                         *)
(* Indices are the int64s of the code, NoIndex its nil pointer;            *)
(* NoCheckpoint is the nil interface.  The process keeps nothing in memory *)
(* across a run, so a process that has stopped and one that has crashed    *)
(* are the same state, "down", from which the operator (a cron job, a      *)
(* restarting container) starts it again.                                  *)
(***************************************************************************)
EXTENDS Integers, Sequences, SequencesExt

CONSTANTS
  Platforms,      \* the configured notification platforms, in the pool's order
  Flags,          \* the command lines and configurations the operator may use
  NoIndex,        \* a nil *int64
  NoCheckpoint    \* a nil Checkpoint or LogInfo

Index == Int
OptionalIndex == Index \cup {NoIndex}

ASSUME NilAssumption == NoIndex \notin Int

\* once and monitored stand for --once and MonitoredValuesExist; start and end
\* are the startIndex and endIndex of the configuration.
ASSUME FlagsAssumption ==
  Flags \subseteq [once : BOOLEAN, monitored : BOOLEAN,
                   start : OptionalIndex, end : OptionalIndex]

ASSUME PlatformsAssumption == Platforms \in Seq(STRING)

VARIABLES
  pc,               \* the interface call the loop is about to make, or is in
  flags,            \* the member of Flags this process was started with
  startIndex,       \* config.StartIndex
  endIndex,         \* config.EndIndex
  inputEndIndex,    \* config.EndIndex as it was when the round began
  prevCheckpoint,   \* the checkpoint the round found in the file
  curCheckpoint,    \* the checkpoint the log served in this round
  found,            \* indices of the entries the search matched
  failed,           \* indices of the entries the search could not read
  outbox,           \* the Send calls this round still has to make
  signalled,        \* SIGINT or SIGTERM was caught: ctx.Done() is closed
  failureCounted    \* the failure counter was incremented in this round

loopVars == <<pc, flags, startIndex, endIndex, inputEndIndex, prevCheckpoint,
              curCheckpoint, found, failed, outbox, signalled, failureCounted>>

\* The part of the loop's memory a round starts from.
roundVars == <<prevCheckpoint, curCheckpoint, found, failed, outbox>>

PCs == {"down", "check", "search", "notify", "write", "flush", "wait"}

Payloads == {"found", "failed"}
Sends == [payload : Payloads, platform : STRING]

Running == pc # "down"

-----------------------------------------------------------------------------
(* The process.                                                            *)

\* What a process that is not running remembers: nothing.
Forget ==
  /\ startIndex' = NoIndex
  /\ endIndex' = NoIndex
  /\ inputEndIndex' = NoIndex
  /\ prevCheckpoint' = NoCheckpoint
  /\ curCheckpoint' = NoCheckpoint
  /\ found' = {}
  /\ failed' = {}
  /\ outbox' = <<>>
  /\ signalled' = FALSE
  /\ failureCounted' = FALSE

LoopInit ==
  /\ pc = "down"
  /\ flags \in Flags
  /\ startIndex = NoIndex
  /\ endIndex = NoIndex
  /\ inputEndIndex = NoIndex
  /\ prevCheckpoint = NoCheckpoint
  /\ curCheckpoint = NoCheckpoint
  /\ found = {}
  /\ failed = {}
  /\ outbox = <<>>
  /\ signalled = FALSE
  /\ failureCounted = FALSE

\* mainWithReturn: the configuration is loaded and the loop entered.
StartProcess ==
  /\ pc = "down"
  /\ \E f \in Flags :
       /\ flags' = f
       /\ startIndex' = f.start
       /\ endIndex' = f.end
       /\ inputEndIndex' = f.end
  /\ pc' = "check"
  /\ UNCHANGED <<roundVars, signalled, failureCounted>>

\* MonitorLoop returns; main returns 0 whatever the reason.
LoopReturns ==
  /\ pc' = "down"
  /\ Forget
  /\ UNCHANGED flags

\* The process is killed, or dies, between two calls.
ProcessDies ==
  /\ Running
  /\ LoopReturns

\* signal.NotifyContext: the first SIGINT or SIGTERM closes ctx.Done().
CatchSignal ==
  /\ Running
  /\ ~signalled
  /\ signalled' = TRUE
  /\ UNCHANGED <<pc, flags, startIndex, endIndex, inputEndIndex, roundVars,
                 failureCounted>>

-----------------------------------------------------------------------------
(* RunConsistencyCheck has answered.                                       *)

CheckFails ==
  /\ pc = "check"
  /\ IF flags.once
     THEN LoopReturns
     ELSE /\ pc' = "wait"
          /\ failureCounted' = TRUE
          /\ UNCHANGED <<flags, startIndex, endIndex, inputEndIndex, roundVars,
                         signalled>>

\* The range the round will search: what the configuration says, else what the
\* two checkpoints say (first and last are what GetStartIndex and GetEndIndex
\* would return).
RangeStart(prev, first) ==
  IF startIndex = NoIndex /\ prev # NoCheckpoint THEN first ELSE startIndex

RangeEnd(last) ==
  IF endIndex = NoIndex THEN last ELSE endIndex

\* prev and cur are consistent, and the loop goes on to its next call.
CheckPasses(prev, cur, first, last) ==
  LET from == RangeStart(prev, first)
      to   == RangeEnd(last)
  IN /\ pc = "check"
     /\ \/ \* nothing is monitored: the checkpoint is all there is to do
           /\ ~flags.monitored
           /\ pc' = "write"
           /\ UNCHANGED <<startIndex, endIndex>>
        \/ \* no range: "no start index set and no log checkpoint"
           /\ flags.monitored
           /\ NoIndex \in {from, to}
           /\ pc' = "write"
           /\ startIndex' = to
           /\ endIndex' = NoIndex
        \/ \* the range to search
           /\ flags.monitored
           /\ NoIndex \notin {from, to}
           /\ from <= to
           /\ pc' = "search"
           /\ startIndex' = from
           /\ endIndex' = to
     /\ prevCheckpoint' = prev
     /\ curCheckpoint' = cur
     /\ UNCHANGED <<flags, inputEndIndex, found, failed, outbox, signalled,
                    failureCounted>>

\* "start index must be less or equal than end index": the loop returns.
CheckRefusesRange(prev, first, last) ==
  /\ pc = "check"
  /\ flags.monitored
  /\ NoIndex \notin {RangeStart(prev, first), RangeEnd(last)}
  /\ RangeStart(prev, first) > RangeEnd(last)
  /\ LoopReturns

-----------------------------------------------------------------------------
(* IdentitySearch has answered, and the notifications go out.              *)

\* CreateNotificationPool and the two TriggerNotifications calls: the found
\* entries to every platform, then the failed entries to every platform; an
\* empty list is not sent.
SendsOf(payload) ==
  [i \in 1..Len(Platforms) |-> [payload |-> payload, platform |-> Platforms[i]]]

ToSend(foundEntries, failedEntries) ==
  (IF foundEntries = {} THEN <<>> ELSE SendsOf("found"))
    \o (IF failedEntries = {} THEN <<>> ELSE SendsOf("failed"))

\* Mutation: the range is not moved on.
Advance_Rescans ==
  /\ startIndex' = startIndex
  /\ endIndex' = NoIndex

\* The next round goes on where this one ended.
Advance ==
  /\ startIndex' = endIndex
  /\ endIndex' = NoIndex

SearchReturns(foundEntries, failedEntries) ==
  LET sends == ToSend(foundEntries, failedEntries)
  IN /\ found' = foundEntries
     /\ failed' = failedEntries
     /\ outbox' = sends
     /\ IF sends = <<>>
        THEN pc' = "write" /\ Advance
        ELSE pc' = "notify" /\ UNCHANGED <<startIndex, endIndex>>
     /\ UNCHANGED <<flags, inputEndIndex, prevCheckpoint, curCheckpoint,
                    signalled, failureCounted>>

\* The Send at the head of the outbox succeeds.
SendSucceeds ==
  /\ pc = "notify"
  /\ outbox' = Tail(outbox)
  /\ IF Len(outbox) = 1
     THEN pc' = "write" /\ Advance
     ELSE UNCHANGED <<pc, startIndex, endIndex>>
  /\ UNCHANGED <<flags, inputEndIndex, prevCheckpoint, curCheckpoint, found,
                 failed, signalled, failureCounted>>

\* Mutation: the error is logged and the next platform tried.
SendFails_GoesOn == SendSucceeds

\* It fails: the remaining platforms are not tried and the loop returns.
SendFails ==
  /\ pc = "notify"
  /\ LoopReturns

\* The indices a Send reports.
Reported(send) == IF send.payload = "found" THEN found ELSE failed

-----------------------------------------------------------------------------
(* WriteCheckpoint has answered, and the loop waits for the next round.    *)

CheckpointHandled ==
  IF flags.once \/ inputEndIndex # NoIndex
  THEN LoopReturns
  ELSE /\ pc' = "wait"
       /\ found' = {}
       /\ failed' = {}
       /\ UNCHANGED <<flags, startIndex, endIndex, inputEndIndex,
                      prevCheckpoint, curCheckpoint, outbox, signalled,
                      failureCounted>>

\* waitForTick: the select takes either ready channel, whichever it likes.
Tick ==
  /\ pc = "wait"
  /\ pc' = "check"
  /\ inputEndIndex' = endIndex
  /\ prevCheckpoint' = NoCheckpoint
  /\ curCheckpoint' = NoCheckpoint
  /\ failureCounted' = FALSE
  /\ UNCHANGED <<flags, startIndex, endIndex, found, failed, outbox, signalled>>

\* Mutation: the case of ctx.Done() does not return.
Shutdown_GoesOn ==
  /\ pc = "wait"
  /\ signalled
  /\ pc' = "check"
  /\ UNCHANGED <<flags, startIndex, endIndex, inputEndIndex, roundVars,
                 signalled, failureCounted>>

Shutdown ==
  /\ pc = "wait"
  /\ signalled
  /\ LoopReturns

-----------------------------------------------------------------------------
\* The types of the loop's own variables; Checkpoint is the type the extending
\* module gives to the two checkpoints.
LoopTypeOK(Checkpoint) ==
  /\ pc \in PCs
  /\ flags \in Flags
  /\ startIndex \in OptionalIndex
  /\ endIndex \in OptionalIndex
  /\ inputEndIndex \in OptionalIndex
  /\ prevCheckpoint \in Checkpoint \cup {NoCheckpoint}
  /\ curCheckpoint \in Checkpoint \cup {NoCheckpoint}
  /\ found \subseteq Index
  /\ failed \subseteq Index
  /\ outbox \in Seq(Sends)

LoopBooleansOK == {signalled, failureCounted} \subseteq BOOLEAN
=============================================================================
