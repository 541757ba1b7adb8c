--------------------------------- MODULE Retry ---------------------------------
(***************************************************************************)
(* Retry of pkg/util/retry.go: one call at a time of a function f that     *)
(* asks a log for something, repeated with a growing pause.                *)
(*                                                                         *)
(* Time is counted in milliseconds since the call began.  It passes while  *)
(* f runs and while the select waits; a channel that is ready is taken     *)
(* before more time passes, so the timer and the context are both ready    *)
(* only when the context is cancelled after the timer fired.  What f       *)
(* returns, and after how long, is up to the log: one of Durations.        *)
(***************************************************************************)
EXTENDS Integers, Sequences

CONSTANTS
  OptionLists,    \* the option lists a caller may give
  Durations,      \* how long an attempt may take
  NoConfig        \* the configuration of no call

Fields == {"MaxAttempts", "InitialInterval", "MaxInterval", "Multiplier",
           "MaxElapsedTime"}

RetryConfig == [Fields -> Int]

\* A multiplier is written in hundredths: the code's 1.5 is 150.
One == 100

DefaultRetryConfig ==
  [MaxAttempts |-> 5, InitialInterval |-> 1000, MaxInterval |-> 5000,
   Multiplier |-> 150, MaxElapsedTime |-> 30000]

\* An option sets a field; the With... functions of this package do so only to a
\* value that makes sense (guarded), a function of the caller's own to any.
Option == [field : Fields, value : Int, guarded : BOOLEAN]

ASSUME RetryAssumption ==
  /\ OptionLists \subseteq Seq(Option)
  /\ Durations \subseteq Nat
  /\ NoConfig \notin RetryConfig

VARIABLES
  stage,          \* where the call is: PCs of Retry, or "idle"
  options,        \* the options it was given
  applied,        \* how many of them have been applied
  config,         \* its configuration
  attempt,        \* the number of the attempt it is at
  currentInterval,\* the pause after the next failure
  elapsed,        \* milliseconds since it began
  fired,          \* time.After has sent its tick, which nobody took yet
  done,           \* ctx.Done() is closed
  outcome         \* how the last call ended

\* History: attempts begun after ctx.Done() was closed.
VARIABLE lateAttempts

retryVars == <<stage, options, applied, config, attempt, currentInterval, elapsed,
               fired, done, outcome, lateAttempts>>

\* What stays as it is once the loop has begun.
settings == <<options, applied, config>>

Stages == {"idle", "options", "top", "attempt", "failed", "select"}

\* "invalid": validateRetryConfig; "elapsed": MaxElapsedTime; "unrecoverable": a
\* RetryError that should not be retried; "exhausted": MaxAttempts; "cancelled":
\* ctx.Done().
Outcomes == {"none", "ok", "invalid", "elapsed", "unrecoverable", "exhausted",
             "cancelled"}

RetryInit ==
  /\ stage = "idle"
  /\ options = <<>>
  /\ applied = 0
  /\ config = NoConfig
  /\ attempt = 0
  /\ currentInterval = 0
  /\ elapsed = 0
  /\ fired = FALSE
  /\ done = FALSE
  /\ outcome = "none"
  /\ lateAttempts = 0

-----------------------------------------------------------------------------
(* The configuration.                                                      *)

\* What the guard of a With... function, and validateRetryConfig, asks of a field.
Sensible(field, value) == IF field = "Multiplier" THEN value > One ELSE value > 0

Apply(cfg, option) ==
  IF option.guarded /\ ~Sensible(option.field, option.value)
  THEN cfg
  ELSE [cfg EXCEPT ![option.field] = option.value]

Valid(cfg) == \A field \in Fields : Sensible(field, cfg[field])

-----------------------------------------------------------------------------
(* The loop.                                                               *)

\* What a call that is over leaves behind: its outcome.
Return(how) ==
  /\ stage' = "idle"
  /\ outcome' = how
  /\ options' = <<>>
  /\ applied' = 0
  /\ config' = NoConfig
  /\ attempt' = 0
  /\ currentInterval' = 0
  /\ elapsed' = 0
  /\ fired' = FALSE
  /\ done' = FALSE
  /\ lateAttempts' = 0

\* The call begins; cancelled says whether its context already is.
Call(opts, cancelled) ==
  /\ stage = "idle"
  /\ stage' = "options"
  /\ options' = opts
  /\ applied' = 0
  /\ config' = DefaultRetryConfig
  /\ done' = cancelled
  /\ outcome' = "none"
  /\ UNCHANGED <<attempt, currentInterval, elapsed, fired, lateAttempts>>

\* The options are applied in their order.
ApplyOption ==
  /\ stage = "options"
  /\ applied < Len(options)
  /\ config' = Apply(config, options[applied + 1])
  /\ applied' = applied + 1
  /\ UNCHANGED <<stage, options, attempt, currentInterval, elapsed, fired, done,
                 outcome, lateAttempts>>

ConfigAccepted ==
  /\ stage = "options"
  /\ applied = Len(options)
  /\ Valid(config)
  /\ stage' = "top"
  /\ attempt' = 1
  /\ currentInterval' = config["InitialInterval"]
  /\ UNCHANGED <<settings, elapsed, fired, done, outcome, lateAttempts>>

ConfigRefused ==
  /\ stage = "options"
  /\ applied = Len(options)
  /\ ~Valid(config)
  /\ Return("invalid")

\* Mutation: the time is looked at only when all attempts are used up.
GivesUp_Last == /\ stage = "top"
                /\ elapsed > config["MaxElapsedTime"]
                /\ attempt = config["MaxAttempts"]

GivesUp == stage = "top" /\ elapsed > config["MaxElapsedTime"]

TimeExceeded ==
  /\ GivesUp
  /\ Return("elapsed")

BeginAttempt ==
  /\ stage = "top"
  /\ ~GivesUp
  /\ stage' = "attempt"
  /\ lateAttempts' = lateAttempts + (IF done THEN 1 ELSE 0)
  /\ UNCHANGED <<settings, attempt, currentInterval, elapsed, fired, done, outcome>>

Succeeds ==
  /\ stage = "attempt"
  /\ Return("ok")

\* f fails with an error that is not a RetryError, or one that should be retried.
Fails ==
  /\ stage = "attempt"
  /\ \E d \in Durations : elapsed' = elapsed + d
  /\ stage' = "failed"
  /\ UNCHANGED <<settings, attempt, currentInterval, fired, done, outcome,
                 lateAttempts>>

\* f fails with a RetryError whose ShouldRetry is false.
FailsForGood ==
  /\ stage = "attempt"
  /\ Return("unrecoverable")

AttemptsExhausted ==
  /\ stage = "failed"
  /\ attempt = config["MaxAttempts"]
  /\ Return("exhausted")

Pause ==
  /\ stage = "failed"
  /\ attempt # config["MaxAttempts"]
  /\ stage' = "select"
  /\ UNCHANGED <<settings, attempt, currentInterval, elapsed, fired, done, outcome,
                 lateAttempts>>

\* Mutation: time.Sleep in place of the select, which then finds the context done.
TimerFires_Sleep ==
  /\ stage = "select"
  /\ ~fired
  /\ fired' = TRUE
  /\ elapsed' = elapsed + currentInterval
  /\ UNCHANGED <<stage, settings, attempt, currentInterval, done, outcome,
                 lateAttempts>>

\* time.After sends its tick.
TimerFires ==
  /\ stage = "select"
  /\ ~fired
  /\ ~done
  /\ fired' = TRUE
  /\ elapsed' = elapsed + currentInterval
  /\ UNCHANGED <<stage, settings, attempt, currentInterval, done, outcome,
                 lateAttempts>>

\* The next pause is longer, up to MaxInterval.
NextInterval ==
  LET longer == (currentInterval * config["Multiplier"]) \div One
  IN IF longer > config["MaxInterval"] THEN config["MaxInterval"] ELSE longer

TryAgain ==
  /\ stage = "select"
  /\ fired
  /\ stage' = "top"
  /\ attempt' = attempt + 1
  /\ currentInterval' = NextInterval
  /\ fired' = FALSE
  /\ UNCHANGED <<settings, elapsed, done, outcome, lateAttempts>>

Cancelled ==
  /\ stage = "select"
  /\ done
  /\ Return("cancelled")

\* The caller's context is cancelled in the middle of the call.
CancelContext ==
  /\ stage # "idle"
  /\ ~done
  /\ done' = TRUE
  /\ UNCHANGED <<stage, settings, attempt, currentInterval, elapsed, fired, outcome,
                 lateAttempts>>

\* The process ends, and with it the call and what is known of the last one.
Abandoned == Return("none")

\* A step of a call without options whose f never returns a RetryError: as all
\* calls of this repository are.
PlainStep ==
  \/ ConfigAccepted
  \/ TimeExceeded
  \/ BeginAttempt
  \/ Succeeds
  \/ Fails
  \/ AttemptsExhausted
  \/ Pause
  \/ TimerFires
  \/ TryAgain
  \/ Cancelled

RetryNext ==
  \/ \E opts \in OptionLists, cancelled \in BOOLEAN : Call(opts, cancelled)
  \/ ApplyOption
  \/ ConfigRefused
  \/ CancelContext
  \/ PlainStep
  \/ FailsForGood
  \/ Abandoned

RetrySpec == RetryInit /\ [][RetryNext]_retryVars

-----------------------------------------------------------------------------
(* Properties.                                                             *)

RetryTypeOK ==
  /\ stage \in Stages
  /\ config \in RetryConfig \cup {NoConfig}
  /\ stage # "idle" => config \in RetryConfig
  /\ stage \notin {"idle", "options"} => Valid(config)
  /\ options \in Seq(Option)
  /\ applied \in 0..Len(options)
  /\ attempt \in Nat
  /\ currentInterval \in Nat
  /\ elapsed \in Nat
  /\ {fired, done} \subseteq BOOLEAN
  /\ outcome \in Outcomes
  /\ lateAttempts \in Nat

\* The time limit holds although it is looked at only between attempts: whatever
\* the log does, a call that is in progress has taken no longer than
\* MaxElapsedTime, one more attempt and one more pause.
InTime ==
  stage \notin {"idle", "options"} =>
    \E d \in Durations \cup {0}, pause \in {"InitialInterval", "MaxInterval"} :
      elapsed <= config["MaxElapsedTime"] + d + config[pause]

\* "It stops on ... context cancellation": at most one attempt begins after the
\* context is cancelled, the one the timer had already allowed or, when it was
\* cancelled before, the first.
StopsOnCancellation == lateAttempts <= 1

\* The guards of the With... functions agree with validateRetryConfig: a call that
\* is refused was given an option of the caller's own.
OptionsKeepValid ==
  [][outcome' = "invalid" /\ outcome # "invalid" =>
       \E i \in 1..Len(options) : ~options[i].guarded]_retryVars
=============================================================================
