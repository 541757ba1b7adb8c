------------------------------ MODULE RetryProofs ------------------------------
(***************************************************************************)
(* Theorems about Retry, for every list of options and every duration of   *)
(* an attempt.  The invariant says what each stage of a call knows of the  *)
(* time it has taken, of the timer and of the context.                     *)
(***************************************************************************)
EXTENDS Retry, TLAPS

\* The configuration of a call: whole from the start, and sensible once the loop
\* has begun, or as long as only guarded options have been applied.
ConfigInv ==
  /\ options \in Seq(Option)
  /\ applied \in 0..Len(options)
  /\ stage # "idle" => config \in RetryConfig
  /\ stage = "idle" => config = NoConfig
  /\ stage \notin {"idle", "options"} => Valid(config)
  /\ stage = "options" /\ (\A i \in 1..applied : options[i].guarded) => Valid(config)

\* The loop's own variables.
LoopInv ==
  /\ stage \in Stages
  /\ outcome \in Outcomes
  /\ attempt \in Nat
  /\ currentInterval \in Nat
  /\ elapsed \in Nat
  /\ lateAttempts \in Nat

FlagsInv ==
  /\ fired \in BOOLEAN
  /\ done \in BOOLEAN

\* The pause is one of the two intervals, or less.
Paused(t, interval) ==
  t <= interval["InitialInterval"] \/ t <= interval["MaxInterval"]

PauseInv == stage \notin {"idle", "options"} => Paused(currentInterval, config)

\* The time the call may have taken, from the last look at it.
Within(t, cfg) == t <= cfg["MaxElapsedTime"]
WithinAttempt(t, cfg) == \E d \in Durations \cup {0} : t <= cfg["MaxElapsedTime"] + d
WithinPause(t, cfg) ==
  \E d \in Durations \cup {0}, pause \in {"InitialInterval", "MaxInterval"} :
    t <= cfg["MaxElapsedTime"] + d + cfg[pause]

TimeInv ==
  /\ stage \in {"idle", "options"} => elapsed = 0
  /\ stage = "top" => WithinPause(elapsed, config)
  /\ stage = "attempt" => Within(elapsed, config)
  /\ stage = "failed" => WithinAttempt(elapsed, config)
  /\ stage = "select" /\ ~fired => WithinAttempt(elapsed, config)
  /\ stage = "select" /\ fired => WithinPause(elapsed, config)

\* A late attempt is the last: the select it leads to finds the context done, and
\* no timer running.
LateInv ==
  /\ fired => stage = "select"
  /\ ~done => lateAttempts = 0
  /\ stage \in {"idle", "options", "top"} => lateAttempts = 0
  /\ lateAttempts <= 1
  /\ lateAttempts = 1 => ~fired

IInv == ConfigInv /\ LoopInv /\ FlagsInv /\ PauseInv /\ TimeInv /\ LateInv

-----------------------------------------------------------------------------
\* The defaults are a sensible configuration.
LEMMA DefaultIsValid == DefaultRetryConfig \in RetryConfig /\ Valid(DefaultRetryConfig)
<1>1. /\ DefaultRetryConfig["MaxAttempts"] = 5
      /\ DefaultRetryConfig["InitialInterval"] = 1000
      /\ DefaultRetryConfig["MaxInterval"] = 5000
      /\ DefaultRetryConfig["Multiplier"] = 150
      /\ DefaultRetryConfig["MaxElapsedTime"] = 30000
  BY DEF DefaultRetryConfig, Fields
<1>2. \A f \in Fields : DefaultRetryConfig[f] \in Int
  BY <1>1 DEF Fields
<1>3. DefaultRetryConfig = [f \in Fields |-> DefaultRetryConfig[f]]
  BY DEF DefaultRetryConfig, Fields
<1>4. DefaultRetryConfig \in RetryConfig
  BY <1>2, <1>3 DEF RetryConfig
<1>5. Valid(DefaultRetryConfig)
  BY <1>1 DEF Valid, Sensible, Fields, One
<1> QED BY <1>4, <1>5

\* An option leaves a whole configuration whole, and a guarded one a sensible
\* configuration sensible.
LEMMA OptionsApply ==
  ASSUME NEW cfg \in RetryConfig, NEW option \in Option
  PROVE  /\ Apply(cfg, option) \in RetryConfig
         /\ option.guarded /\ Valid(cfg) => Valid(Apply(cfg, option))
<1>1. option.field \in Fields /\ option.value \in Int
  BY DEF Option
<1>2. [cfg EXCEPT ![option.field] = option.value] \in RetryConfig
  BY <1>1 DEF RetryConfig
<1>3. Apply(cfg, option) \in RetryConfig
  BY <1>2 DEF Apply
<1>4. ASSUME option.guarded, Valid(cfg) PROVE Valid(Apply(cfg, option))
  <2>1. CASE Sensible(option.field, option.value)
    <3>1. Apply(cfg, option) = [cfg EXCEPT ![option.field] = option.value]
      BY <2>1 DEF Apply
    <3>2. ASSUME NEW f \in Fields PROVE Sensible(f, Apply(cfg, option)[f])
      <4>1. CASE f = option.field
        BY <4>1, <3>1, <2>1, <1>1 DEF RetryConfig
      <4>2. CASE f # option.field
        <5>1. Apply(cfg, option)[f] = cfg[f]
          BY <4>2, <3>1, <1>1, <3>2 DEF RetryConfig
        <5> QED BY <5>1, <1>4, <3>2 DEF Valid
      <4> QED BY <4>1, <4>2
    <3> QED BY <3>2 DEF Valid
  <2>2. CASE ~Sensible(option.field, option.value)
    BY <2>2, <1>4 DEF Apply
  <2> QED BY <2>1, <2>2
<1> QED BY <1>3, <1>4

\* What a sensible configuration holds.
LEMMA ValidFields ==
  ASSUME NEW cfg \in RetryConfig, Valid(cfg)
  PROVE  /\ cfg["MaxAttempts"] \in Nat \ {0}
         /\ cfg["InitialInterval"] \in Nat \ {0}
         /\ cfg["MaxInterval"] \in Nat \ {0}
         /\ cfg["MaxElapsedTime"] \in Nat \ {0}
         /\ cfg["Multiplier"] \in Nat \ {0}
BY DEF RetryConfig, Valid, Sensible, Fields, One

\* The next pause is a number of milliseconds, and no longer than MaxInterval.
LEMMA NextPause ==
  ASSUME config \in RetryConfig, Valid(config), currentInterval \in Nat
  PROVE  NextInterval \in Nat /\ NextInterval <= config["MaxInterval"]
<1>1. config["Multiplier"] \in Nat /\ config["MaxInterval"] \in Nat
  BY ValidFields
<1> DEFINE product == currentInterval * config["Multiplier"]
           longer == product \div One
<1>2. product \in Nat
  BY <1>1
<1> HIDE DEF product
<1>3. longer \in Nat
  BY <1>2 DEF One
<1> HIDE DEF longer
<1>4. NextInterval = IF longer > config["MaxInterval"] THEN config["MaxInterval"]
                                                       ELSE longer
  BY DEF NextInterval, longer, product
<1> QED BY <1>1, <1>3, <1>4

-----------------------------------------------------------------------------
\* A call that is over is the initial state, but for its outcome.
LEMMA ReturnKeeps ==
  ASSUME NEW how \in Outcomes, Return(how)
  PROVE  IInv'
<1>1. Return(how)
  OBVIOUS
<1>2. <<>> \in Seq(Option) /\ Len(<<>>) = 0
  OBVIOUS
<1>3. ConfigInv'
  BY <1>1, <1>2 DEF Return, ConfigInv
<1>4. LoopInv' /\ PauseInv' /\ TimeInv' /\ LateInv'
  BY <1>1 DEF Return, LoopInv, PauseInv, TimeInv, LateInv, Stages
<1>5. FlagsInv'
  BY <1>1 DEF Return, FlagsInv
<1> QED BY <1>3, <1>4, <1>5 DEF IInv

LEMMA InitInv == RetryInit => IInv
<1> SUFFICES ASSUME RetryInit PROVE IInv
  OBVIOUS
<1>1. <<>> \in Seq(Option) /\ Len(<<>>) = 0
  OBVIOUS
<1>2. ConfigInv
  BY <1>1 DEF RetryInit, ConfigInv
<1>3. LoopInv /\ PauseInv /\ TimeInv /\ LateInv
  BY DEF RetryInit, LoopInv, PauseInv, TimeInv, LateInv, Stages, Outcomes
<1>4. FlagsInv
  BY DEF RetryInit, FlagsInv
<1> QED BY <1>2, <1>3, <1>4 DEF IInv

LEMMA CallKeeps ==
  ASSUME IInv, NEW opts \in OptionLists, NEW cancelled \in BOOLEAN,
         Call(opts, cancelled)
  PROVE  IInv'
<1>1. opts \in Seq(Option)
  BY RetryAssumption
<1>2. ConfigInv'
  BY <1>1, DefaultIsValid DEF Call, ConfigInv
<1>3. LoopInv' /\ PauseInv' /\ TimeInv' /\ LateInv'
  BY DEF IInv, Call, LoopInv, PauseInv, TimeInv, LateInv, Stages, Outcomes
<1>4. FlagsInv'
  BY DEF IInv, Call, FlagsInv
<1> QED BY <1>2, <1>3, <1>4 DEF IInv

LEMMA ApplyOptionKeeps ==
  ASSUME IInv, ApplyOption
  PROVE  IInv'
<1>1. /\ options \in Seq(Option)
      /\ applied \in Nat /\ applied + 1 \in 1..Len(options)
      /\ config \in RetryConfig
  BY DEF IInv, ConfigInv, ApplyOption
<1>2. options[applied + 1] \in Option
  BY <1>1
<1>3. ConfigInv'
  <2>1. config' \in RetryConfig
    BY <1>1, <1>2, OptionsApply DEF ApplyOption
  <2>2. ASSUME \A i \in 1..applied' : options'[i].guarded PROVE Valid(config')
    <3>1. \A i \in 1..(applied + 1) : options[i].guarded
      <4>1. applied' = applied + 1 /\ options' = options
        BY DEF ApplyOption
      <4> QED BY <4>1, <2>2, Zenon
    <3>2. ASSUME NEW i \in 1..applied PROVE options[i].guarded
      <4>1. i \in 1..(applied + 1)
        BY <1>1
      <4> QED BY <3>1, <4>1, Zenon
    <3>3. Valid(config)
      BY <3>2 DEF IInv, ConfigInv, ApplyOption
    <3>4. options[applied + 1].guarded
      <4>1. applied + 1 \in 1..(applied + 1)
        BY <1>1
      <4> QED BY <3>1, <4>1, Zenon
    <3> QED BY <3>3, <3>4, <1>1, <1>2, OptionsApply DEF ApplyOption
  <2> QED BY <1>1, <2>1, <2>2 DEF ConfigInv, ApplyOption
<1>4. LoopInv' /\ PauseInv' /\ TimeInv' /\ LateInv'
  BY DEF IInv, ApplyOption, LoopInv, PauseInv, TimeInv, LateInv
<1>5. FlagsInv'
  BY DEF IInv, ApplyOption, FlagsInv
<1> QED BY <1>3, <1>4, <1>5 DEF IInv

LEMMA ConfigAcceptedKeeps ==
  ASSUME IInv, ConfigAccepted
  PROVE  IInv'
<1>1. config \in RetryConfig /\ Valid(config)
  BY DEF IInv, ConfigInv, ConfigAccepted
<1>2. ConfigInv'
  BY <1>1 DEF IInv, ConfigInv, ConfigAccepted, settings
<1>3. /\ config["InitialInterval"] \in Nat
      /\ config["MaxElapsedTime"] \in Nat
  BY <1>1, ValidFields
<1>4. LoopInv' /\ PauseInv' /\ LateInv'
  BY <1>3 DEF IInv, ConfigAccepted, LoopInv, PauseInv, Paused, LateInv, Stages, settings
<1>5. TimeInv'
  BY <1>3 DEF IInv, ConfigAccepted, TimeInv, WithinPause, settings
<1>6. FlagsInv'
  BY DEF IInv, ConfigAccepted, FlagsInv
<1> QED BY <1>2, <1>4, <1>5, <1>6 DEF IInv

\* A step that stays in the loop leaves the settings alone.
LEMMA SettingsKept ==
  ASSUME ConfigInv, UNCHANGED settings,
         stage \notin {"idle", "options"}, stage' \notin {"idle", "options"}
  PROVE  ConfigInv' /\ config' = config /\ config \in RetryConfig /\ Valid(config)
BY DEF ConfigInv, settings

LEMMA BeginAttemptKeeps ==
  ASSUME IInv, BeginAttempt
  PROVE  IInv'
<1>1. ConfigInv' /\ config' = config /\ config \in RetryConfig /\ Valid(config)
  BY SettingsKept DEF IInv, BeginAttempt
<1>2. config["MaxElapsedTime"] \in Nat
  BY <1>1, ValidFields
<1>3. LoopInv' /\ PauseInv'
  BY <1>1 DEF IInv, BeginAttempt, LoopInv, PauseInv, Stages
<1>4. TimeInv'
  BY <1>1, <1>2 DEF IInv, LoopInv, BeginAttempt, GivesUp, TimeInv, Within
<1>5. LateInv'
  BY DEF IInv, LoopInv, BeginAttempt, LateInv
<1>6. FlagsInv'
  BY DEF IInv, BeginAttempt, FlagsInv
<1> QED BY <1>1, <1>3, <1>4, <1>5, <1>6 DEF IInv

LEMMA FailsKeeps ==
  ASSUME IInv, Fails
  PROVE  IInv'
<1>1. ConfigInv' /\ config' = config /\ config \in RetryConfig /\ Valid(config)
  BY SettingsKept DEF IInv, Fails
<1>2. config["MaxElapsedTime"] \in Nat
  BY <1>1, ValidFields
<1>3. PICK d \in Durations : elapsed' = elapsed + d
  BY DEF Fails
<1>4. d \in Nat
  BY RetryAssumption
<1>5. LoopInv' /\ PauseInv'
  BY <1>1, <1>3, <1>4 DEF IInv, Fails, LoopInv, PauseInv, Stages
<1>6. TimeInv'
  BY <1>1, <1>2, <1>3, <1>4 DEF IInv, LoopInv, Fails, TimeInv, Within, WithinAttempt
<1>7. LateInv'
  BY DEF IInv, LoopInv, Fails, LateInv
<1>8. FlagsInv'
  BY DEF IInv, Fails, FlagsInv
<1> QED BY <1>1, <1>5, <1>6, <1>7, <1>8 DEF IInv

LEMMA PauseKeeps ==
  ASSUME IInv, Pause
  PROVE  IInv'
<1>1. ConfigInv' /\ config' = config /\ config \in RetryConfig /\ Valid(config)
  BY SettingsKept DEF IInv, Pause
<1>2. LoopInv' /\ PauseInv'
  BY <1>1 DEF IInv, Pause, LoopInv, PauseInv, Stages
<1>3. TimeInv'
  BY <1>1 DEF IInv, LateInv, Pause, TimeInv
<1>4. LateInv'
  BY DEF IInv, LoopInv, Pause, LateInv
<1>5. FlagsInv'
  BY DEF IInv, Pause, FlagsInv
<1> QED BY <1>1, <1>2, <1>3, <1>4, <1>5 DEF IInv

LEMMA TimerFiresKeeps ==
  ASSUME IInv, TimerFires
  PROVE  IInv'
<1>1. ConfigInv' /\ config' = config /\ config \in RetryConfig /\ Valid(config)
  BY SettingsKept DEF IInv, TimerFires
<1>2. /\ config["MaxElapsedTime"] \in Nat
      /\ config["InitialInterval"] \in Nat
      /\ config["MaxInterval"] \in Nat
  BY <1>1, ValidFields
<1>3. elapsed \in Nat /\ currentInterval \in Nat
  BY DEF IInv, LoopInv
<1>4. LoopInv' /\ PauseInv'
  BY <1>1, <1>3 DEF IInv, TimerFires, LoopInv, PauseInv
<1>5. WithinPause(elapsed', config)
  <2>1. PICK d \in Durations \cup {0} : elapsed <= config["MaxElapsedTime"] + d
    BY DEF IInv, TimeInv, TimerFires, WithinAttempt
  <2>2. d \in Nat
    BY RetryAssumption
  <2>3. PICK pause \in {"InitialInterval", "MaxInterval"} :
          currentInterval <= config[pause]
    BY DEF IInv, PauseInv, Paused, TimerFires
  <2>4. elapsed' = elapsed + currentInterval
    BY DEF TimerFires
  <2>5. config[pause] \in Nat
    BY <1>2
  <2>6. elapsed' <= config["MaxElapsedTime"] + d + config[pause]
    BY <1>2, <1>3, <2>1, <2>2, <2>3, <2>4, <2>5
  <2> QED BY <2>6 DEF WithinPause
<1>6. TimeInv'
  BY <1>1, <1>5 DEF TimerFires, TimeInv
<1>7. LateInv'
  BY DEF IInv, LoopInv, TimerFires, LateInv
<1>8. FlagsInv'
  BY DEF IInv, TimerFires, FlagsInv
<1> QED BY <1>1, <1>4, <1>6, <1>7, <1>8 DEF IInv

LEMMA TryAgainKeeps ==
  ASSUME IInv, TryAgain
  PROVE  IInv'
<1>1. ConfigInv' /\ config' = config /\ config \in RetryConfig /\ Valid(config)
  BY SettingsKept DEF IInv, TryAgain
<1>2. NextInterval \in Nat /\ NextInterval <= config["MaxInterval"]
  BY <1>1, NextPause DEF IInv, LoopInv
<1>3. LoopInv' /\ PauseInv'
  BY <1>1, <1>2 DEF IInv, TryAgain, LoopInv, PauseInv, Paused, Stages
<1>4. TimeInv'
  BY <1>1 DEF IInv, TryAgain, TimeInv
<1>5. LateInv'
  BY DEF IInv, LoopInv, TryAgain, LateInv
<1>6. FlagsInv'
  BY DEF IInv, TryAgain, FlagsInv
<1> QED BY <1>1, <1>3, <1>4, <1>5, <1>6 DEF IInv

LEMMA CancelContextKeeps ==
  ASSUME IInv, CancelContext
  PROVE  IInv'
<1>1. ConfigInv'
  BY DEF IInv, ConfigInv, CancelContext, settings
<1>2. LoopInv' /\ PauseInv' /\ TimeInv' /\ LateInv'
  BY DEF IInv, CancelContext, LoopInv, PauseInv, TimeInv, LateInv, settings
<1>3. FlagsInv'
  BY DEF IInv, CancelContext, FlagsInv
<1> QED BY <1>1, <1>2, <1>3 DEF IInv

LEMMA NextInv == IInv /\ [RetryNext]_retryVars => IInv'
<1> SUFFICES ASSUME IInv, [RetryNext]_retryVars PROVE IInv'
  OBVIOUS
<1>1. ASSUME NEW opts \in OptionLists, NEW cancelled \in BOOLEAN, Call(opts, cancelled)
      PROVE  IInv'
  BY <1>1, CallKeeps
<1>2. CASE ApplyOption BY <1>2, ApplyOptionKeeps
<1>3. CASE ConfigRefused
  BY <1>3, ReturnKeeps DEF ConfigRefused, Outcomes
<1>4. CASE CancelContext BY <1>4, CancelContextKeeps
<1>5. CASE FailsForGood
  BY <1>5, ReturnKeeps DEF FailsForGood, Outcomes
<1>6. CASE Abandoned
  BY <1>6, ReturnKeeps DEF Abandoned, Outcomes
<1>7. CASE PlainStep
  <2>1. CASE ConfigAccepted BY <2>1, ConfigAcceptedKeeps
  <2>2. CASE TimeExceeded
    BY <2>2, ReturnKeeps DEF TimeExceeded, Outcomes
  <2>3. CASE BeginAttempt BY <2>3, BeginAttemptKeeps
  <2>4. CASE Succeeds
    BY <2>4, ReturnKeeps DEF Succeeds, Outcomes
  <2>5. CASE Fails BY <2>5, FailsKeeps
  <2>6. CASE AttemptsExhausted
    BY <2>6, ReturnKeeps DEF AttemptsExhausted, Outcomes
  <2>7. CASE Pause BY <2>7, PauseKeeps
  <2>8. CASE TimerFires BY <2>8, TimerFiresKeeps
  <2>9. CASE TryAgain BY <2>9, TryAgainKeeps
  <2>10. CASE Cancelled
    BY <2>10, ReturnKeeps DEF Cancelled, Outcomes
  <2> QED BY <1>7, <2>1, <2>2, <2>3, <2>4, <2>5, <2>6, <2>7, <2>8, <2>9, <2>10
          DEF PlainStep
<1>8. CASE UNCHANGED retryVars
  BY <1>8 DEF retryVars, IInv, ConfigInv, LoopInv, FlagsInv, PauseInv, TimeInv, LateInv
<1> QED BY <1>1, <1>2, <1>3, <1>4, <1>5, <1>6, <1>7, <1>8 DEF RetryNext

\* The invariant holds in every state of every sequence of calls.
LEMMA Invariance == RetrySpec => []IInv
BY InitInv, NextInv, PTL DEF RetrySpec

-----------------------------------------------------------------------------
\* Retry: every variable of the retry loop always has its type.
THEOREM RetryTypeCorrect == RetrySpec => []RetryTypeOK
<1>1. IInv => RetryTypeOK
  <2> SUFFICES ASSUME IInv PROVE RetryTypeOK
    OBVIOUS
  <2>1. config \in RetryConfig \cup {NoConfig}
    BY DEF IInv, ConfigInv, LoopInv, Stages
  <2>2. {fired, done} \subseteq BOOLEAN
    BY DEF IInv, FlagsInv
  <2>3. /\ options \in Seq(Option)
        /\ applied \in 0..Len(options)
        /\ stage # "idle" => config \in RetryConfig
        /\ stage \notin {"idle", "options"} => Valid(config)
    BY DEF IInv, ConfigInv
  <2>4. LoopInv
    BY DEF IInv
  <2> QED BY <2>1, <2>2, <2>3, <2>4 DEF RetryTypeOK, LoopInv
<1> QED BY <1>1, Invariance, PTL

\* Retry, "exceeding the retry limits": whatever the log does and whatever the
\* options, a call is over by its limit, one attempt and one pause later.
THEOREM CallsEndInTime == RetrySpec => []InTime
<1>1. IInv => InTime
  <2> SUFFICES ASSUME IInv, stage \notin {"idle", "options"}
               PROVE \E d \in Durations \cup {0}, pause \in {"InitialInterval", "MaxInterval"} :
                       elapsed <= config["MaxElapsedTime"] + d + config[pause]
    BY DEF InTime
  <2>1. elapsed \in Nat /\ stage \in Stages
    BY DEF IInv, LoopInv
  <2>2. config \in RetryConfig /\ Valid(config)
    BY DEF IInv, ConfigInv
  <2>3. config["MaxElapsedTime"] \in Nat /\ config["InitialInterval"] \in Nat
    BY <2>2, ValidFields
  <2>4. Within(elapsed, config) => WithinAttempt(elapsed, config)
    BY <2>1, <2>3 DEF Within, WithinAttempt
  <2>5. WithinAttempt(elapsed, config) => WithinPause(elapsed, config)
    <3> SUFFICES ASSUME NEW d \in Durations \cup {0},
                        elapsed <= config["MaxElapsedTime"] + d
                 PROVE WithinPause(elapsed, config)
      BY DEF WithinAttempt
    <3>1. d \in Nat
      BY RetryAssumption
    <3>2. elapsed <= config["MaxElapsedTime"] + d + config["InitialInterval"]
      BY <2>1, <2>3, <3>1
    <3> QED BY <3>2 DEF WithinPause
  <2>6. WithinPause(elapsed, config)
    BY <2>1, <2>2, <2>4, <2>5 DEF IInv, TimeInv, Stages
  <2> QED BY <2>6 DEF WithinPause
<1> QED BY <1>1, Invariance, PTL

\* Retry, "It stops on ... context cancellation": a call begins at most one attempt
\* after its context is cancelled.
THEOREM CallsStopWhenCancelled == RetrySpec => []StopsOnCancellation
<1>1. IInv => StopsOnCancellation
  BY DEF IInv, LateInv, StopsOnCancellation
<1> QED BY <1>1, Invariance, PTL

\* WithMaxAttempts and its like, against validateRetryConfig: a call that is refused
\* was given an option that is not one of these.
THEOREM GuardedOptionsAreAccepted == RetrySpec => OptionsKeepValid
<1> DEFINE Blamed == outcome' = "invalid" /\ outcome # "invalid" =>
                       \E i \in 1..Len(options) : ~options[i].guarded
<1>1. ASSUME IInv, RetryNext PROVE Blamed
  <2>1. CASE ConfigRefused
    <3>1. ~Valid(config) /\ stage = "options" /\ applied = Len(options)
      BY <2>1 DEF ConfigRefused
    <3>2. ~(\A i \in 1..applied : options[i].guarded)
      BY <1>1, <3>1 DEF IInv, ConfigInv
    <3> QED BY <3>1, <3>2
  <2>2. ASSUME NEW opts, NEW cancelled, Call(opts, cancelled) PROVE Blamed
    BY <2>2 DEF Call
  <2>3. CASE ApplyOption \/ CancelContext \/ ConfigAccepted \/ BeginAttempt \/ Fails
    BY <2>3 DEF ApplyOption, CancelContext, ConfigAccepted, BeginAttempt, Fails
  <2>4. CASE Pause \/ TimerFires \/ TryAgain
    BY <2>4 DEF Pause, TimerFires, TryAgain
  <2>5. CASE FailsForGood \/ Abandoned \/ TimeExceeded \/ Succeeds \/ AttemptsExhausted
             \/ Cancelled
    BY <2>5 DEF FailsForGood, Abandoned, TimeExceeded, Succeeds, AttemptsExhausted, Cancelled, Return
  <2> QED BY <1>1, <2>1, <2>2, <2>3, <2>4, <2>5 DEF RetryNext, PlainStep
<1>2. IInv /\ [RetryNext]_retryVars => [Blamed]_retryVars
  BY <1>1
<1> QED BY <1>2, Invariance, PTL DEF RetrySpec, OptionsKeepValid
=============================================================================
