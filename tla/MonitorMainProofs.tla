--------------------------- MODULE MonitorMainProofs ---------------------------
(***************************************************************************)
(* Theorems about MonitorMain, for every set of command lines, signing     *)
(* configs and attempt durations, and every number of batches.             *)
(*                                                                         *)
(* Its requests are calls of Retry, so what RetryProofs shows of those     *)
(* holds of them; the rest rests on what main knows at each of its stages. *)
(***************************************************************************)
EXTENDS MonitorMain, RetryProofs

\* The stages that follow ConfigureTrustedCAs.
AfterCAs == {"dispatch", "verifier", "verifying", "matchers"} \cup InLoop

\* Stages in which a request is under way.
Requesting == {"verifying", "checking", "searching"}

\* What OperatorCAsKept says of the loop, and of the set-up after the files exist.
CAsConfigured ==
  /\ roots # "none"
  /\ roots = "operator" <=> RootsGiven
  /\ intermediates = "operator" <=> IntermediatesGiven
  /\ "fulcio" \in {roots, intermediates} => roots = intermediates /\ temp # {}

\* The certificate files, from the flags to the loop.
CAsInv ==
  /\ main \in {"down", "flags", "tuf", "cas"} => temp = {}
  /\ main \in {"tuf", "cas"} =>
       /\ IntermediatesGiven => RootsGiven
       /\ roots = Origin(RootsGiven)
       /\ intermediates = Origin(IntermediatesGiven)
  /\ main \in {"casIntermediates", "casWrite"} =>
       /\ ~RootsGiven /\ ~IntermediatesGiven
       /\ roots = "fulcio"
       /\ temp # {}
  /\ main = "casWrite" => intermediates = "fulcio"
  /\ main \in AfterCAs => CAsConfigured

\* A request is under way only where main waits for one, with the defaults.
RequestInv ==
  /\ main \in SetUp \cup InLoop \cup {"down"}
  /\ stage # "idle" => main \in Requesting /\ config = DefaultRetryConfig
  /\ stage \in {"top", "attempt", "failed"} => attempt \in 1..5
  /\ stage = "select" => attempt \in 1..4

\* A signal is remembered by the loop alone, and by the request of a batch.
SignalInv ==
  /\ main \notin InLoop => ~signalled
  /\ main = "searching" /\ stage # "idle" /\ signalled => done

\* The attempts begun after the signal: those of the checkpoint already asked for,
\* or the late one of the batch.
AfterInv ==
  /\ afterSignal \in 0..5
  /\ ~signalled \/ main = "check" => afterSignal = 0
  /\ main = "checking" /\ stage = "options" => afterSignal = 0
  /\ main = "checking" /\ stage = "top" => afterSignal < attempt
  /\ main = "checking" /\ stage \in {"attempt", "failed", "select"} =>
       afterSignal <= attempt
  /\ main = "searching" /\ stage # "idle" => afterSignal <= lateAttempts

-----------------------------------------------------------------------------
(* The requests are calls of Retry.                                        *)

SignalTyped == signalled \in BOOLEAN

\* Signals are Boolean, whatever else goes on.
LEMMA SignalBoolean ==
  /\ Init => SignalTyped
  /\ SignalTyped /\ [Next]_vars => SignalTyped'
<1> USE DEF SignalTyped
<1>1. Init => SignalTyped
  BY DEF Init
<1>2. ASSUME SignalTyped, [Next]_vars PROVE SignalTyped'
  <2>1. CASE SetUpStep
    BY <1>2, <2>1 DEF SetUpStep, ParseAndLoadConfig, ParseAndLoadConfigFails,
       GetTrustedRoot, GetTrustedRootFails, KeepOperatorCAs, CreateRoots,
       CreateIntermediates, WriteCAs, ConfigureTrustedCAsFails, MakeClient,
       MakeClientFails, GetLogVerifier, VerifierFound, VerifierNotFound,
       RenderOIDMatchers, RenderOIDMatchersFails, Dies, Returns, Ends
  <2>2. CASE LoopStep
    BY <1>2, <2>2 DEF LoopStep, AskForCheckpoint, CheckPasses, CheckFailsOnce,
       CheckFails, AskForBatch, BatchAnswered, SearchEnds, SearchFails,
       WriteCheckpoint, WriteCheckpointEnds, Tick, Shutdown, Proceeds, Returns, Ends
  <2>3. CASE RequestStep \/ Start \/ KilledBySignal \/ Signal \/ UNCHANGED vars
    BY <1>2, <2>3 DEF RequestStep, Proceeds, Start, KilledBySignal, Dies, Ends, Signal,
       vars, mainVars
  <2> QED  BY <1>2, <2>1, <2>2, <2>3 DEF Next, ProcessStep
<1> QED  BY <1>1, <1>2

\* A step of main calls Retry, lets a call go on, abandons one or leaves it alone.
LEMMA StepOfRetry ==
  ASSUME SignalTyped, [Next]_vars
  PROVE  [RetryNext]_retryVars
<1> USE DEF SignalTyped
<1>1. ASSUME NEW how, Ends(how) PROVE RetryNext
  BY <1>1 DEF Ends, RetryNext
<1>2. ASSUME NEW cancelled \in BOOLEAN, Call(<<>>, cancelled) PROVE RetryNext
  BY <1>2, MainAssumption DEF RetryNext
<1>3. CASE SetUpStep
  BY <1>1, <1>2, <1>3 DEF SetUpStep, ParseAndLoadConfig, ParseAndLoadConfigFails,
     GetTrustedRoot, GetTrustedRootFails, KeepOperatorCAs, CreateRoots,
     CreateIntermediates, WriteCAs, ConfigureTrustedCAsFails, MakeClient,
     MakeClientFails, GetLogVerifier, VerifierFound, VerifierNotFound,
     RenderOIDMatchers, RenderOIDMatchersFails, Dies, Returns
<1>4. CASE LoopStep
  BY <1>1, <1>2, <1>4 DEF LoopStep, AskForCheckpoint, CheckPasses, CheckFailsOnce,
     CheckFails, AskForBatch, BatchAnswered, SearchEnds, SearchFails,
     WriteCheckpoint, WriteCheckpointEnds, Tick, Shutdown, Returns
<1>5. CASE RequestStep
  BY <1>5 DEF RequestStep, RetryNext
<1>6. CASE Start \/ KilledBySignal \/ Signal \/ UNCHANGED vars
  BY <1>1, <1>6 DEF Start, KilledBySignal, Dies, Signal, vars, RetryNext
<1> QED  BY <1>3, <1>4, <1>5, <1>6 DEF Next, ProcessStep

\* Every behaviour of the process is one of Retry, as far as its request goes.
THEOREM RequestsAreRetries == Spec => RetrySpec
<1>1. Init => RetryInit
  BY DEF Init
<1>2. SignalTyped /\ [Next]_vars => [RetryNext]_retryVars
  BY StepOfRetry
<1> QED  BY <1>1, <1>2, SignalBoolean, PTL DEF Spec, RetrySpec

\* A request of any program, whatever it is for, is over by its limit, one attempt
\* and one pause later.
THEOREM RequestsEndInTime == Spec => []InTime
  BY RequestsAreRetries, CallsEndInTime, PTL

\* And it begins at most one attempt after its own context is cancelled.
THEOREM RequestsStopWhenCancelled == Spec => []StopsOnCancellation
  BY RequestsAreRetries, CallsStopWhenCancelled, PTL

-----------------------------------------------------------------------------
(* The certificate files.                                                  *)

\* The steps that end the process, and those that stay behind ConfigureTrustedCAs.
LEMMA StagesOfSteps ==
  ASSUME [Next]_vars
  PROVE  \/ UNCHANGED vars
         \/ Start
         \/ \E how : Ends(how)
         \/ ParseAndLoadConfig \/ GetTrustedRoot \/ KeepOperatorCAs
         \/ CreateRoots \/ CreateIntermediates \/ WriteCAs
         \/ /\ main \in AfterCAs /\ main' \in AfterCAs
            /\ UNCHANGED <<program, line, roots, intermediates, temp, leaked>>
<1> USE DEF AfterCAs, InLoop
<1>1. CASE SetUpStep
  BY <1>1 DEF SetUpStep, ParseAndLoadConfigFails, GetTrustedRootFails,
     ConfigureTrustedCAsFails, MakeClient, MakeClientFails, GetLogVerifier,
     VerifierFound, VerifierNotFound, RenderOIDMatchers, RenderOIDMatchersFails,
     Dies, Returns, GoesOnTo
<1>2. CASE LoopStep
  <2>1. CASE CheckPasses \/ CheckFails \/ SearchEnds \/ WriteCheckpoint \/ Tick
             \/ AskForCheckpoint \/ AskForBatch \/ BatchAnswered
    BY <2>1 DEF CheckPasses, CheckAnswered, CheckFails, SearchEnds, WriteCheckpoint,
       Tick, AskForCheckpoint, AskForBatch, BatchAnswered, Proceeds, GoesOnTo
  <2>2. CASE CheckFailsOnce \/ SearchFails \/ WriteCheckpointEnds \/ Shutdown
    BY <2>2 DEF CheckFailsOnce, SearchFails, WriteCheckpointEnds, Shutdown, Returns
  <2> QED  BY <1>2, <2>1, <2>2 DEF LoopStep
<1>3. CASE RequestStep
  BY <1>3 DEF RequestStep, Proceeds, GoesOnTo
<1>4. CASE Start \/ KilledBySignal \/ UNCHANGED vars
  BY <1>4 DEF KilledBySignal, Dies
<1>5. CASE Signal
  BY <1>5 DEF Signal, GoesOnTo
<1> QED  BY <1>1, <1>2, <1>3, <1>4, <1>5 DEF Next, ProcessStep

LEMMA CAsInit == Init => CAsInv
  BY DEF Init, CAsInv, AfterCAs, InLoop

LEMMA CAsInductive ==
  ASSUME CAsInv, [Next]_vars
  PROVE  CAsInv'
<1> USE DEF AfterCAs, InLoop
<1>1. ASSUME line' = line
      PROVE  (RootsGiven' <=> RootsGiven) /\ (IntermediatesGiven' <=> IntermediatesGiven)
  BY <1>1 DEF RootsGiven, IntermediatesGiven
<1>2. CASE UNCHANGED vars
  BY <1>1, <1>2 DEF vars, mainVars, CAsInv, CAsConfigured, Origin
<1>3. CASE Start
  BY <1>3 DEF Start, CAsInv
<1>4. ASSUME NEW how, Ends(how) PROVE CAsInv'
  BY <1>4 DEF Ends, CAsInv
<1>5. CASE ParseAndLoadConfig
  BY <1>1, <1>5 DEF ParseAndLoadConfig, GoesOnTo, ConfigurationRefused, CAsInv, Origin
<1>6. CASE GetTrustedRoot
  BY <1>1, <1>6 DEF GetTrustedRoot, GoesOnTo, CAsInv, Origin
<1>7. CASE KeepOperatorCAs
  <2>1. /\ main = "cas" /\ main' = "dispatch" /\ roots # "none"
        /\ UNCHANGED <<line, roots, intermediates, temp>>
    BY <1>7 DEF KeepOperatorCAs, GoesOnTo
  <2>2. /\ RootsGiven /\ roots = "operator"
        /\ intermediates = Origin(IntermediatesGiven)
    BY <2>1 DEF CAsInv, Origin
  <2>3. CAsConfigured
    BY <2>2 DEF CAsConfigured, Origin
  <2> QED  BY <1>1, <2>1, <2>3 DEF CAsInv, CAsConfigured
<1>8. CASE CreateRoots \/ CreateIntermediates
  BY <1>1, <1>8 DEF CreateRoots, CreateIntermediates, GoesOnTo, CAsInv, Origin
<1>9. CASE WriteCAs
  BY <1>1, <1>9 DEF WriteCAs, GoesOnTo, CAsInv, CAsConfigured
<1>10. CASE /\ main \in AfterCAs /\ main' \in AfterCAs
            /\ UNCHANGED <<line, roots, intermediates, temp>>
  <2>1. CAsConfigured'
    BY <1>1, <1>10 DEF CAsInv, CAsConfigured
  <2> QED  BY <1>10, <2>1 DEF CAsInv
<1> QED
  BY <1>2, <1>3, <1>4, <1>5, <1>6, <1>7, <1>8, <1>9, <1>10, StagesOfSteps

\* Whatever the command line, the configuration and the failures of the set-up, the
\* loop has the certificates of the operator or those of Fulcio, never some of each.
THEOREM OperatorCertificatesKept == Spec => []OperatorCAsKept
<1>1. CAsInv => OperatorCAsKept
  BY DEF CAsInv, CAsConfigured, OperatorCAsKept, AfterCAs
<1>2. CAsInv /\ [Next]_vars => CAsInv'
  BY CAsInductive
<1> QED  BY <1>1, <1>2, CAsInit, PTL DEF Spec

\* Whatever fails, the temporary files are left behind only by a SIGINT or SIGTERM that
\* comes before the loop asks for these signals.
THEOREM NoFileLeaks == Spec => FilesRemoved
<1> DEFINE Step == leaked' # leaked => status' = "killed" /\ main \in SetUp
<1>1. ASSUME CAsInv, Next, leaked' # leaked PROVE status' = "killed" /\ main \in SetUp
  <2>1. CASE KilledBySignal
    BY <2>1 DEF KilledBySignal, Dies, Ends
  <2>2. CASE ParseAndLoadConfigFails \/ GetTrustedRootFails
    <3>1. main \in {"flags", "tuf"} /\ leaked' = leaked \cup temp
      BY <2>2 DEF ParseAndLoadConfigFails, GetTrustedRootFails, Dies
    <3>2. temp = {}
      BY <1>1, <3>1 DEF CAsInv
    <3> QED  BY <3>1, <3>2, <1>1
  <2>3. CASE SetUpStep /\ ~ParseAndLoadConfigFails /\ ~GetTrustedRootFails
    BY <1>1, <2>3 DEF SetUpStep, ParseAndLoadConfig, GetTrustedRoot, KeepOperatorCAs,
       CreateRoots, CreateIntermediates, WriteCAs, ConfigureTrustedCAsFails, MakeClient,
       MakeClientFails, GetLogVerifier, VerifierFound, VerifierNotFound,
       RenderOIDMatchers, RenderOIDMatchersFails, Returns, GoesOnTo
  <2>4. CASE LoopStep
    BY <1>1, <2>4 DEF LoopStep, AskForCheckpoint, CheckPasses, CheckFailsOnce,
       CheckFails, AskForBatch, BatchAnswered, SearchEnds, SearchFails,
       WriteCheckpoint, WriteCheckpointEnds, Tick, Shutdown, Proceeds, GoesOnTo, Returns
  <2>5. CASE RequestStep \/ Start \/ Signal
    BY <1>1, <2>5 DEF RequestStep, Proceeds, GoesOnTo, Start, Signal
  <2> QED  BY <1>1, <2>1, <2>2, <2>3, <2>4, <2>5 DEF Next, ProcessStep
<1>2. CAsInv /\ [Next]_vars => [Step]_vars
  BY <1>1
<1>3. CAsInv /\ [Next]_vars => CAsInv'
  BY CAsInductive
<1> QED  BY <1>2, <1>3, CAsInit, PTL DEF Spec, FilesRemoved

-----------------------------------------------------------------------------
(* What is monitored.                                                      *)

\* The loop of rekor-monitor looks for what the configuration names.
LEMMA MonitoredInductive ==
  ASSUME LoopMonitorsConfigured, [Next]_vars
  PROVE  LoopMonitorsConfigured'
<1> USE DEF LoopMonitorsConfigured, InLoop
<1>1. ASSUME main' \notin InLoop PROVE LoopMonitorsConfigured'
  BY <1>1
<1>2. ASSUME main \in InLoop, UNCHANGED <<program, line, monitored>>
      PROVE  LoopMonitorsConfigured'
  BY <1>2 DEF ConfiguredValues
<1>3. CASE RenderOIDMatchers
  <2>1. ASSUME program' = "rekor-monitor" PROVE monitored' = ConfiguredValues'
    BY <1>3, <2>1 DEF RenderOIDMatchers, MatchersEnd, GoesOnTo, ConfiguredValues
  <2> QED  BY <2>1
<1>4. CASE SetUpStep /\ ~RenderOIDMatchers
  <2>1. main' \notin InLoop
    BY <1>4 DEF SetUpStep, ParseAndLoadConfig, ParseAndLoadConfigFails,
       GetTrustedRoot, GetTrustedRootFails, KeepOperatorCAs, CreateRoots,
       CreateIntermediates, WriteCAs, ConfigureTrustedCAsFails, MakeClient,
       MakeClientFails, GetLogVerifier, VerifierFound, VerifierNotFound,
       RenderOIDMatchersFails, Dies, Returns, GoesOnTo, Ends
  <2> QED  BY <1>1, <2>1
<1>5. CASE LoopStep
  <2>1. CASE CheckPasses \/ CheckFails \/ SearchEnds \/ WriteCheckpoint \/ Tick
             \/ AskForCheckpoint \/ AskForBatch \/ BatchAnswered
    BY <1>2, <2>1 DEF CheckPasses, CheckAnswered, CheckFails, SearchEnds,
       WriteCheckpoint, Tick, AskForCheckpoint, AskForBatch, BatchAnswered, Proceeds,
       GoesOnTo
  <2>2. CASE CheckFailsOnce \/ SearchFails \/ WriteCheckpointEnds \/ Shutdown
    BY <1>1, <2>2 DEF CheckFailsOnce, SearchFails, WriteCheckpointEnds, Shutdown,
       Returns, Ends
  <2> QED  BY <1>5, <2>1, <2>2 DEF LoopStep
<1>6. CASE RequestStep
  <2>1. main' = main /\ UNCHANGED <<program, line, monitored>>
    BY <1>6 DEF RequestStep, Proceeds, GoesOnTo
  <2> QED  BY <1>1, <1>2, <2>1
<1>7. CASE Start \/ KilledBySignal
  BY <1>1, <1>7 DEF Start, KilledBySignal, Dies, Ends
<1>8. CASE Signal
  BY <1>2, <1>8 DEF Signal, GoesOnTo
<1>9. CASE UNCHANGED vars
  <2>1. main' = main /\ UNCHANGED <<program, line, monitored>>
    BY <1>9 DEF vars, mainVars
  <2> QED  BY <1>1, <1>2, <2>1
<1> QED
  BY <1>3, <1>4, <1>5, <1>6, <1>7, <1>8, <1>9 DEF Next, ProcessStep

\* rekor-monitor refuses to run with less than its configuration asks for.
THEOREM ConfiguredIsMonitored == Spec => []LoopMonitorsConfigured
<1>1. Init => LoopMonitorsConfigured
  BY DEF Init, LoopMonitorsConfigured, InLoop
<1>2. LoopMonitorsConfigured /\ [Next]_vars => LoopMonitorsConfigured'
  BY MonitoredInductive
<1> QED  BY <1>1, <1>2, PTL DEF Spec

-----------------------------------------------------------------------------
(* Types.                                                                  *)

\* A batch is asked for only while there is one left, which TypeOK needs and does
\* not say.
MainInv ==
  /\ main \in SetUp \cup InLoop \cup {"down"}
  /\ program \in Programs
  /\ line \in CommandLines
  /\ version \in Nat
  /\ roots \in FileOrigins /\ intermediates \in FileOrigins
  /\ monitored \subseteq {"identities", "matchers"}
  /\ temp \subseteq {"roots", "intermediates"}
  /\ leaked \subseteq {"roots", "intermediates"}
  /\ status \in {"none", "0", "1", "fatal", "killed"}
  /\ batches \in 0..MaxBatches
  /\ main = "searching" => batches > 0
  /\ afterSignal \in Nat

LEMMA NoBatches == MaxBatches \in Nat /\ 0 \in 0..MaxBatches
  BY MainAssumption

\* The end of a process, however it comes.
LEMMA EndTypes ==
  ASSUME MainInv, NEW how \in {"0", "1", "fatal", "killed"},
         Returns(how) \/ Dies(how) \/ (Ends(how) /\ UNCHANGED leaked)
  PROVE  MainInv'
<1>1. PICK end \in {"0", "1", "fatal", "killed"} : Ends(end)
  BY DEF Returns, Dies
<1>2. leaked' \subseteq {"roots", "intermediates"}
  BY DEF MainInv, Returns, Dies
<1>3. batches' \in 0..MaxBatches
  BY <1>1, NoBatches DEF Ends
<1>4. /\ main' = "down"
      /\ program' = program /\ line' = line
      /\ version' = 0
      /\ roots' = "none" /\ intermediates' = "none"
      /\ monitored' = {} /\ temp' = {}
      /\ status' = end
      /\ afterSignal' = 0
  BY <1>1 DEF Ends
<1> QED  BY <1>2, <1>3, <1>4 DEF MainInv, FileOrigins

LEMMA MainInductive ==
  ASSUME MainInv, [Next]_vars
  PROVE  MainInv'
<1> USE NoBatches DEF MainInv, GoesOnTo, FileOrigins, SetUp, InLoop
<1>1. CASE Start \/ Signal \/ UNCHANGED vars
  BY <1>1 DEF Start, Signal, vars, mainVars
<1>2. CASE KilledBySignal
  BY <1>2, EndTypes DEF KilledBySignal
<1>3. CASE SetUpStep
  <2>1. CASE ParseAndLoadConfig
    BY <2>1 DEF ParseAndLoadConfig, Origin
  <2>2. CASE GetTrustedRoot
    <3>1. version' \in Nat
      <4>1. ASSUME NEW services \in SigningConfigs, NEW i \in DOMAIN services
            PROVE  services[i].version \in Nat
        <5>1. services \in Seq(Service)
          BY MainAssumption
        <5>2. services[i] \in Service
          BY <5>1, <4>1
        <5> QED  BY <5>2 DEF Service
      <4> QED  BY <2>2, <4>1 DEF GetTrustedRoot
    <3> QED  BY <2>2, <3>1 DEF GetTrustedRoot
  <2>3. CASE KeepOperatorCAs \/ CreateRoots \/ CreateIntermediates \/ WriteCAs
    BY <2>3 DEF KeepOperatorCAs, CreateRoots, CreateIntermediates, WriteCAs
  <2>4. CASE MakeClient \/ GetLogVerifier \/ VerifierFound
    BY <2>4 DEF MakeClient, GetLogVerifier, VerifierFound
  <2>5. CASE RenderOIDMatchers
    BY <2>5 DEF RenderOIDMatchers, ConfiguredValues
  <2>6. CASE ParseAndLoadConfigFails \/ GetTrustedRootFails \/ ConfigureTrustedCAsFails
               \/ MakeClientFails \/ VerifierNotFound \/ RenderOIDMatchersFails
    BY <2>6, EndTypes DEF ParseAndLoadConfigFails, GetTrustedRootFails,
       ConfigureTrustedCAsFails, MakeClientFails, VerifierNotFound,
       RenderOIDMatchersFails
  <2> QED  BY <1>3, <2>1, <2>2, <2>3, <2>4, <2>5, <2>6 DEF SetUpStep
<1>4. CASE RequestStep
  BY <1>4 DEF RequestStep, Proceeds
<1>5. CASE LoopStep
  <2>1. CASE AskForCheckpoint \/ CheckFails \/ SearchEnds \/ WriteCheckpoint \/ Tick
    <3>1. PICK next \in {"checking", "wait", "write", "check"} : Proceeds(next, 0)
      BY <2>1 DEF AskForCheckpoint, CheckFails, SearchEnds, WriteCheckpoint, Tick
    <3>2. afterSignal' = afterSignal \/ afterSignal' = 0
      BY <2>1 DEF AskForCheckpoint, CheckFails, SearchEnds, WriteCheckpoint, Tick
    <3> QED  BY <3>1, <3>2 DEF Proceeds
  <2>2. CASE CheckPasses
    <3>1. PICK next \in {"write", "search"}, left \in 0..MaxBatches : Proceeds(next, left)
      BY <2>2 DEF CheckPasses
    <3> QED  BY <2>2, <3>1 DEF CheckPasses, Proceeds
  <2>3. CASE AskForBatch
    <3>1. batches > 0 /\ afterSignal' = afterSignal
      BY <2>3 DEF AskForBatch, MayAsk
    <3>2. Proceeds("searching", batches)
      BY <2>3 DEF AskForBatch
    <3> QED  BY <3>1, <3>2 DEF Proceeds
  <2>5. CASE BatchAnswered
    <3>1. main = "searching" /\ afterSignal' = afterSignal
      BY <2>5 DEF BatchAnswered
    <3>2. Proceeds("search", batches - 1)
      BY <2>5 DEF BatchAnswered
    <3>3. batches - 1 \in 0..MaxBatches
      BY <3>1
    <3> QED  BY <3>1, <3>2, <3>3 DEF Proceeds
  <2>4. CASE CheckFailsOnce \/ SearchFails \/ WriteCheckpointEnds \/ Shutdown
    BY <2>4, EndTypes DEF CheckFailsOnce, SearchFails, WriteCheckpointEnds, Shutdown
  <2> QED  BY <1>5, <2>1, <2>2, <2>3, <2>4, <2>5 DEF LoopStep
<1> QED  BY <1>1, <1>2, <1>3, <1>4, <1>5 DEF Next, ProcessStep

\* Every variable always has its type, those of the request included: no more batches
\* are asked for than the range has, whatever the signing config lists.
THEOREM TypeCorrect == Spec => []TypeOK
<1>1. Init => MainInv
  BY MainAssumption DEF Init, MainInv, FileOrigins
<1>2. MainInv /\ [Next]_vars => MainInv'
  BY MainInductive
<1>3. MainInv /\ SignalTyped /\ RetryTypeOK => TypeOK
  BY DEF MainInv, SignalTyped, TypeOK
<1> QED
  BY <1>1, <1>2, <1>3, SignalBoolean, RequestsAreRetries, RetryTypeCorrect, PTL DEF Spec

-----------------------------------------------------------------------------
(* After a signal.                                                         *)

AfterSignalInv == IInv /\ SignalTyped /\ RequestInv /\ SignalInv /\ AfterInv

LEMMA DefaultAttempts == DefaultRetryConfig["MaxAttempts"] = 5
  BY DEF DefaultRetryConfig

LEMMA AfterSignalInit == Init => RequestInv /\ SignalInv /\ AfterInv
  BY DEF Init, RetryInit, RequestInv, SignalInv, AfterInv, InLoop

\* A process that ends has no request and no signal.
LEMMA EndsForgets ==
  ASSUME NEW how, Ends(how)
  PROVE  RequestInv' /\ SignalInv' /\ AfterInv'
<1>1. main' = "down" /\ ~signalled' /\ afterSignal' = 0 /\ stage' = "idle"
  BY DEF Ends, Abandoned, Return
<1> QED  BY <1>1 DEF RequestInv, SignalInv, AfterInv, InLoop

\* A stage that has no request under way, and leads to one that has none.
LEMMA StagesWithoutRequest ==
  ASSUME AfterSignalInv, stage = "idle", UNCHANGED <<retryVars, signalled>>,
         main' \in SetUp \cup InLoop \cup {"down"},
         main' \notin InLoop => main \notin InLoop,
         afterSignal' = afterSignal \/ afterSignal' = 0,
         main' = "check" /\ main # "check" => main \notin InLoop \/ afterSignal' = 0
  PROVE  RequestInv' /\ SignalInv' /\ AfterInv'
<1>1. stage' = "idle"
  BY DEF retryVars
<1>2. RequestInv' /\ SignalInv'
  BY <1>1 DEF AfterSignalInv, RequestInv, SignalInv
<1>3. ~signalled \/ main = "check" => afterSignal = 0
  BY DEF AfterSignalInv, AfterInv
<1>4. main \notin InLoop => ~signalled
  BY DEF AfterSignalInv, SignalInv
<1>5. afterSignal' \in 0..5
  BY DEF AfterSignalInv, AfterInv
<1>6. ~signalled' \/ main' = "check" => afterSignal' = 0
  BY <1>3, <1>4
<1> QED  BY <1>1, <1>2, <1>5, <1>6 DEF AfterInv

\* A request begins.
LEMMA CallBegins ==
  ASSUME AfterSignalInv, NEW cancelled, Call(<<>>, cancelled),
         UNCHANGED <<signalled, afterSignal>>,
         \/ main = "verifier" /\ main' = "verifying"
         \/ main = "check" /\ main' = "checking"
         \/ main = "search" /\ main' = "searching" /\ ~signalled
  PROVE  RequestInv' /\ SignalInv' /\ AfterInv'
<1>1. stage' = "options" /\ config' = DefaultRetryConfig /\ lateAttempts' = lateAttempts
  BY DEF Call
<1>2. RequestInv'
  BY <1>1 DEF RequestInv, Requesting, SetUp, InLoop
<1>3. SignalInv'
  BY DEF AfterSignalInv, SignalInv, InLoop
<1>4. lateAttempts \in Nat
  BY DEF AfterSignalInv, IInv, LoopInv
<1>5. afterSignal \in 0..5 /\ (~signalled \/ main = "check" => afterSignal = 0)
  BY DEF AfterSignalInv, AfterInv
<1>6. AfterInv'
  BY <1>1, <1>4, <1>5 DEF AfterInv
<1> QED  BY <1>2, <1>3, <1>6

\* A request goes on: only the beginning of an attempt adds to afterSignal.
LEMMA RequestGoesOn ==
  ASSUME AfterSignalInv, IInv', RequestStep
  PROVE  RequestInv' /\ SignalInv' /\ AfterInv'
<1>1. /\ main \in Requesting /\ stage # "idle" /\ main' = main /\ signalled' = signalled
      /\ PlainStep
      /\ afterSignal' = afterSignal +
           (IF signalled /\ stage' = "attempt" /\ stage = "top" THEN 1 ELSE 0)
  BY DEF RequestStep, Proceeds, GoesOnTo, Requesting
<1>2. /\ RequestInv /\ SignalInv /\ AfterInv
      /\ config = DefaultRetryConfig
      /\ lateAttempts \in Nat
      /\ attempt \in Nat
  BY <1>1 DEF AfterSignalInv, RequestInv, IInv, LoopInv
<1>3. main' \in SetUp \cup InLoop \cup {"down"}
  BY <1>1, <1>2 DEF RequestInv
<1>4. main \notin InLoop => ~signalled
  BY <1>2 DEF SignalInv
<1>5. ASSUME NEW how, Return(how), stage' # "attempt"
      PROVE  RequestInv' /\ SignalInv' /\ AfterInv'
  <2>1. stage' = "idle" /\ afterSignal' = afterSignal
    <3>1. stage' = "idle"
      BY <1>5 DEF Return
    <3>2. afterSignal' = afterSignal + 0
      BY <1>1, <3>1
    <3>3. afterSignal \in Int
      BY <1>2 DEF AfterInv
    <3> QED  BY <3>1, <3>2, <3>3
  <2>2. RequestInv' /\ SignalInv'
    BY <1>1, <1>3, <1>4, <2>1 DEF RequestInv, SignalInv
  <2>3. AfterInv'
    BY <1>1, <1>2, <2>1 DEF AfterInv, Requesting
  <2> QED  BY <2>2, <2>3
<1>6. ASSUME stage' \in {"top", "failed", "select"}, done' = done,
             config' = config, lateAttempts' = lateAttempts
      PROVE  /\ SignalInv'
             /\ afterSignal' = afterSignal
             /\ stage' # "idle"
             /\ main' \in Requesting
  <2>1. afterSignal' = afterSignal + 0
    BY <1>1, <1>6
  <2>2. afterSignal \in Int
    BY <1>2 DEF AfterInv
  <2> QED  BY <1>1, <1>2, <1>6, <2>1, <2>2 DEF SignalInv
<1>7. CASE ConfigAccepted
  <2>1. /\ stage = "options" /\ stage' = "top" /\ attempt' = 1
        /\ UNCHANGED <<done, config, lateAttempts>>
    BY <1>7 DEF ConfigAccepted, settings
  <2>2. RequestInv'
    BY <1>1, <1>2, <1>3, <2>1 DEF RequestInv
  <2>3. AfterInv'
    BY <1>1, <1>2, <1>6, <2>1 DEF AfterInv, Requesting
  <2> QED  BY <1>6, <2>1, <2>2, <2>3
<1>8. CASE TimeExceeded \/ Succeeds \/ AttemptsExhausted \/ Cancelled
  <2>1. PICK how : Return(how)
    BY <1>8 DEF TimeExceeded, Succeeds, AttemptsExhausted, Cancelled
  <2>2. stage' # "attempt"
    BY <2>1 DEF Return
  <2> QED  BY <1>5, <2>1, <2>2
<1>9. CASE BeginAttempt
  <2>1. /\ stage = "top" /\ stage' = "attempt"
        /\ lateAttempts' = lateAttempts + (IF done THEN 1 ELSE 0)
        /\ UNCHANGED <<done, config, attempt>>
    BY <1>9 DEF BeginAttempt, settings
  <2>2. RequestInv'
    BY <1>1, <1>2, <1>3, <2>1 DEF RequestInv
  <2>3. SignalInv'
    BY <1>1, <1>2, <2>1 DEF SignalInv
  <2>4. lateAttempts' \in Nat /\ lateAttempts' <= 1
    BY DEF IInv, LoopInv, LateInv
  <2>5. CASE signalled
    <3>1. afterSignal' = afterSignal + 1
      BY <1>1, <2>1, <2>5
    <3>2. main \in {"checking", "searching"}
      BY <1>1, <1>4, <2>5 DEF Requesting, InLoop
    <3>3. CASE main = "checking"
      <4>1. afterSignal < attempt /\ attempt \in 1..5 /\ afterSignal \in 0..5
        BY <1>2, <2>1, <3>3 DEF AfterInv, RequestInv
      <4> QED  BY <1>1, <2>1, <2>2, <2>3, <2>5, <3>1, <3>3, <4>1 DEF AfterInv
    <3>4. CASE main = "searching"
      <4>1. afterSignal <= lateAttempts /\ afterSignal \in 0..5 /\ done
        BY <1>1, <1>2, <2>5, <3>4 DEF AfterInv, SignalInv
      <4>2. lateAttempts' = lateAttempts + 1
        BY <2>1, <4>1
      <4>3. afterSignal' <= lateAttempts' /\ afterSignal' \in 0..5
        BY <1>2, <2>4, <3>1, <4>1, <4>2
      <4> QED  BY <1>1, <2>1, <2>2, <2>3, <2>5, <3>4, <4>3 DEF AfterInv
    <3> QED  BY <3>2, <3>3, <3>4
  <2>6. CASE ~signalled
    <3>1. afterSignal = 0
      BY <1>2, <2>6 DEF AfterInv
    <3>2. afterSignal' = 0
      BY <1>1, <2>6, <3>1
    <3> QED  BY <1>1, <1>2, <2>1, <2>2, <2>3, <2>4, <3>2 DEF AfterInv
  <2> QED  BY <2>5, <2>6
<1>10. CASE Fails \/ Pause \/ TimerFires
  <2>1. /\ stage \in {"attempt", "failed", "select"}
        /\ stage' \in {"failed", "select"}
        /\ stage' = "select" => stage = "select" \/ attempt # config["MaxAttempts"]
        /\ stage' = "failed" => stage = "attempt"
        /\ UNCHANGED <<done, config, lateAttempts, attempt>>
    BY <1>10 DEF Fails, Pause, TimerFires, settings
  <2>2. attempt' \in 1..5 /\ (stage' = "select" => attempt' \in 1..4)
    BY <1>2, <2>1, DefaultAttempts DEF RequestInv
  <2>3. RequestInv'
    BY <1>1, <1>2, <1>3, <2>1, <2>2 DEF RequestInv
  <2>4. AfterInv'
    BY <1>1, <1>2, <1>6, <2>1 DEF AfterInv, Requesting
  <2> QED  BY <1>6, <2>1, <2>3, <2>4
<1>11. CASE TryAgain
  <2>1. /\ stage = "select" /\ stage' = "top" /\ attempt' = attempt + 1
        /\ UNCHANGED <<done, config, lateAttempts>>
    BY <1>11 DEF TryAgain, settings
  <2>2. attempt' \in 1..5
    BY <1>2, <2>1 DEF RequestInv
  <2>3. RequestInv'
    BY <1>1, <1>2, <1>3, <2>1, <2>2 DEF RequestInv
  <2>4. AfterInv'
    BY <1>1, <1>2, <1>6, <2>1 DEF AfterInv, Requesting
  <2> QED  BY <1>6, <2>1, <2>3, <2>4
<1> QED  BY <1>1, <1>7, <1>8, <1>9, <1>10, <1>11 DEF PlainStep

\* The steps of the set-up and of the loop that are no part of a request.
LEMMA OtherSteps ==
  ASSUME AfterSignalInv, SetUpStep \/ LoopStep
  PROVE  RequestInv' /\ SignalInv' /\ AfterInv'
<1>1. main \notin Requesting => stage = "idle"
  BY DEF AfterSignalInv, RequestInv
<1>2. CASE ParseAndLoadConfig \/ GetTrustedRoot \/ KeepOperatorCAs \/ CreateRoots
           \/ CreateIntermediates \/ WriteCAs \/ MakeClient
  BY <1>1, <1>2, StagesWithoutRequest DEF ParseAndLoadConfig, GetTrustedRoot,
     KeepOperatorCAs, CreateRoots, CreateIntermediates, WriteCAs, MakeClient, GoesOnTo,
     SetUp, InLoop, Requesting
<1>3. CASE VerifierFound \/ RenderOIDMatchers
  BY <1>1, <1>3, StagesWithoutRequest DEF VerifierFound, RenderOIDMatchers, GoesOnTo,
     SetUp, InLoop, Requesting
<1>4. CASE ParseAndLoadConfigFails \/ GetTrustedRootFails \/ ConfigureTrustedCAsFails
           \/ MakeClientFails \/ VerifierNotFound \/ RenderOIDMatchersFails
           \/ CheckFailsOnce \/ SearchFails \/ WriteCheckpointEnds \/ Shutdown
  <2>1. PICK how : Ends(how)
    BY <1>4 DEF ParseAndLoadConfigFails, GetTrustedRootFails, ConfigureTrustedCAsFails,
       MakeClientFails, VerifierNotFound, RenderOIDMatchersFails, CheckFailsOnce,
       SearchFails, WriteCheckpointEnds, Shutdown, Dies, Returns
  <2> QED  BY <2>1, EndsForgets
<1>5. CASE GetLogVerifier
  BY <1>5, CallBegins DEF GetLogVerifier, GoesOnTo
<1>6. CASE AskForCheckpoint
  BY <1>6, CallBegins DEF AskForCheckpoint, Proceeds, GoesOnTo
<1>7. CASE AskForBatch
  <2>1. /\ main = "search" /\ main' = "searching" /\ ~signalled
        /\ UNCHANGED <<signalled, afterSignal>> /\ Call(<<>>, signalled)
    BY <1>7 DEF AskForBatch, MayAsk, Proceeds, GoesOnTo
  <2> QED  BY <2>1, CallBegins
<1>8. CASE CheckPasses \/ CheckFails \/ BatchAnswered \/ SearchEnds \/ WriteCheckpoint
           \/ Tick
  <2>1. /\ main \in {"check", "checking", "search", "searching", "write", "wait"}
        /\ main' \in {"check", "search", "write", "wait"}
        /\ UNCHANGED <<retryVars, signalled>>
        /\ afterSignal' = afterSignal \/ afterSignal' = 0
        /\ main' = "check" => afterSignal' = 0
        /\ main \in Requesting => stage = "idle"
    BY <1>8 DEF CheckPasses, CheckAnswered, CheckFails, BatchAnswered, SearchEnds,
       WriteCheckpoint, Tick, Proceeds, GoesOnTo, Requesting
  <2> QED  BY <1>1, <2>1, StagesWithoutRequest DEF SetUp, InLoop
<1> QED
  BY <1>2, <1>3, <1>4, <1>5, <1>6, <1>7, <1>8 DEF SetUpStep, LoopStep

\* A signal cancels the request of a batch, and no other.
LEMMA SignalCancels ==
  ASSUME AfterSignalInv, Signal
  PROVE  RequestInv' /\ SignalInv' /\ AfterInv'
<1>1. /\ main \in InLoop /\ ~signalled /\ main' = main /\ afterSignal' = afterSignal
  BY DEF Signal, GoesOnTo
<1>2. /\ UNCHANGED <<stage, config, attempt, lateAttempts>>
      /\ main = "searching" /\ stage # "idle" => done'
  BY DEF Signal, CancelContext, settings, retryVars
<1>3. afterSignal = 0 /\ lateAttempts \in Nat
  BY <1>1 DEF AfterSignalInv, AfterInv, IInv, LoopInv
<1>4. RequestInv' /\ SignalInv'
  BY <1>1, <1>2 DEF AfterSignalInv, RequestInv, SignalInv
<1>5. AfterInv'
  BY <1>1, <1>2, <1>3 DEF AfterSignalInv, AfterInv, RequestInv
<1> QED  BY <1>4, <1>5

LEMMA AfterSignalInductive ==
  ASSUME AfterSignalInv, IInv', [Next]_vars
  PROVE  RequestInv' /\ SignalInv' /\ AfterInv'
<1>1. CASE Start
  <2>1. stage = "idle"
    BY <1>1 DEF Start, AfterSignalInv, RequestInv, Requesting
  <2> QED  BY <1>1, <2>1, StagesWithoutRequest DEF Start, SetUp, InLoop
<1>2. CASE KilledBySignal
  BY <1>2, EndsForgets DEF KilledBySignal, Dies
<1>3. CASE UNCHANGED vars
  BY <1>3 DEF vars, mainVars, retryVars, AfterSignalInv, RequestInv, SignalInv, AfterInv
<1> QED
  BY <1>1, <1>2, <1>3, SignalCancels, RequestGoesOn, OtherSteps DEF Next, ProcessStep

\* After a signal a round makes no new request: at most the attempts of the one that
\* is under way, for the checkpoint as many as Retry allows.
THEOREM NothingNewAfterSignal == Spec => []AfterSignalBounded
<1>1. AfterSignalInv => AfterSignalBounded
  BY DefaultAttempts DEF AfterSignalInv, AfterInv, AfterSignalBounded
<1>2. AfterSignalInv /\ [Next]_vars /\ IInv' => AfterSignalInv'
  BY AfterSignalInductive, SignalBoolean DEF AfterSignalInv
<1>3. Init => RetryInit
  BY DEF Init
<1>4. Init => AfterSignalInv
  BY <1>3, InitInv, SignalBoolean, AfterSignalInit DEF AfterSignalInv
<1>5. Spec => []IInv
  BY RequestsAreRetries, Invariance, PTL
<1> QED  BY <1>1, <1>2, <1>4, <1>5, PTL DEF Spec
=============================================================================
