------------------------------ MODULE MonitorMain ------------------------------
(***************************************************************************)
(* The life of a process of rekor-monitor or ct-monitor, from its command  *)
(* line to its exit: mainWithReturn of the two programs, the set-up of     *)
(* internal/cmd/common.go, and the requests of the loop with their retries *)
(* (Retry).  What the loop does with the answers is the matter of          *)
(* MonitorLoop; here a round is a check, some batches and a write, each of *)
(* which succeeds or fails.                                                *)
(*                                                                         *)
(* Two things outlive the process: the temporary files of                  *)
(* ConfigureTrustedCAs, which a deferred call removes, and the exit        *)
(* status.  A deferred call runs when main returns, not when log.Fatal or  *)
(* a signal ends the process; a signal ends it until MonitorLoop asks for  *)
(* signals, and only cancels a context from then on.                       *)
(***************************************************************************)
EXTENDS Retry, FiniteSets

CONSTANTS
  Programs,       \* which of "rekor-monitor" and "ct-monitor" are run
  CommandLines,   \* flags together with the configuration they lead to
  SigningConfigs, \* what the TUF signing config may list as Rekor services
  MaxBatches      \* bound: the batches of one search

\* flagRoots and flagIntermediates: --ca-roots and --ca-intermediates;
\* yamlRoots and yamlIntermediates: the same files in the configuration;
\* sources: how many of --config and --config-file are given; valid: the
\* configuration parses and its expressions compile; repository, rootPath: the two
\* TUF flags; identities: it lists certificate identities; matchers: its OID
\* matchers, which RenderOIDMatchers refuses if they are "bad"; bounded: it has an
\* end index.
CommandLine ==
  [once : BOOLEAN, sources : 0..2, valid : BOOLEAN,
   flagRoots : BOOLEAN, flagIntermediates : BOOLEAN,
   yamlRoots : BOOLEAN, yamlIntermediates : BOOLEAN,
   repository : {"default", "staging", "custom"}, rootPath : BOOLEAN,
   identities : BOOLEAN, matchers : {"none", "good", "bad"}, bounded : BOOLEAN]

\* A service of the signing config; own: it has the URL that is monitored.
Service == [own : BOOLEAN, version : Nat]

ASSUME MainAssumption ==
  /\ Programs \subseteq {"rekor-monitor", "ct-monitor"}
  /\ CommandLines \subseteq CommandLine
  /\ SigningConfigs \subseteq Seq(Service)
  /\ MaxBatches \in Nat
  /\ <<>> \in OptionLists

VARIABLES
  main,           \* where main is
  program,        \* the program that runs
  line,           \* its command line
  version,        \* rekorVersion; 0 for ct-monitor
  roots,          \* config.CARootsFile
  intermediates,  \* config.CAIntermediatesFile
  monitored,      \* monitoredValues of the loop
  temp,           \* the temporary files of this process
  leaked,         \* temporary files of processes that are gone
  status,         \* how the last process ended
  signalled,      \* the loop's context is cancelled
  batches         \* batches of the search still to ask for

\* History: attempts of any request begun in this round after the signal.
VARIABLE afterSignal

mainVars == <<main, program, line, version, roots, intermediates, monitored,
              temp, leaked, status, signalled, batches, afterSignal>>

vars == <<mainVars, retryVars>>

\* Before MonitorLoop, and in it.
SetUp == {"flags", "tuf", "cas", "casIntermediates", "casWrite", "dispatch",
          "verifier", "verifying", "matchers"}
InLoop == {"check", "checking", "search", "searching", "write", "wait"}

\* Where a certificate file comes from: nowhere, the operator, or ConfigureTrustedCAs.
FileOrigins == {"none", "operator", "fulcio"}

\* What a process that is not running remembers: nothing.
Ends(how) ==
  /\ main' = "down"
  /\ status' = how
  /\ version' = 0
  /\ roots' = "none"
  /\ intermediates' = "none"
  /\ monitored' = {}
  /\ temp' = {}
  /\ signalled' = FALSE
  /\ batches' = 0
  /\ afterSignal' = 0
  /\ Abandoned
  /\ UNCHANGED <<program, line>>

\* Mutation: log.Fatal where the code returns an exit status.
Returns_Fatal(code) ==
  /\ Ends(code)
  /\ leaked' = leaked \cup temp

\* mainWithReturn returns an exit status, and its deferred calls run.
Returns(code) ==
  /\ Ends(code)
  /\ UNCHANGED leaked

\* log.Fatal, or a signal nobody asked for, ends the process at once.
Dies(how) ==
  /\ Ends(how)
  /\ leaked' = leaked \cup temp

Init ==
  /\ RetryInit
  /\ main = "down"
  /\ program \in Programs
  /\ line \in CommandLines
  /\ version = 0
  /\ roots = "none"
  /\ intermediates = "none"
  /\ monitored = {}
  /\ temp = {}
  /\ leaked = {}
  /\ status = "none"
  /\ signalled = FALSE
  /\ batches = 0
  /\ afterSignal = 0

\* main goes on to its next stage, with the rest of its memory as it is.
GoesOnTo(next) ==
  /\ main' = next
  /\ UNCHANGED <<program, line, leaked, status>>

-----------------------------------------------------------------------------
(* Flags, configuration and TUF.                                           *)

Start ==
  /\ main = "down"
  /\ main' = "flags"
  /\ program' \in Programs
  /\ line' \in CommandLines
  /\ UNCHANGED <<version, roots, intermediates, monitored, temp, leaked, status,
                 signalled, batches, afterSignal, retryVars>>

\* ParseMonitorFlags.
FlagsRefused == line.flagIntermediates /\ ~line.flagRoots

RootsGiven == line.flagRoots \/ line.yamlRoots
IntermediatesGiven == line.flagIntermediates \/ line.yamlIntermediates

\* Mutation: Validate does not look at the two files together.
ConfigurationRefused_NoPair == line.sources = 2 \/ ~line.valid

\* LoadMonitorConfig, with the checks of Validate.
ConfigurationRefused ==
  \/ line.sources = 2
  \/ ~line.valid
  \/ IntermediatesGiven /\ ~RootsGiven

Origin(given) == IF given THEN "operator" ELSE "none"

ParseAndLoadConfig ==
  /\ main = "flags"
  /\ ~FlagsRefused
  /\ ~ConfigurationRefused
  /\ roots' = Origin(RootsGiven)
  /\ intermediates' = Origin(IntermediatesGiven)
  /\ GoesOnTo("tuf")
  /\ UNCHANGED <<version, monitored, temp, signalled, batches, afterSignal,
                 retryVars>>

\* Refused, or a file of the configuration or of certificates cannot be read.
ParseAndLoadConfigFails ==
  /\ main = "flags"
  /\ FlagsRefused \/ ConfigurationRefused \/ line.sources = 1 \/ RootsGiven
  /\ Dies("fatal")

\* GetTUFClient refuses flags that do not go together.
TUFFlagsRefused == line.rootPath # (line.repository = "custom")

\* GetTUFClient, GetTrustedRoot and, for Rekor, GetSigningConfig, the last of whose
\* services with the server's URL says which version it is.
GetTrustedRoot ==
  /\ main = "tuf"
  /\ ~TUFFlagsRefused
  /\ \/ program = "ct-monitor" /\ version' = 0
     \/ /\ program = "rekor-monitor"
        /\ \E services \in SigningConfigs :
             \/ /\ \A i \in DOMAIN services : ~services[i].own
                /\ version' = 1
             \/ \E i \in DOMAIN services :
                  /\ services[i].own
                  /\ \A j \in DOMAIN services : services[j].own => j <= i
                  /\ version' = services[i].version
  /\ GoesOnTo("cas")
  /\ UNCHANGED <<roots, intermediates, monitored, temp, signalled, batches,
                 afterSignal, retryVars>>

GetTrustedRootFails ==
  /\ main = "tuf"
  /\ Dies("fatal")

-----------------------------------------------------------------------------
(* ConfigureTrustedCAs: the operator's files, or two temporary ones.       *)

KeepOperatorCAs ==
  /\ main = "cas"
  /\ roots # "none"
  /\ GoesOnTo("dispatch")
  /\ UNCHANGED <<version, roots, intermediates, monitored, temp, signalled,
                 batches, afterSignal, retryVars>>

CreateRoots ==
  /\ main = "cas"
  /\ roots = "none"
  /\ roots' = "fulcio"
  /\ temp' = {"roots"}
  /\ GoesOnTo("casIntermediates")
  /\ UNCHANGED <<version, intermediates, monitored, signalled, batches,
                 afterSignal, retryVars>>

CreateIntermediates ==
  /\ main = "casIntermediates"
  /\ intermediates' = "fulcio"
  /\ temp' = temp \cup {"intermediates"}
  /\ GoesOnTo("casWrite")
  /\ UNCHANGED <<version, roots, monitored, signalled, batches, afterSignal,
                 retryVars>>

\* The certificates are written, the files closed, and their removal deferred.
WriteCAs ==
  /\ main = "casWrite"
  /\ GoesOnTo("dispatch")
  /\ UNCHANGED <<version, roots, intermediates, monitored, temp, signalled,
                 batches, afterSignal, retryVars>>

\* A file cannot be created or written: cleanupFiles removes those there are, and
\* log.Fatal ends the process.
ConfigureTrustedCAsFails ==
  /\ main \in {"cas", "casIntermediates", "casWrite"}
  /\ main = "cas" => roots = "none"
  /\ Ends("fatal")
  /\ UNCHANGED leaked

-----------------------------------------------------------------------------
(* mainLoopV1, mainLoopV2 and the rest of ct-monitor's main.               *)

\* The client is made; for v2, the shards are known.
MakeClient ==
  /\ main = "dispatch"
  /\ program = "ct-monitor" \/ version \in {1, 2}
  /\ GoesOnTo(IF version = 1 THEN "verifier" ELSE "matchers")
  /\ UNCHANGED <<version, roots, intermediates, monitored, temp, signalled,
                 batches, afterSignal, retryVars>>

\* An unsupported version, a bad certificate chain or URL, no shards.
MakeClientFails ==
  /\ main = "dispatch"
  /\ Returns("1")

\* GetLogVerifier asks the log for its checkpoint, to learn its key.
GetLogVerifier ==
  /\ main = "verifier"
  /\ Call(<<>>, FALSE)
  /\ GoesOnTo("verifying")
  /\ UNCHANGED <<version, roots, intermediates, monitored, temp, signalled,
                 batches, afterSignal>>

VerifierFound ==
  /\ main = "verifying"
  /\ stage = "idle"
  /\ outcome = "ok"
  /\ GoesOnTo("matchers")
  /\ UNCHANGED <<version, roots, intermediates, monitored, temp, signalled,
                 batches, afterSignal, retryVars>>

\* No answer, or no key of the trusted root matches it.
VerifierNotFound ==
  /\ main = "verifying"
  /\ stage = "idle"
  /\ Returns("1")

\* What the configuration asks to monitor.
ConfiguredValues ==
  (IF line.identities THEN {"identities"} ELSE {})
    \cup (IF line.matchers # "none" THEN {"matchers"} ELSE {})

\* Mutation: rekor-monitor, too, prints the error and goes on.
MatchersEnd_Printed == program = "none"

\* The programs differ in what an error of RenderOIDMatchers does: ct-monitor
\* prints it and goes on without matchers.
MatchersEnd == line.matchers = "bad" /\ program = "rekor-monitor"

RenderOIDMatchers ==
  /\ main = "matchers"
  /\ ~MatchersEnd
  /\ monitored' = ConfiguredValues \ (IF line.matchers = "bad" THEN {"matchers"} ELSE {})
  /\ GoesOnTo("check")
  /\ UNCHANGED <<version, roots, intermediates, temp, signalled, batches,
                 afterSignal, retryVars>>

RenderOIDMatchersFails ==
  /\ main = "matchers"
  /\ MatchersEnd
  /\ Returns("1")

\* SIGINT or SIGTERM before the loop asks for them.
KilledBySignal ==
  /\ main \in SetUp
  /\ Dies("killed")

-----------------------------------------------------------------------------
(* The loop.  Rekor v1 asks for its checkpoint, and for each batch of      *)
(* entries, through Retry; the other clients ask once.                     *)

\* The loop goes on to its next stage; batches are those left to ask for.
Proceeds(next, left) ==
  /\ GoesOnTo(next)
  /\ batches' = left
  /\ UNCHANGED <<version, roots, intermediates, monitored, temp, signalled>>

\* A step of a request that is under way.
RequestStep ==
  /\ main \in {"verifying", "checking", "searching"}
  /\ stage # "idle"
  /\ PlainStep
  /\ afterSignal' = afterSignal + (IF signalled /\ stage' = "attempt" /\ stage = "top"
                                   THEN 1 ELSE 0)
  /\ Proceeds(main, batches)

\* GetLogInfo, with a context no signal cancels.
AskForCheckpoint ==
  /\ main = "check"
  /\ version = 1
  /\ Call(<<>>, FALSE)
  /\ Proceeds("checking", 0)
  /\ UNCHANGED afterSignal

CheckAnswered ==
  \/ main = "check" /\ version # 1
  \/ main = "checking" /\ stage = "idle"

\* The checkpoint is there and consistent; the search has up to MaxBatches batches,
\* none when there is no range yet, and is left out when there is nothing to find.
CheckPasses ==
  /\ CheckAnswered
  /\ main = "checking" => outcome = "ok"
  /\ IF monitored = {}
     THEN Proceeds("write", 0)
     ELSE \E left \in 0..MaxBatches : Proceeds("search", left)
  /\ UNCHANGED <<afterSignal, retryVars>>

CheckFailsOnce ==
  /\ CheckAnswered
  /\ line.once
  /\ Returns("0")

CheckFails ==
  /\ CheckAnswered
  /\ ~line.once
  /\ Proceeds("wait", 0)
  /\ UNCHANGED <<afterSignal, retryVars>>

\* Mutation: one batch more is asked for than the range has.
MayAsk_OneMore == ~signalled

\* Mutation: the context is not looked at between two batches.
MayAsk_Always == batches > 0

\* GetEntriesByIndexRange looks at the context before each batch.
MayAsk == batches > 0 /\ ~signalled

AskForBatch ==
  /\ main = "search"
  /\ version = 1
  /\ MayAsk
  /\ Call(<<>>, signalled)
  /\ Proceeds("searching", batches)
  /\ UNCHANGED afterSignal

BatchAnswered ==
  /\ main = "searching"
  /\ stage = "idle"
  /\ outcome = "ok"
  /\ Proceeds("search", batches - 1)
  /\ UNCHANGED <<afterSignal, retryVars>>

\* All entries are there: they are matched, recorded and reported.
SearchEnds ==
  /\ main = "search"
  /\ version = 1 => batches = 0
  /\ Proceeds("write", 0)
  /\ UNCHANGED <<afterSignal, retryVars>>

\* The context is cancelled, or the range, an answer, the files or a platform fails.
SearchFails ==
  /\ \/ main = "search"
     \/ main = "searching" /\ stage = "idle" /\ outcome # "ok"
  /\ Returns("0")

\* WriteCheckpoint; a round of --once, or of a range that ends, is the last.
LastRound == line.once \/ line.bounded

WriteCheckpoint ==
  /\ main = "write"
  /\ ~LastRound
  /\ Proceeds("wait", 0)
  /\ UNCHANGED <<afterSignal, retryVars>>

WriteCheckpointEnds ==
  /\ main = "write"
  /\ Returns("0")

\* The ticker's tick may come first although the context is cancelled.
Tick ==
  /\ main = "wait"
  /\ Proceeds("check", 0)
  /\ afterSignal' = 0
  /\ UNCHANGED retryVars

\* Mutation: time.Sleep in place of the select.
Shutdown_Sleep == main = "wait" /\ signalled /\ line.once /\ Returns("0")

Shutdown ==
  /\ main = "wait"
  /\ signalled
  /\ Returns("0")

\* SIGINT or SIGTERM during the loop cancels its context, and with it the request
\* that was given this context.
Signal ==
  /\ main \in InLoop
  /\ ~signalled
  /\ signalled' = TRUE
  /\ IF main = "searching" /\ stage # "idle"
     THEN CancelContext
     ELSE UNCHANGED retryVars
  /\ GoesOnTo(main)
  /\ UNCHANGED <<version, roots, intermediates, monitored, temp, batches, afterSignal>>

-----------------------------------------------------------------------------
SetUpStep ==
  \/ ParseAndLoadConfig
  \/ ParseAndLoadConfigFails
  \/ GetTrustedRoot
  \/ GetTrustedRootFails
  \/ KeepOperatorCAs
  \/ CreateRoots
  \/ CreateIntermediates
  \/ WriteCAs
  \/ ConfigureTrustedCAsFails
  \/ MakeClient
  \/ MakeClientFails
  \/ GetLogVerifier
  \/ VerifierFound
  \/ VerifierNotFound
  \/ RenderOIDMatchers
  \/ RenderOIDMatchersFails

LoopStep ==
  \/ AskForCheckpoint
  \/ CheckPasses
  \/ CheckFailsOnce
  \/ CheckFails
  \/ AskForBatch
  \/ BatchAnswered
  \/ SearchEnds
  \/ SearchFails
  \/ WriteCheckpoint
  \/ WriteCheckpointEnds
  \/ Tick
  \/ Shutdown

ProcessStep == SetUpStep \/ RequestStep \/ LoopStep

Next ==
  \/ Start
  \/ KilledBySignal
  \/ Signal
  \/ ProcessStep

Spec == Init /\ [][Next]_vars

\* The process runs on, its requests are answered or time out, and a select that is
\* offered both the tick and the end of its context time and again takes the latter.
FairSpec == Spec /\ WF_vars(ProcessStep) /\ SF_vars(Shutdown)

-----------------------------------------------------------------------------
(* Properties.                                                             *)

\* Every variable of main holds a value of its kind.
TypeOK ==
  /\ RetryTypeOK
  /\ main \in SetUp \cup InLoop \cup {"down"}
  /\ program \in Programs
  /\ line \in CommandLines
  /\ version \in Nat
  /\ {roots, intermediates} \subseteq FileOrigins
  /\ monitored \subseteq {"identities", "matchers"}
  /\ temp \cup leaked \subseteq {"roots", "intermediates"}
  /\ status \in {"none", "0", "1", "fatal", "killed"}
  /\ signalled \in BOOLEAN
  /\ batches \in 0..MaxBatches
  /\ afterSignal \in Nat

\* ConfigureTrustedCAs and the deferred cleanup of mainWithReturn: whatever fails,
\* the temporary certificate files go with the process; only SIGINT or SIGTERM before
\* the loop asks for them leaves the files behind.  (The model has no other signal,
\* and no crash in the loop.)
FilesRemoved == [][leaked' # leaked => status' = "killed" /\ main \in SetUp]_vars

\* LoadMonitorConfig, Validate and ConfigureTrustedCAs together: the loop trusts the
\* certificates of the operator or those of Fulcio, never a mixture of the two, and
\* those of the operator whenever the command line or the configuration names some.
OperatorCAsKept ==
  main \in InLoop =>
    /\ roots # "none"
    /\ roots = "operator" <=> RootsGiven
    /\ intermediates = "operator" <=> IntermediatesGiven
    /\ "fulcio" \in {roots, intermediates} => roots = intermediates /\ temp # {}

\* RenderOIDMatchers: rekor-monitor never enters its loop with less to look for than
\* its configuration says.
LoopMonitorsConfigured ==
  main \in InLoop /\ program = "rekor-monitor" => monitored = ConfiguredValues

\* The requests of a round after a signal: those of a checkpoint already asked for,
\* or of the batch under way, and no further batch.
AfterSignalBounded == afterSignal <= DefaultRetryConfig["MaxAttempts"]

\* "Shutting down gracefully": a signal the loop has asked for ends the process.
SignalEndsProcess == signalled ~> main = "down"
=============================================================================
