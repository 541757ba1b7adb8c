# A specification of rekor-monitor

TLA+ modules of the monitors in this repository, the TLC configurations that
check them on small instances, and theorems about them with proofs for TLAPS.
Paths are relative to the root of the repository. `PROJECT.json` lists, for every
definition that models code, the file and lines it stands for.

## 1. The system

Two programs, `rekor-monitor` and `ct-monitor`, audit an append-only log. Every
interval they check that the log is consistent with the checkpoint of the last
round, search the new entries for monitored identities, notify somebody of what
was found, and store the new checkpoint. All three kinds of log (Rekor v1, Rekor
v2, CT) go through one loop.

| Component | State | Operations | Interacts with |
|---|---|---|---|
| Monitoring loop, `internal/cmd/common.go` `MonitorLoop` | `config.StartIndex`, `config.EndIndex`, the input end index, the two checkpoints of the round | a round: check, search, notify, write, wait; early returns of each | every other component, through the interface `MonitorLoopLogic`; ticker and signal context |
| Checkpoint, identities and metadata files, `pkg/util/file` | three files | read latest checkpoint, write it (truncate, then write), append identities, rewrite metadata | loop; the process after a restart |
| Rekor v1, `cmd/rekor_monitor`, `pkg/rekor/v1` | none of its own | consistency check, index functions, batched fetch, search, write | log server; files |
| Rekor v2, `cmd/rekor_monitor`, `pkg/rekor/v2` | `rekorShards`, `latestShardOrigin` | refresh of the shards, consistency check across a rotation, tile fetch, search, write | TUF signing config; shards; files |
| CT, `cmd/ct_monitor`, `pkg/ct` | none of its own | consistency check, index functions, one get-entries request, search, write | log server; files |
| Notifications, `pkg/notifications` | the pool of platforms | build the pool, `TriggerNotifications` | loop; GitHub, mail providers |
| Identity matching, `pkg/identity`, `MatchedIndices` of each log | none | verify values, extract identities, validate chains, match, group | fetched entries; configuration |
| OID matchers, `pkg/fulcio/extensions` | none | render the matchers of a configuration | configuration, matching |
| Retries, `pkg/util/retry.go` | configuration, attempt counter, pause, time taken | `Retry`, the `With...` options | every request of the v1 client; its context |
| Metrics server, `pkg/server` | counters | start, count | loop |
| Flags, configuration, trust set-up: `internal/cmd/common.go`, both `main.go` | configuration, temporary CA files, monitored values, exit status | parse, validate, TUF client, write and remove CA files, choose the version, render the matchers, end | everything, before and after the loop; signals |
| Workflows, `.github/workflows` | the checkpoint artifact | run hourly, download, upload | the processes and their files |

### What is hard

*Concurrency.* The log grows, and may misbehave, between any two requests of a
round. A signal cancels the context in the middle of a round and the `select` of
`waitForTick` takes either ready channel. A shard rotation falls between two
rounds, between a check and its search, or between a crash and the restart. A
retried request waits for a timer and a context of which both may be ready; the
context of the consistency check is not that of the loop.

*Failure.* Every call may fail, and where it does decides what the next process
does: a failed check is skipped over in continuous mode and ends the process in
once mode, every other failure ends the loop. A process may die anywhere,
also between the truncation and the write of the checkpoint file. Before the loop,
ten things may go wrong while temporary files wait for a deferred removal, which
`log.Fatal` and an early signal do not run.

*Ordering.* The guarantee of the whole program is an order: search, record,
notify, and only then store. It has to survive the range's way through
`config.StartIndex` and `config.EndIndex` from round to round, through failed
rounds, and through the file across restarts.

*Boundaries.* Four index conventions meet: v1 batches of an exclusive-inclusive
range over inactive shards, v2 tiles with partial widths, CT's inclusive range of
one request, and sizes against last indices.

### What makes each part correct

* Loop and files: no checkpoint is stored before everything it commits to was
  searched, recorded and reported (*Coverage*, *Delivery*); the metadata file does
  not run ahead (*MetadataCoverage*); a round that claims success stored its
  checkpoint (*QuietRound*); the place a process remembers and the place it reads from
  the file after a restart are one (*SearchesWhatIsNew*, *BeginsAtStored*).
* Consistency checks: the stored checkpoints form a chain whatever the log does
  (*StoredChain*); a file that cannot be read stops the monitor
  (*UnreadableFileStops*).
* Ranges: nothing is fetched twice by one process (*FetchedOnce*,
  *OverlapOfOne*), and no more than a tile before the range (*FetchStaysInTiles*).
* All of these together, for v1 and CT, and for v2 until its first rotation: the
  monitor is one that audits, tells and only then trusts (*KeepsPromise* and
  *PromiseOfFirstShard*, of the abstract specification LogAudit).
* v2: a rotation is noticed (*RotationSeen*) and never undone (*StoredChain*), and
  the shard searched is the shard checked (*SearchedShardIsChecked*, refuted).
* Matching: what is asked for is reported, and nothing else (*Complete*, *Sound*).
* Retries: a call is over in time (*InTime*) and stops when it is cancelled
  (*StopsOnCancellation*).
* The life of a process: the operator's certificates are the ones trusted
  (*OperatorCAsKept*), nothing configured is dropped (*LoopMonitorsConfigured*),
  temporary files are removed (*FilesRemoved*), and SIGINT or SIGTERM is heeded
  (*AfterSignalBounded*, *SignalEndsProcess*).
* Progress: every matching entry is reported some time, and a signal stops the
  process (*EventuallyReported*, *SignalStops*).

## 2. The modules

```
MonitorLoop ── MonitorProcess ──┬── RekorV1 ── MCRekorV1
     │                          │      └ implements LogAudit
     │                          └── CTLog ──── MCCTLog
     │                                 └ implements LogAudit
     └──────────────── RekorV2 ─────────────── MCRekorV2
              Tiles ──────┘ └ implements LogAudit until its first rotation
Retry ── MonitorMain ───────────────────────── MCMonitorMain
Matching ───────────────────────────────────── MCMatching

MonitorLoopProofs ──┬── MonitorProcessProofs ──┬── RekorV1Proofs
                    │                          └── CTLogProofs
                    └── RekorV2Proofs
RetryProofs ── MonitorMainProofs
MatchingProofs
```

A line is EXTENDS, from left to right; a module of proofs also extends the module it
is about.

**MonitorLoop** is `MonitorLoop` with the process around it. `pc` names the
interface call the loop is about to make or is in: `check`, `search`, `notify`,
`write` (and `flush`, the middle of the file write), `wait`, and `down` for a
process that does not run. An action takes the *result* of a call as parameters
and does everything the loop does up to its next call; the early returns are
`LoopReturns`. A stopped process and a crashed one are one state, because memory is
all they differ in. `flags` is the command line and configuration of the process:
once or continuous, whether anything is monitored, and the optional indices.

**MonitorProcess** adds what outlives a process: the checkpoint file, the
identities file, the metadata. `os.WriteFile` is two steps, a truncation and a
write. It also has the history variables that properties speak of and no action
reads: `searched`, `waived`, `delivered`, `anchor`, `fetchedTo`. An entry is
*waived* when the operator asked for it to be stepped over: everything when
nothing is monitored, everything there was when the log's first checkpoint was "just
saved", the entries up to a configured `startIndex` and after a configured
`endIndex`.

**RekorV1** and **CTLog** implement the interface over MonitorProcess and model
the log beside it. A checkpoint is represented by the prefix of the log it
commits to, so that a consistency proof exists exactly between prefixes: that is
what the Merkle tree library, taken as correct, provides. Both logs may, once,
rewrite their past or withdraw an entry (`LogRewrites`), since the monitor exists
to notice. RekorV1 fetches a batch per step. CTLog makes one request, and the log
answers with as many of the entries as it likes, at most `MaxGetEntries`.

**RekorV2** implements it for shards that are added and removed. `listed` is what
the signing config says now, `rekorShards` what the process read at its start; the
check works on a refreshed copy (`CheckedShards`), the search on `rekorShards`,
because `RunConsistencyCheck` has a value receiver. `ShardMissing` is the nil
dereference of `pkg/rekor/v2/verifier.go:150`. The write of the file is one step
here; the torn write is studied with Rekor v1, whose code is the same. An entry is a
pair of a shard and an index, also in the history: `searched`, `waived`, `delivered`.

**LogAudit** is the abstract specification: a log, what the monitor trusts of it,
what was looked at, recorded and told. It knows no rounds, ranges or failures; a step
examines entries (looks at them, and records some), tells one platform, or trusts a
longer prefix all of which is dealt with. `Audit` in RekorV1 and CTLog is its instance
under the refinement mapping: `trusted` is `anchor`, `audited` is `searched`, `told` is
`delivered`, `honest` is `~rewritten`. In RekorV2 it is that of the first shard: its tree
is the log, and of the anchor, the entries and the reports it takes what is of shard 1.

**Tiles** is the tile arithmetic of `pkg/rekor/v2/client.go` as operators over
every tile width.

**Matching** is one search's work on the fetched entries: the matchers rendered
from the configuration, one step per entry of `MatchedIndices` (unreadable,
untrusted, scanned, scanned with a failing extension), and the groups that the
notification lists. Names and values are strings, a regular expression is the set of
names it matches (`Denotes`), a certificate is its names, its extensions with
their encoding, and whether a trusted CA vouches for it. The deprecated issuer is
assumed to be a plain string wherever it is present, as Fulcio writes it
(`MatchingAssumption`). Its scan is that of Rekor
v1; v2's is the same with another way to decode an entry, CT's has no keys,
fingerprints or subjects.

**Retry** is one call of `Retry` at a time: the options one by one, the check of the
result, and the loop with its `select`, between which the log may take its time
and the context may be cancelled. Time is in milliseconds since the call began,
and the multiplier in hundredths. Two liberties, which only add behaviours or
keep them in the order the code has: a channel that is ready is taken before
more time passes, and an attempt made after the cancellation may still succeed.

**MonitorMain** is a process of either program from its command line to its exit:
`main` names the place in `mainWithReturn`, one action per call that can fail and
one per outcome. It keeps what later parts depend on: whose certificate files the
configuration names, the temporary files, the version chosen, what the loop will
look for, the exit status. In the loop a round is a check, at most `MaxBatches`
batches and a write, whose requests run through Retry with the context each of
them has in the code: the loop's own for a batch, a fresh one for a checkpoint.

## 3. The runs

| Run | Result | Distinct states | Shows |
|---|---|---|---|
| rekor_v1_safe | passes | about 7.1 million | cron, daemon, consistency only and both ad hoc ranges; two platforms; a log of up to 3 entries of two kinds which may rewrite itself; signals, crashes and a failure of every call; every step is one of LogAudit |
| rekor_v1_live | passes | about 2800 | under fairness, on an append-only log with an inactive shard: every matching entry is reported, a signal stops the process |
| rekor_v1_torn | passes | about 460 thousand | with torn writes: what still holds |
| rekor_v1_torn_gap | *Coverage* refuted | | a torn write loses the entries since the last checkpoint |
| ct_safe | passes | about 2.8 million | as rekor_v1_safe, for a CT log that answers in full |
| ct_short | *Coverage* refuted | | a short answer leaves a gap |
| ct_idle | *SearchCanSucceed* refuted | | an idle log ends the daemon |
| rekor_v2_safe | passes | about 4.9 million | two shards, entries of three kinds, tiles of width two, rotations and removals at any time; until the first rotation every step is one of LogAudit |
| rekor_v2_stale | *SearchedShardIsChecked* refuted | | a daemon searches the old shard after a rotation |
| rekor_v2_rotation | *Coverage* refuted | | the round after a rotation steps over the new shard's first entries |
| matching | passes | about 8900 | seventeen configurations against every pair of ten kinds of entries |
| monitor_main | passes | about 142 thousand | both programs from command line to exit: flags, configuration, failures of the set-up, retried requests, signals at any moment |

Deadlock is checked in every run: a monitor that is down can be started.

### Bounds

Every bound is a constant.

* `MaxLog` = 3 (of v2, the second shard 1 in the passing run, which has all three
  kinds of entries, and 2 in the refuted ones; that a later shard's checkpoints form a
  chain as it grows is a theorem). With batches of two it gives a full batch, a short one, and a
  range that ends on a batch's border; a first checkpoint, a second and a third
  with failed rounds between them. `rekor_v1_live` has batches of one, so that a
  range has several. The number of rounds, restarts, crashes and failures is not
  bounded.
* `BatchSize` is 1 or 2, where the code has 10, and tile widths are 2, where it
  has 256; the theorems on tiles are for every width, and those on Rekor v1 for
  every batch size and every bound on the log.
* `MaxGetEntries` is at least the log in the runs without short answers and one
  in `ct_short`.
* `MaxShards` = 2: one rotation, at any moment, followed by a removal.
* Platforms: two in the run that is about their order, else one.
* In `monitor_main`: an attempt takes no time or 20 seconds (`Durations`), so that
  the time limit of 30 seconds is passed by attempts and by pauses; a search has at
  most two batches (`MaxBatches`), so that a signal falls before, in and between
  them; the command lines name the certificate files in each of the sixteen ways,
  every flag that is refused, and each kind of thing to monitor, and the signing
  config lists no service, one, two versions of one, or an unknown version. The
  requests have the default options, the only ones a caller of the repository
  gives; the theorems on Retry are for all.
* `BatchSize` = 2 entries in Matching: entries are scanned independently, so
  two are enough to see one disturb another.
* Entries are `"hit"` (matches), `"bad"` (fails to parse) and `"other"` (neither).
  Two kinds are there wherever a log may replace an entry, or a rewritten log
  could not be told from the old one.

### Fairness

`rekor_v1_live` (`Fairness` in RekorV1) and `monitor_main` (`FairSpec`) have some.

In rekor_v1_live: weak fairness for what just
happens when enabled: the operator (a cron job) starts the monitor again, a tick
comes, a failing check answers, a cancelled request returns. Strong fairness for
a call that may also fail: made again and again it succeeds some time, for each
position in the range and each place in the outbox, for a platform that is down
for ever never hears of anything. And strong fairness for the exit at the `select`: Go
chooses at random among ready channels. Nothing is assumed of signals and crashes
except, for *EventuallyReported*, that signals do not keep arriving for ever; the
log itself need never grow.

In monitor_main: weak fairness for the process as a whole (it runs on, and each of
its attempts is answered or times out), and strong fairness for the exit at the
`select`, as above.

### Mutations

`PROJECT.json` pairs each property of a passing run with a mutation of a mapped
definition that breaks it (comments "Mutation:" in the modules, where the mutated forms
stand before the definitions they replace).

## 4. What is proved

All theorems are for every value of the constants that the named assumptions of the
modules allow: logs, bounds, batch sizes, tile widths, platforms, command lines.
Each proof has the initial states, one step per action, and a last step of
temporal logic.

**MonitorLoopProofs** and **MonitorProcessProofs** hold what the logs share, stated
once. The first has the facts about prefixes and about the outbox (`ToSendComplete`:
every payload somebody has to hear of is in it once per platform). The second says what
every action of the process does to the shape of the loop's memory (`ProcessShape`), to
the file without torn writes (`StoredInv`) and with them (`ReadInv`, `GarbageKept`), and
to the Sends still due (`OutboxInv`); `ProcessStep` is the disjunction of those actions,
and each log shows that its own steps are such steps.

**RekorV1Proofs**:

* *TypeCorrect*: `Spec => []TypeOK`.
* Under `~TornWrites`: *NoGap* (Coverage), *NoMetadataGap* (MetadataCoverage),
  *RoundsSearchWhatIsNew* (SearchesWhatIsNew), *NoFork* (StoredChain), *NothingUntold*
  (Delivery) and *PromiseKept* (KeepsPromise).
* With or without torn writes: *RoundsAreQuietOnlyWhenStored* (QuietRound),
  *NothingFetchedTwice* (FetchedOnce), *UnreadableFileStopsAll* (UnreadableFileStops),
  and *ForksNeedALostFile*: a stored checkpoint that does not extend the one stored
  before was accepted in a round that found none in the file.

Coverage is not inductive: that the range just searched closes the gap between
the stored checkpoint and the served one depends on how the two index pointers
relate to the file in each stage of a round. The invariant is `SafetyInv`, three
conjuncts:

* `Shape`: what the loop's memory looks like at each `pc`: which pointers are
  set, in what order, where `next` is in the range.
* `AnchorInv`: how the file, the last stored checkpoint and the round's two
  checkpoints hang together, the moment between truncation and write included.
* `CoverageInv`: what is searched or waived at each `pc`: up to the stored
  checkpoint, up to `startIndex`, up to `next`, up to the served checkpoint.

Coverage says that no entry is left out; that no round goes back to one the stored
checkpoint commits to, also after a restart, is SearchesWhatIsNew (a round that stored
nothing is repeated). The loop keeps its place twice, in
`config.StartIndex`, which it moves on after a search, and in the file, which it writes
after that and only for a checkpoint of another size. `ResumeInv` says that the two agree
whenever a range is taken from either, `SizesInv` that no empty tree is stored, without
which a checkpoint of the same size might be none at all.

With torn writes the file may be behind the last stored checkpoint, empty or unreadable.
QuietRound still holds there, from `RoundInv`: what a round read of the file is that
checkpoint or nothing (`ReadInv`), so that two of one size are one.

*NothingUntold* and *PromiseKept*, that the detailed specification implements LogAudit,
rest on `AuditInv`, which adds to SafetyInv:

* `ListsInv`: the lists of found and failed entries speak only of what was
  fetched, and truly;
* `PrefixInv`: while the log is honest, what the monitor keeps of it is a prefix;
* `OutboxInv`: between the search and the last Send, what was found is in the
  identities file, and told or still to be told;
* `PlaceInv`: each index up to the loop's place is *settled* (waived, or recorded
  and told) or *held* in the lists of this round.

An entry is held before it is settled, and passes from one to the other by the steps
of the outbox, which is why Delivery needs all four. The steps of the
simulation are then read off: `CheckpointFlushed` is `Trust`, a Send is `Tell`, a
fetched batch and a recorded one are `Examine`, and all else stutters or is the
log's or the operator's.

**CTLogProofs**: *TypeCorrect*, *RoundsOverlapInOne* (OverlapOfOne),
*RoundsAreQuietOnlyWhenStored* (QuietRound), *ForksNeedALostFile* and
*UnreadableFileStopsAll* always; under `~TornWrites` *NoFork* and
*RoundsBeginAtStored* (BeginsAtStored, by the argument of RoundsSearchWhatIsNew); under
`~TornWrites` and `AnswersInFull` *NoGap*, *NothingUntold* and *PromiseKept*. The
invariant is that of Rekor v1 with another range: `RangeInv` says that it ends one past
the tree, or where the operator wants it to, and the whole of it is fetched at once, so
that PlaceInv has no `next`. Both assumptions are needed: `rekor_v1_torn_gap` and
`ct_short` refute Coverage without them. No run has torn writes of a tree head: the
code that writes it is that of Rekor v1's checkpoint, and the proofs share their lemmas.

**RekorV2Proofs**:

* *RangeIsFetched* and *FetchStaysInTiles*: every entry of a range is in the tiles
  fetched for it; nothing after the range and nothing before its first tile is. Both
  are for ranges that begin at -1 (before the first entry) or later: Go's division rounds
  towards zero, as `getTileIndex` does here, and puts -2 in tile 0.
* *TypeCorrect*; *NoForkAcrossShards* (StoredChain), *RotationsAreSeen*
  (RotationSeen), *RoundsAreQuietOnlyWhenStored* (QuietRound), for any number of
  shards coming and going. Two facts carry them: `CheckedAreListed`, that
  `ShardsNeedUpdating` tells any two sets of shards apart although it compares only
  their numbers and looks up the new ones, and `StoredInv`, that the checkpoint of a
  round is of a newer shard than the stored one or extends it (`Follows`).
* Up to the first rotation: *NoGapInFirstShard* (CoverageOfFirstShard),
  *NothingUnrecorded* (RecordedBeforeStored) and *PromiseKeptInFirstShard*
  (PromiseOfFirstShard), that each step is one LogAudit allows; beside a signing config
  that never lists a second shard the whole of LogAudit is implemented
  (*OneShardIsAudited*). The invariant is `FirstShardSafe`: `FirstShardInv` says that
  each index the loop has passed is settled or held, as PlaceInv does for Rekor v1, and
  its step for a search is RangeIsFetched; `ListsInv` has the lists of the round, what
  they say and which Sends are due; `PrefixInv` the checkpoint of the round. They end
  with the rotation because Coverage does: `rekor_v2_rotation` refutes it there. These
  four assume that no configured `startIndex` is below -1 (`StartsInLog`, from which
  `PlaceInLog` follows: no range begins there).

**RetryProofs**: *RetryTypeCorrect*, *CallsEndInTime* (InTime), *CallsStopWhenCancelled*
(StopsOnCancellation), *GuardedOptionsAreAccepted* (a call is refused only for an
option that no `With...` function makes). The invariant relates the time taken to
the stage of the loop: under the limit after the check at its top, one attempt
more after `f`, one pause more after the select.

**MonitorMainProofs**: *TypeCorrect* (from `MainInv`, which adds that a batch is asked for
only while there is one left); *RequestsAreRetries*, every behaviour of a process is one
of Retry as far as its request goes, from which *RequestsEndInTime* and
*RequestsStopWhenCancelled* follow; *OperatorCertificatesKept* (OperatorCAsKept, from
`CAsInv`, which follows the two files from the flags through each stage of the
set-up), *NoFileLeaks* (FilesRemoved; of SIGINT and SIGTERM, for what SIGKILL, SIGHUP or a
crash in the loop leaves behind is not in the model), *ConfiguredIsMonitored*
(LoopMonitorsConfigured) and *NothingNewAfterSignal* (AfterSignalBounded, from
`AfterSignalInv`: which request is under way at each place, with which context, and
how many attempts it has left).

**MatchingProofs**: *TypeCorrect*, *NothingElseIsNotified* (Sound) and *NothingIsMissed*
(Complete), for any configuration and batches of any size of any entries. The lemmas say
what the code's data structures come to: what a rendered map has of an OID is what a
matcher of it says, the last one (`LastOfList`, `MapOfList`); the three lists merged into
one map keep everything that is asked for once (`AskedIsRendered`) and add nothing
(`RenderedIsAsked`); the issuer read off a certificate is one it names (`IssuerRead`), and
one is read if it names any (`IssuerNamed`). The invariant `IInv` then says of the entries scanned so far
that every match is of something the entry bears (`SoundInv`), that everything it bears
is matched (`CompleteInv`), and that the groups are made of all matches (`GroupsInv`).
Complete is a promise about configurations that name an OID once and whose CA files can be
read, and about entries whose two issuer extensions agree: of the others the code
drops something, as section 5 says. Sound has no such conditions.

Only model-checked:

* the liveness properties (*EventuallyReported*, *SignalStops*, *SignalEndsProcess*)
  and `ENABLED`, which are out of the prover's reach, as is what a recursive
  definition computes.

## 5. Where the code and its documentation part

Refuted by a run:

1. `pkg/util/file/file.go:131` — the checkpoint is truncated in place. A process
   that dies there leaves an empty file, which the next one takes for a first run.
   (rekor_v1_torn_gap)
2. `pkg/ct/monitor.go:33` — a short answer to get-entries is taken for a full one. (ct_short)
3. `cmd/ct_monitor/main.go:119` — on an idle log the next range begins after the
   last entry, and the log's error ends the daemon. (ct_idle)
4. `cmd/rekor_monitor/main.go:191` — refreshed shards are stored in a copy. (rekor_v2_stale)
5. `cmd/rekor_monitor/main.go:227` — the range after a rotation runs from the old
   shard's size to the new shard's, though each counts from zero: the new shard's first
   entries are searched in no round. (rekor_v2_rotation)

Seen while reading, without a run of their own:

* `pkg/rekor/v1/client.go:45` says "If start == end, returns a single entry";
  none is returned.
* `RenderOIDMatchers` keeps only the last matcher of an OID (`extensions.go:343`);
  *Complete* is stated for configurations that name an OID once.
* A certificate without an issuer extension matches no certificate identity, also
  one without issuers (`pkg/identity/identity.go:549`).
* `ConfigureTrustedCAs` may write an empty intermediates file, with which
  every entry that has a certificate is skipped (`pkg/rekor/v1/identity.go:168`).
* In once mode every failure of a round ends in exit status 0.
* `StartMetricsServer` returns before its goroutine can report a port in use.
* `Retry` "stops on unrecoverable errors" (`pkg/util/retry.go:79`), but no caller
  wraps an error in the `RetryError` that would stop it early; and when the attempts
  run out the last error is replaced by a deadline error (`retry.go:111`).
* A configured `startIndex` below -1 is accepted; the Rekor v2 search then takes the
  first tile for one already read and passes over it (`pkg/rekor/v2/client.go:193`).
* `validateRetryConfig` accepts an initial interval above the maximal one; the first
  pause is then the longer of the two.
* The last tile is appended whole (`pkg/rekor/v2/client.go:271`), so a search that
  starts inside it fetches earlier entries again: *FetchStaysInTiles* says how many.
  The comment at line 224 speaks of the range only.
* The deprecated issuer extension is rendered as a matcher
  (`pkg/fulcio/extensions/extensions.go:106`) and read as ASN.1 (line 201), which it
  is not: a configured issuer makes the matching of such a certificate an error.
* `cmd/ct_monitor/main.go:178` prints the error of `RenderOIDMatchers` and goes on
  without matchers, where rekor-monitor ends: *LoopMonitorsConfigured* is stated of
  the latter.
* `pkg/server/metrics.go:126` announces a short wait, and does not wait.
* An identity configuration that only `VerifyMonitoredValues` refuses fails at
  the first search, that is in the second round, and the CT monitor
  takes fingerprints and subjects for monitored values it never looks at.

## 6. What is not modelled

* Cryptography: signatures, inclusion and consistency proofs are what they
  prove. What the monitor fetches is not compared with a checkpoint in the code,
  and is not in the models.
* A v1 active shard that becomes inactive while it is monitored: the checkpoint
  in the file then belongs to another tree and every check fails.
* A change of a v2 shard's validity end alone, which no search depends on.
* The metrics server, whose counters nothing reads, except for whether a round
  counted a failure; and the artifact store of the workflows: the files are durable.
* The TLS chain of the log server (`pkg/util/tls.go`) and the TUF client, beyond
  whether they succeed.
* The decoding of an entry's body, and of precertificates: an entry is readable or it
  is not.
* How notifications and files are formatted.

## 7. Plan

Done, in this order: MonitorLoop and MonitorProcess; RekorV1 with its runs; its
proofs; CTLog; Tiles; RekorV2; Matching; LogAudit, which RekorV1 and CTLog
implement; Retry with its proofs and MonitorMain, which uses it; the rotation run of
RekorV2; the proofs of the audit for RekorV1 and CTLog, of RekorV2 and of
MonitorMain; rounds with torn writes; the proofs of Matching; LogAudit for the first
shard of RekorV2.

Left: the rotation of v1 shards, with the tree that a stored checkpoint belongs to.
