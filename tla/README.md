# Formal models of vse-sync-collection-tools

The repository holds a command line tool that polls an OpenShift node for
clock synchronisation data (`collect`), follows the log of the linuxptp daemon,
creates a debug pod for netlink queries, and judges whether the environment is
fit for it (`env verify`). This directory models the parts of it in which order,
timing, failure or limits decide whether it works, checks them with TLC and
proves the most important results with TLAPS.

Contents: [Inventory](#inventory) · [Modules](#modules-and-how-they-map-to-the-code) ·
[Runs](#what-the-runs-check) · [Bounds](#bounds-and-why-they-are-enough) ·
[Fairness](#fairness) · [Proofs](#proofs) · [Findings](#findings) ·
[Not modelled](#what-is-not-modelled) · [Plan](#plan)

## Inventory

| Component | State it keeps | Operations | Talks to |
|---|---|---|---|
| Collector runner (`pkg/runner/runner.go`) | channels `pollResults`, `erroredPolls` (10 places), `quit`, one quit channel per poller, two `WaitGroupCount`s of pollers | `initialise`, `start`, `poller`, `shouldKeepPolling`, `cleanUpAll`, `Run` | every collector (`Start`, `Poll`, `CleanUp`), the callback, OS signals |
| `WaitGroupCount` (`pkg/utils/utils.go`) | a WaitGroup and an atomic count next to it | `Add`, `Done`, `GetCount` | runner, polls |
| DevInfo collector (`pkg/collectors/dev_info_collector.go`) | `devInfo`, shared by its polls without a lock, `requiresFetch` (1 place), unbuffered `quit` | `Start` (spawns `monitorErroredPolls`), `Poll`, `CleanUp`, `verify` at construction | runner, through `erroredPolls`; fetcher; validations |
| Log collector (`pkg/collectors/log_follower.go`) | `lastPoll`, channels `slices`, `lines`, `sliceQuit`, `logsQuit`, `wg` | `Poll`, `processSlices`, `writeToLogFile`, `CleanUp` | log stream of the daemon, generations, output file |
| Generations (`pkg/loglines/lines.go`) | `Store`, `Latest`, `Oldest`, the dumper's channel | `Add`, `ShouldFlush`, `Flush`, `FlushAll`; `GenerationalLockedTime` | log collector, deduplication, dumper goroutine |
| Deduplication (`pkg/loglines/dedup.go`) | none | `DedupLineSlices`, `DedupAB`, `fixLines`, ... | generations |
| Netlink DPLL collector and its pod (`dpll_collector_netlink.go`, `exec_command.go`) | `c.pod` of the context, the pod on the cluster | `Start`, `CleanUp`, `CreatePodAndWait`, `DeletePodAndWait` | API server, kubelet, other invocations of the tool |
| Execution context (`exec_command.go`, `contexts.go`) | `podName`, `containerName` | `execCommand`, `refresh` | all collectors; API server |
| Client set (`clientset.go`) | the singleton | `GetClientset`, `FindPodNameFromPrefix` | everything |
| Selection and registry (`collector_selector.go`, `registry.go`, `cmd/collect.go`) | the registry | `GetCollectorsToRun` | command line, runner |
| Environment verification (`pkg/verify`, `pkg/validations`, `utils/errors.go`) | list of checks and results | `getValidations`, `NewValidationResult`, `report` | device readers, cluster |
| GNSS, PMC, file system DPLL collectors | none beyond the context | `Poll` | runner, fetcher |
| Fetcher and commands (`pkg/fetcher`, `clients/command.go`) | command list, post-processor | `Fetch`, `ExtractResult`, `unmarshal` | execution context |
| Device readers (`pkg/collectors/devices`) | maps of fetchers by interface, without a lock | `GetPTPDeviceInfo`, `GetGPSNav`, `BuildDPLLInfoFetcher`, ... | fetcher |
| Callbacks (`pkg/callbacks`) | file handle | `Call`, `CleanUp` | collectors |
| Command line, logging | flags | — | — |

What is hard, and what makes each part correct:

* **Runner.** Goroutines meet at bounded channels whose reader (the main loop)
  stops reading in shutdown; a count is read next to a WaitGroup that is updated
  a step later. It is correct if it always ends, loses no poll before clean-up,
  does not deadlock on reporting errors, and never forgets that the device
  information must be fetched again.
* **DevInfo store.** Three polls fetch, store and announce at once while errors
  arrive; errors are merged into one request to fetch. It is correct if a poll
  that was asked to fetch announces nothing older than the request, and every
  error is followed by such an announcement.
* **Log collector.** Overlapping windows of a growing log arrive late and out of
  order, are kept by generation and merged, while three goroutines are stopped
  in turn. It is correct if the file is the log: no line lost, repeated or out
  of order, and clean-up returns.
* **Debug pod.** One pod name, several invocations, calls that take effect and
  still fail, a kubelet that may not react. It is correct if everybody polls and
  deletes their own pod only and nobody waits for ever for the kubelet.
* **Execution context.** Restarts of the daemon change the pod's name under
  concurrent polls. It is correct if it ends up with the name of the new pod.
* **Fetching.** One script prints what several commands say, any part may be
  missing or odd, and reflection copies results into fields by name and type. It
  is correct if a record has all its fields, what is yielded has their types, and
  its states are those of the right clock.
* **Selection.** Groups, names, spellings in any order; correct if what is named,
  in any case, runs once.
* **Verification.** Retries with failures in between, errors that lose their
  type when joined; correct if the report speaks of one read and the exit status
  follows from the data.

`PROJECT.json` lists the hazards line by line.

## Modules and how they map to the code

| Module | Models | Notes |
|---|---|---|
| `CollectorRunner` | `Run` from `start()` on, `poller`, `Poll`, `monitorErroredPolls`, `WaitGroupCount` | one program counter per goroutine; poll goroutines, being alike, are counted by progress |
| `CollectionLifecycle` | what `Run` promises its collectors: `Start`, then polls, then `CleanUp` once, then the callback's | the abstract specification |
| `DevInfoStore` | what the concurrent polls of the DevInfo collector fetch, store and announce, and how errors ask for a fetch | the hand-over of errors, `CollectorRunner`'s subject, is one queue here |
| `LineDedup` | `dedup.go` but for `WriteOverlap` | pure operators and recursive functions |
| `LogWindows` | the windows a poll can read, for checking `LineDedup` against a reference definition | |
| `LogFollower` | log collector, generations, dumper, `GenerationalLockedTime`; uses `LineDedup` | |
| `NetlinkPod` | `CreatePodAndWait`, `DeletePodAndWait`, the netlink collector's `Start` and `CleanUp`, for several invocations | API server and kubelet are the environment |
| `DaemonContext` | `execCommand`, `refresh`, `FindPodNameFromPrefix` against restarts of the daemon | |
| `DeviceFetch` | `Fetch`, `ExtractResult`, `unmarshal` and the post-processors in `devices`, what `FileCallBack.Call` cannot write | polls of one fetcher at once, chosen in `Init` |
| `CollectorSelection` | `GetCollectorsToRun`, the check for the log output file | |
| `EnvVerify` | `verify.go`, `result.go`, validations, `errors.go` | |
| `CollectorRunnerProofs`, `DevInfoStoreProofs`, `LogFollowerProofs`, `NetlinkPodProofs`, `DaemonContextProofs`, `DeviceFetchProofs`, `CollectorSelectionProofs`, `EnvVerifyProofs` | — | what is proved of the module each is named after |
| `MCLogFollower`, `MCCollectorSelection` | instances for TLC: a symmetry set, sequences | the other modules are instantiated by their `.cfg` alone |

Definitions marked "Broken" in a comment are the faulty variants used to show
that a property can fail; no specification uses them.

**CollectorRunner.** `mainPc` goes `starting` (start), `loop` (the condition at
runner.go:258), `select`, `sendErrored`, `forward`, `waitCollectors`,
`waitAnnouncers`, `cleanUp`, `closing`. `pollerPc` follows runner.go:138-182.
A channel whose contents matter is a sequence (`results`), otherwise its length.
`Done()` takes two steps, the count and then the WaitGroup, as in utils.go:49-52.
A poller past its `select` (`default`) may still spawn a poll after the main
goroutine has forwarded the signal; `StillToCome` counts that poll's result.
`IfErrorExitOrPanic` is `mainPc = "panicked"`, which stops every goroutine. The
plain collectors' polls always report; DevInfo's first chooses between fetching
and the stored information. `refetchOwed` is a history variable.

**DevInfoStore.** The information is a number that grows with each change of the
device. A fetch takes its request (`TakeFetch`), reads the device at some moment
(`ReadDevice`), stores (`Store`) and announces (`Announce`) in separate steps,
since nothing excludes another poll between them; a poll without a request goes
from `UseStored` to `Announce`. `took`, `since`, `overtaken`, `answering` and
`unanswered` are history.

**LogFollower.** A line is its number. The clock shows seconds, which matter when
a stream is opened: `second` is how many lines the log had when the second of the
last one began, the next stream has that second or a later one, and `SinceTime`,
which is sent in whole seconds, asks for the lines from there on. A poll takes the time to ask
from, opens its stream, reads the generation, sends its slice and updates
`lastPoll` in separate steps, and nothing keeps another poll, or a flush, from
coming in between. A stream is read up to a line after the expected end, one poll
interval after its opening; as the clock and the log are free, that may be any
line, and it may break off before. Of equal slices one is kept, as `DedupAB(x, x)`
yields `x`, and the order the unstable sort gives to ties, which are identical
windows, does not matter. `regular` is a history variable: no stream broke off
before the moment it was opened at, and no slice came out of turn (`InTurn`: none
of its lines was on its way to the file already, and of it and any slice that
waits to be flushed, one begins, ends and has its generation no earlier than the
other).

**NetlinkPod.** One program counter per invocation: the runner starts and cleans
up one collector after the other, and after the last poll. Polls change no state
here. A failed `Start` or `CleanUp` ends the process. The pod is a single
record, as its name is fixed.

**DaemonContext.** Pods are numbered in order of creation and never come back.
The daemon set may delete and create in either order, so that for a while no
pod, or two, carry the prefix.

**DeviceFetch.** `Init` chooses one of seven fetchers; tables give its commands,
the results of its post-processor and the fields of its struct with their types.
Every fetcher is there, with its post-processor, before it is used: an `init`
builds it, a collector's constructor (dpll_collector_fs.go:74,
dev_info_collector.go:158) or `Start`. That a reader builds a missing one
(dpll_fs.go:97) therefore never happens.
An output is none, odd or good (or `nan`, `overlong`, where the code treats those
apart); regular expressions are abstracted to whether they match. A netlink dump
is a list of entries with clock, type and status.

**EnvVerify.** An error is the chain of types it wraps; `%s` loses the chain,
`%w` does not. Data is a number: the place of a version among the minimums, or a
count of what is looked for. Comparing version strings is abstracted to that
place. A version of the driver below 5.14 is unknown, never a failure, although
its own minimum is 1.11: `NewDeviceDriver`'s error comes first. The JSON report
calls back for one result after the other, and goes on after one that cannot be
written (`unwritten`).

## What the runs check

| Run | Question | Result |
|---|---|---|
| `RunnerSafety` | with failing collectors and repeated signals: no poll outlives the beginning of clean-up; the monitor never blocks; no error is forgotten before a fetch; forwarding a signal never blocks; the inductive invariant `IInv`; refinement of `CollectionLifecycle` | holds |
| `RunnerLive` | the run ends after the duration; handing over errors never stops the main loop; an error leads to a fetch; a shutdown completes if the results still to come fit in `pollResults` | holds |
| `RunnerSignal` | a signal ends the run | violated |
| `DedupWindows` | windows without gaps merge into exactly the lines read; so do those of one generation; gaps on one side are filled; merging never indexes out of range | holds |
| `Follower` | whatever order the polls' steps come in and wherever streams break off: no merge runs out of range, clean-up outlasts both goroutines, `CleanUp` returns whatever is in the channels; while streams last and slices come in turn: the file is a prefix of the log, and no line the polls have gone past is missing at the end | holds |
| `FollowerLate` | no line is written twice | violated |
| `Pods` | `IInv`: who holds the pod, since when, and whose it is; a started collector is on its own running pod; clean-up leaves nothing; a leftover pod is not touched; the waits in `CreatePodAndWait` and `DeletePodAndWait` return | holds |
| `Daemon` | `IInv`: nobody holds a name newer than a listed pod; a slow lookup takes the context back only to a pod that is gone; the context ends up with the last pod's name | holds |
| `Selection` | the case of a name makes no difference | violated |
| `EnvVerify` | `IInv`: no check holds the data of a nil antenna check, only a last read without an error goes on; what is reported of the antenna was read last and together; a connected antenna is never taken back; data determines the exit status in both formats; a report has everything but the results that could not be written | holds |
| `DevInfoStore` | `IInv`: the information in hand and stored lies between the request and now; a poll asked to fetch announces nothing older than its request; older information is stored only by a fetch during which another one stored, and is no older than its own request; every error is answered by an announcement fetched after it | holds |
| `Fetch` | records have every field; netlink states are those of this clock; what is yielded has the types of the fields | holds |

Only `FollowerLate`, which checks an invariant, uses symmetry.

## Bounds, and why they are enough

* Runner: queues of one place instead of ten, one or two running polls instead
  of three. Every hazard there is a full queue or a limit that is reached, and
  small ones are reached sooner. The invariant is proved for every size.
  `MaxSignals` 2, in `RunnerSafety`, is the least with a repeated signal;
  `RunnerLive` has one, which `RunEnds` and `ErrorLeadsToFetch` exempt and
  `ShutdownEndsWhenResultsFit` needs. `MaxLeaving` bounds the polls between
  the two steps of `Done()`, which have no bound in the code; the proofs hold
  for any value. There is one plain collector, which may fail in `RunnerSafety`,
  besides DevInfo: two groups of one poller, which is what the loops of the
  main goroutine tell apart.
* Log windows: six lines admit three windows that overlap, touch or are apart.
  Windows with gaps (`MaxGappy`) are merged in pairs only, for the merge of
  three of them loses repaired lines (see [Findings](#findings)). All
  four properties are proved for logs of any length and any number of windows.
* LogFollower: three lines, three streams, two polls and channels of one place
  fill every channel while each goroutine is stopped; three streams are the least
  for a slice to come after two updates of `lastPoll`, with one generation flushed
  (`KeepGenerations` 1 instead of 5) while another comes in. `MaxStreams` bounds a
  number that only ever grows. The safety properties are proved for any values.
* NetlinkPod: three invocations, so that two compete after a third left its pod;
  two failing calls and two deletions by somebody else, so that one failure or
  deletion can follow the other. A run of the tool starts its collector once;
  the second `Start`, which `Collector` documents as possible, may take another
  invocation's pod for its own, as `c.pod` is not reset, and therefore
  `StartedOnOwnPod` and `LeftoverStays` speak of first Starts (`FirstStarts`).
  `CleanedUpLeavesNothing`, `WaitsReturn` and the rest of `IInv` hold for second
  ones too.
* DaemonContext: three concurrent polls (`maxRunningPolls`) and three restarts,
  one more than a poll can miss between its two lookups' steps.
* DevInfoStore: three polls (`maxRunningPolls`), so that one may overtake two; two
  changes of the device tell before, during and after a fetch apart; three
  failures, so that an error can follow the fetch another one asked for; a queue
  of two errors. The invariant is proved for any values.
* DeviceFetch: two polls, as concurrent ones share the fetcher; two entries of a
  netlink dump, the least with an order; every output of every command.
* Selection: three names, any of them a group or in another case: a pair that
  interferes and a third around it.
* EnvVerify: two checks with odd data among thirteen, since results are only
  combined by "any"; all sequences of three reads; two results that cannot be
  written (`MaxUnwritten`), so that others come before, between and after them.

## Fairness

* Runner: weak fairness for each goroutine, as the Go scheduler runs what can
  run and commands return or time out. Strong fairness where a `select` chooses
  among ready cases (taking the signal, spawning a poll) and for senders blocked
  on a channel, which Go serves in order.
* DevInfo store: weak fairness for each poll and the monitor, as above, strong for
  a poll's report, which waits for its place in a queue that Go serves in order.
  A fetch or a callback may fail, but not for ever (`MaxFailures`): an error that
  each fetch repeats is never answered.
* Log collector: weak fairness for the goroutines. `WF_vars(SlicerStep)` is
  spelled out with an explicit enabling condition, because evaluating ENABLED
  would redo every merge; it leaves out the flush of the `select`'s default, which
  is assumed less than the code gives. The environment (log, polls) has none.
* Pod: weak fairness for the steps of `CreatePodAndWait` and `DeletePodAndWait`.
  Their loops have deadlines (exec_command.go:277, 324), and each API call in them
  has the client's timeout of 10 s (clientset.go:75). Nothing is assumed of the
  kubelet, nor of the exec that asks for the clock's id, which has no deadline
  (exec_command.go:133): `Start` as a whole may not return.
* Daemon context: polling goes on, a lookup asked for again and again is
  answered at some time (strong), an old pod goes and a missing one is replaced.

## Proofs

All are checked by TLAPS, for every value of the constants that satisfies the
named assumptions: a finite set of collectors with DevInfo and the callback
apart, positive limits; a finite set of polls, any number of restarts, failures
or lines, any list of names. Of the log collector's file something is said only
while streams last and slices come in turn, see `LogFollowerProofs`.

* `CollectorRunnerProofs`: `InvariantIInv` proves `Spec => []IInv`, and from it
  `TypeCorrect`, `CleanUpFindsNoPolls`, `MonitorIsNeverBlocked`,
  `NoErrorForgotten`, `ForwardingIsNeverBlocked`.
  The last four are not inductive. That clean-up finds no poll needs `PollsCounted`
  (a poller's count and WaitGroup are its polls by progress, and both are zero
  when it ends), `PollersCounted` (the groups' counts are the pollers by state)
  and `RunOrdered` (every collector has a poller from its start on, clean-up
  begins when both groups count zero). That forwarding never blocks needs
  `ForwardedOnce`: after one forwarding Run waits until every poller has ended,
  so a second signal is never taken. The proof has one step per action of
  `Next`, under it one per part of `IInv` that the action changes.
  `ImplementsLifecycle` proves that `Spec` implements `CollectionLifecycle`, step
  by step, the mapping being `Phase`, `started`, `pollCount` and
  `cleaned`; it rests on `IInv`.
* `DevInfoStoreProofs`: `InformationPlaced` proves `Spec => []IInv`, that what a
  poll fetched is no older than its request (`FetchedAfterRequest`), and, while
  nobody stored since, no newer than it is what is stored (`StoreBeforeRequest`).
  `AnswersAreFresh` and `OlderOnlyByOverlaps` follow step by step from it.
* `NetlinkPodProofs`: `InvariantIInv` proves `Spec => []IInv`, for any set of
  invocations. `StartedOnOwnPod` alone is not inductive: a pod is the waiter's
  because it holds a pod (`HoldersHold`), it holds one only since its first
  `Start` (`HeldSinceStart`), and nobody else's step makes the pod go or changes
  hands (`OnOwnPod`). `StartsOnOwnPod`, `CleanUpLeavesNothing` and `LeftoversStay`
  are derived from it.
* `LogFollowerProofs`: that the file is the log, at any time a prefix of it
  (`FileStaysPrefix`) and after `CleanUp` with every line gone past
  (`NoPassedLineLost`), with the types (`TypeCorrect`) and without a panic in a
  merge (`FlushNeverPanics`). The argument climbs from data to state:
  - windows of numbered lines join, split and merge (`WindowsMerge`: `DedupAB` of
    two that overlap or touch cuts the earlier where the later begins);
  - slices sorted by rank, none beginning after the end of the one before, form
    a `Chain`, and `DedupLineSlices` of it is one window (`ChainDedup`), by
    induction from the last slice backwards;
  - slices of any two of which one begins, ends and has its generation no earlier
    than the other (`Ordered`), and each of which begins where an earlier one still
    goes on or the first one does (`Joined`), sort into such a chain (`ListMerged`);
    so do those of one generation (`GenerationJoined`, `GenerationMerged`), and so
    do, generation by generation, the merged ones (`FlushMerges`);
  - `StopInv` says where the goroutines and `CleanUp` may be. It needs nothing of
    the polls and alone gives `CleanUpOutlasts`;
  - `FollowInv` says what the polls, the channel and the store hold while streams
    last and slices come in turn. It speaks of a line F, up to which all is in the
    file or on its way to it and before which no stored slice begins (`Output`).
    The point is `Reached`: where a slice begins, where a poll asks from, and where
    it will have the next one ask from, lies within F or within a slice that
    begins earlier (`Reaches`), in whatever order the slices come and whenever
    `lastPoll` is updated. So a flush leaves no gap (`FlushReady`), and the slice
    it keeps reaches as far as those it merged. F is not a variable: `FollowInv`
    only says that there is one, and a flush names the next (`FlushKeeps`).

  All but `CleanUpOutlasts` say nothing of what follows a stream that broke off
  early or a slice out of turn (`regular`). That is no bound on the schedule: polls
  may overlap in any way, several may share a generation, one may read its lines
  ahead of its generation and update `lastPoll` late, and flushes may come at any
  time. Past such a slice the statements about the file are false, as
  `FollowerLate` and finding 7 show; `NeverPanics` is checked there too, not proved.
  The invariant was checked by TLC first.

  Beyond what these steps need, the properties of `LogWindows` are proved without
  any condition:
  - `DedupAB` and `fixLines` call themselves, so that the functions exist is the
    first thing to show. It is, for any loop (`LoopExists`), without a measure;
  - `fixLines` moves the first issue on (`StitchHelps`), which bounds the calls to
    come (`Todo`), and two windows with a line in common never run out of it
    (`SoundFixed`): `MergesNeverPanic`. Overlapping windows are mended by the first
    round of the loop, the second finds nothing (`OverlapMends`);
  - with gaps on one side only there is a line of both between any two that one
    has and the other has not (`GapsApart`), the loop keeps it so and drops no line
    (`GapsApartFixed`): `OneSidedGapsAreFilled`. `GapsOfBothSidesMerge`, which is
    false (finding 8), lacks just that;
  - of slices that sort into a list ending in the order it begins, the reference
    starts with the window just merged (`Starts`), so the next one is merged without
    a repair (`WindowBefore`), by induction from the last slice backwards:
    `MonotoneWindowsAreMerged` and `GenerationsAreMerged`.
* `DeviceFetchProofs`: `RecordsAreAlwaysWhole`, `StatesAreAlwaysOwn` and
  `NoTypeEverFails`, for any set of polls. What good outputs and a post-processor
  yield has the fields' types (by cases over the tables); the entries of a dump
  of any length are followed by induction.
* `CollectorSelectionProofs`: `SelectionIsHonoured`, for any names without repetition
  (`SelectionNames`) and any length of the list: what the loop over the list has
  added is what was named so far, by induction over the list. What is named in
  another case than the registry's may or may not run, see finding 3.
* `EnvVerifyProofs`: `InvariantIInv` proves `Spec => []IInv`, whatever data is odd:
  the lists of checks are typed (`TypeOK`), the antenna check is as old as the
  last read unless that failed (`ReadsInStep`), and only a last read without an
  error goes on (`LoopEnds`). `StatusIsOfLastRead` follows. `FoundAntennaIsReported`
  adds what the reads so far found. `ExitTellsTheFailures` and `ReportsAreComplete`
  add what was printed and returned (`InvariantReportInv`): the results in the
  order they are reported in are those of the checks, what was called back for is
  written or among `unwritten`, and the type of the error that is returned is found
  by what it wraps.
* `DaemonContextProofs`: `NoOlderPodIsListed` proves `Spec => []IInv`, where the
  point is that names found and not yet stored are as old as anything listed;
  they stay so, as pods only come with higher numbers.
  `FallsBackOnlyToAGone` derives the action property from it.

The library's induction theorems take an operator as a parameter, which the
provers cannot instantiate. Induction is done over sets instead: the places up
to n, or the lengths, at which a statement fails have a least element
(`NatLessThanWellFounded` and `WFMin`), and that one cannot be. Recursion in the
models is therefore by recursive functions over a domain, and sorting is by rank,
as `SortSeq` and `SelectSeq` cannot be expanded.

Only model-checked:

* liveness (`RunEnds`, `ErrorsNeverBlockMain`, `ErrorLeadsToFetch`,
  `ShutdownEndsWhenResultsFit`, `CleanUpReturns`, `WaitsReturn`,
  `FollowsTheDaemon`, `ErrorIsAnswered`), out of the prover's reach;
* `NeverPanics` and `TypeOK` of `LogFollower` once a stream broke off or a slice
  came out of turn: that would take what `fixLines` makes of slices with gaps on
  both sides, merged again and again.

## Findings

The first three are counterexamples of runs; `PROJECT.json` quotes the lines.

1. `RunnerSignal`: after a signal nobody reads `pollResults`, and with more
   than ten results to come the process hangs (runner.go:268).
2. `FollowerLate`: a slice that comes late is written a second time
   (lines.go:215). In the trace a poll takes the time to ask from before another
   one updates `lastPoll` (log_follower.go:208), and its slice comes after the
   lines were flushed.
3. `Selection`: names are compared exactly (collector_selector.go:58), while the
   help text says "(case-insensitive)" (collect.go:136).

The next are stated in the modules and belong to no run. Each is found by TLC
within seconds, in a configuration like that of the component's run with the
statement in place of its properties.

4. `ExitCleansUp` in `CollectorRunner`: a failing `Start` or `CleanUp` skips the
   clean-up of the other collectors, for instance the deletion of the debug pod
   (runner.go:189).
5. `RestartNotRefused` in `NetlinkPod`: `c.pod` is not reset, a `Start` after a
   `CleanUp` fails (exec_command.go:293).
6. `AnnouncerOutlivesCollectors` in `CollectorRunner`: in some orders of a map
   DevInfo ends at once, and announces nothing (runner.go:132).
7. `NoLineMissed` in `LogFollower`: the lines that one poll has read are dropped by
   the merge when a poll that asked from an earlier time reads the generation
   late: its slice, of the next generation, begins before the other one's
   and ends sooner, and is taken for what follows (log_follower.go:208, 225). A
   stream that breaks off has the same effect, though another window has the
   lines: the merge takes the short window's end for the log's (log_follower.go:184).
8. `GapsOfBothSidesMerge` in `LogWindows`: `fixLines` drops a line only one
   window has, when the other has one in the same place (dedup.go:85).
9. `NeverOlder` in `DevInfoStore`: of two fetches at once the one that stores last
   may have read the device first, and its older information is announced until
   the next error (dev_info_collector.go:81).
10. `NeverCrashes` in `DeviceFetch`: a dump with an entry that has no clock ID is
    dereferenced (dpll_netlink.go:94), and a time accuracy out of the range of an
    int is reported with a group the pattern does not have (gps_ubx.go:172).
11. `UnparsedIsError` in `DeviceFetch`: netlink output that cannot be parsed is
    logged, and a record without states is written (dpll_netlink.go:88).
12. `EmptyListingIsNoError` in `DeviceFetch`: the comment on the listing of GNSS
    devices says "we just get an empty string if there is nothing", but an empty
    output fails the whole fetch (gps_ubx_ver.go:90).
13. `LogsOutputRequired` in `CollectorSelection`: "defaults" avoids the check for
    the output file (collect.go:58).

Seen while modelling, without a statement: with three slices or more, lines that
`fixLines` repairs into a later slice are not in the result (dedup.go:201-205),
and it appends a line again when no later line matches; a flush whose last slice
is of the oldest generation leaves `Oldest` where it was, so that `ShouldFlush`
stays true and its lines are sent again and again (lines.go:199-215, seen with
`MaxStreams` 4); the output file is opened without truncation
(log_follower.go:140).

## What is not modelled

Regular expressions, formatting, JSON, logging and flags: data without control.
Building the collectors (`initialise`) and the choice between the netlink and
the file system DPLL collector (`IsDPLLFileSystemPresent`) happen before the
first goroutine; `RequirementsNotMetError`, which `initialise` would skip a
collector for, is created nowhere. A failure to open the output file, which panics, is left out, as
is a second node with a daemon pod (`FindPodNameFromPrefix` then never has an
answer). `MarshalVersionAndError` always returns an error, but `GetData` passes the
embedded `VersionCheck` to the callback, so it is not reached.

## Plan

Done, in this order: `CollectorRunner` with its refinement and proofs,
`LineDedup` and `LogWindows`, `LogFollower`, `NetlinkPod`, `DaemonContext` with
proofs, `CollectorSelection`, `EnvVerify`; then `DevInfoStore` with proofs,
`DeviceFetch`, and the proofs of `NetlinkPod` and `EnvVerify`; then the proofs of
`LogFollower` and `LogWindows`, `CollectorSelection`, `DeviceFetch` and of
`EnvVerify`'s reports.

Next:

1. Start-up: `initialise`, the choice of the DPLL collector and what a
   constructor's failure leaves, composed with `CollectorRunner`'s `Init`.
2. Composition of `LogFollower` with the runner's poller: the intervals at which
   polls begin, and which slices then come out of turn.
3. A promise the merge keeps for windows cut short by a broken stream, and for
   three windows with gaps, if one can be found; with it, that no merge panics
   without the condition `regular`.
