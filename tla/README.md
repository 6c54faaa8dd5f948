# Formal model of directory-exporter

This directory holds TLA+ specifications of directory-exporter, the TLC
configurations that check them on small instances, and proofs that TLAPS checks
for every value of the constants.  File and line references are to the Go
sources at the root of the repository.

## 1. Inventory of the system

directory-exporter watches directories and publishes file counts, timestamps,
stream activity and backlogs as Prometheus metrics.

| Component | State it keeps | Operations | Talks to |
|---|---|---|---|
| start-up and shutdown (`main.go`) | none | load the configuration, first `Discover`, start two loops and the server, wait for a signal, `Stop`, `Shutdown` | exporter, server |
| orchestration (`exporter.go`) | `stopCh`, `reloadCh` (capacity 1), `wg`, `scanMu` | `Discover`, `TriggerReload`, `Stop`, `RunScanLoop`, `RunDiscoveryLoop` | watch list, cache |
| scan cycle (`exporter.go` `ScanAll`, `activity.go` `ScanAllNodeActivities`, `buffer.go` `ScanAllNodeBuffers`) | per cycle: three semaphores, three WaitGroups, result maps, error counter, deadline | three fan-outs; two side by side, the third reads the results of the first | scanner, cache |
| directory scanner (`scanner.go`) | per call: count, timestamps, flags | read in chunks, two caps, cancellation | file system |
| metrics cache (`cache.go`) | three maps and a time under an RWMutex; four atomics | `SetBatch`, `Snapshot`, `IncrReload`, `SetWatchedTotal`, `IsReady` | scan cycle, server |
| watch list (`watchlist.go`) | a slice under an RWMutex | `Set`, `Get` | orchestration |
| discovery (`watchlist.go`) | per call: the watch list so far, the first error, the real paths on the way down | walk with depth, glob patterns, `#include`, symbolic links; labels | file system |
| server (`server.go`) | none | `/metrics`, `/-/reload`, `/-/healthy`, `/-/ready` | cache, orchestration |
| readers (`activity.go`, `buffer.go`) | per call: the `seen` keys, the latest entry, the source directories | find stream nodes, tell their type, parse traces, audit files and node configurations | file system |
| rendering (`metrics.go`) | none | a snapshot to text | server |
| configuration (`config.go`) | none after start | three layers, each with a test per setting; targets from the file or `BASE_PATH` | main |

What is hard in it:

* **Concurrency without a common lock.**  `Discover` runs in three places, and
  stores the list and its length separately.  Snapshots read four fields under a
  lock and four after it.  The results of one fan-out are read by the next
  without a lock.
* **Ordering.**  Reloads coalesce into one signal; a signal may be dropped, and
  an earlier walk may consume one.
* **Failure and time.**  The deadline may pass at any point of a cycle; volumes
  vanish during a walk; directories fail to open, files vanish before `lstat`.
* **Reading what changes.**  A walk looks at the disk three times for every
  directory, while links appear and directories leave; traces grow and rotate
  while they are searched; one file says what a node is and is read twice, at two
  moments, by two different parsers.
* **Stopping.**  Loops register with the WaitGroup from inside their own
  goroutines; the server still answers while the loops are being waited for.

`PROJECT.json` lists these hazards one by one with their lines and the
properties that watch over them.

## 2. Modules

| Module | Models | Kind |
|---|---|---|
| `Exporter` | `exporter.go` without the inside of `ScanAll`, `main.go` from `NewExporter` on, `WatchList`, `discoverTargets`, `handleReload` | state machine |
| `ExporterProofs` | theorems about `Exporter` | proofs |
| `MetricsStore` | what the cache promises | abstract specification |
| `Cache` | `cache.go` and its two HTTP readers | state machine, refines `MetricsStore` |
| `CacheProofs` | theorems about `Cache` | proofs |
| `ScanOutcome` | the ways in which the scan of a directory may end | operators, shared by the next two |
| `ScanCycle` | `ScanAll` and the two fan-outs it starts | state machine |
| `ScanCycleProofs` | theorems about `ScanCycle` | proofs |
| `DirScan` | `scanDir` | state machine |
| `DirScanProofs` | theorems about `DirScan` | proofs |
| `Config` | `LoadConfig` | operators |
| `Discovery` | `discoverTargets`, `discoverDirectories`, `DiscoverStreamNodes` on a changing tree | actions |
| `NodeScan` | `detectNodeType`, the activity readers, `resolveNodeBufferPaths` and the backlog of one node | actions |
| `Pipeline` | the three above, one after the other | composition |
| `DataInduction` | induction over the naturals, extremes of sets of numbers, iteration of a recursive function | lemmas |
| `DiscoveryProofs` | the inductive invariant of the walk and the node search, action by action | lemmas |
| `NodeScanProofs` | the inductive invariant of one node's readers and of the search of its trace | lemmas |
| `PipelineProofs` | theorems about `Pipeline` | proofs |
| `MC...` | instances for TLC | |

`Exporter` sees a scan as "copy the list, publish results for part of it";
`ScanCycle` opens that step; `DirScan` opens one worker of it; `Cache` opens the
publication.  The seams are explicit: `ScanPublish` of `Exporter` allows every
subset of the list, and `ScanCycle` shows which subsets occur; `ScanDir` of
`ScanCycle` takes a scan as one step with an ending of `ScanOutcome` ("failed",
"short", "part", "capped", "full"), and `ScanCycleIsRight` of `DirScanProofs` shows
that these endings, under the conditions `MayEnd` gives them, are all that the
steps of `DirScan` lead to.  `Discovery` opens the walk that `Exporter` takes
one target at a time, and `NodeScan` the two fan-outs over nodes that `ScanCycle`
counts workers of.  `Config` gives both their targets and settings, and shows that
`ScanCycle`'s assumption of at least one worker is justified.

Operators marked `Fault:` are deliberately wrong variants of the definition that
follows them.  No specification uses them; each one documents a bug that a named
property would find.

### Exporter

`pc[p]` is where thread `p` is: `main`, `scan` (`RunScanLoop`) or `disc`
(`RunDiscoveryLoop`).  `Discover` is three kinds of step: `VisitTarget`, once for
every target, `InstallList` (`wl.Set`) and `StoreTotal` (`SetWatchedTotal`).  A
Go `select` is one action per branch.  `token` is the one slot of `reloadCh`, and
both senders leave a full channel alone, so setting it to TRUE is the whole
send.  `wg` is the WaitGroup that `Stop` waits for: each loop adds to it with its
own first step, which may come after `Stop` has returned.  `req[r]` follows one
POST `/-/reload`; one receive from `reloadCh` answers every request queued so
far.  The environment mounts and unmounts volumes (`Remount`) and edits
`targets.yml` (`EditFile`).  `clean[p]` is a history variable: the world has not
changed since the last walk of `p` began.

A target contributes one directory.  An explicit target always does, because
`resolveExplicitDirs` does not look at the disk; a discovered one does when its
base can be walked.  The constant `Explicit` is empty in the runs, which is the
harder case; the proofs cover every value.

### Cache and MetricsStore

Each field access is a step.  A value is represented by the number of the batch
it came from.  The lock follows the documented behaviour of `sync.RWMutex`: a
pending writer keeps new readers out, an unlocking writer admits those that
queued behind it.  There is one writer, because `scanMu` serialises `ScanAll`.
`told` and `floor` are history variables that record what clients have learnt.

`MetricsStore` has two kinds of step that matter, `Publish` and `Take`.  `Store`
in `Cache` is the refinement: a batch is published when its last field is
written, and a scrape takes place when it copies the first one.

### ScanCycle

The three fan-outs are the same idiom written three times, so they are one
family of actions indexed by `Pool`: `"dirs"`, `"acts"`, `"bufs"`.  The deferred
calls of a worker run in the order slot, then WaitGroup (`Release`, then
`WorkerDone`).  A cycle for an empty list takes the same course with a
deadline that never passes.  A node has at most one SourceDirectory here.

`Path[d]` is the directory of entry `d` of the list.  Overlapping targets list one
directory twice, and the results map is keyed by the directory: `results[path]` is
the entry whose worker wrote it last, `found[d]` how the scan of entry `d` ended, and
`Held(path)` what the map therefore says, which the third fan-out reuses.  Which
endings a scan has is up to the directory: `Capped` may reach a cap (`Cuttable` of
`DirScan` says when: a file cap is set, and there are more files than it or than
the stat cap), `Faulty` may get an error from `ReadDir`.  All but "failed" count as
successes, and so does a count of `countBufferFiles` that an error of `ReadDir` ended.

### DirScan

One action for each way through the loop body of `scanDir`.  The directory and
both caps are chosen in `Init`.  An entry is skipped, gone (counted, but its
`lstat` fails) or a file with a modification time.  A cap that is not positive is
none; the configuration file may set a negative one (`Config`).  `Statted` are the
files whose `lstat` was made and worked, the first ones, as many as the stat cap
allows; the timestamps are about these and no others (`StampsFromSample`), and zero
only when there are none.  `EndsAsScanCycleSays` is the seam to `ScanCycle`: a file is
missing from the count only where a cap the directory can reach, an error of
`ReadDir` or the deadline accounts for it.

### Config

`LoadConfig` is a function of its layers.  A layer says for each setting an integer
(durations in seconds), or nothing that parses; `FileTakes` and `EnvTakes` are the
tests that the two layers make, which differ (a file may set a cap to a negative
number, the environment may not).  `Usable` is what the rest of the program takes
for granted: `time.NewTicker` panics on an interval that is not positive, a
semaphore without capacity blocks, `context.WithTimeout` expires at once.

### Discovery

A directory is its real path; it has one place in the tree, which it may leave and
come back to.  Links point at directories.  Names are numbers in the order of
`ReadDir`.  A segment of a pattern is the set of names it matches, so `*`, `#include`
and literals differ in that set and in whether they go into the type label.

The recursion of `walk` is a stack of calls: `Enter` takes a directory and lists
it, `Pick` takes the next entry (with the `Stat` of a link), `Descend` is
`EvalSymlinks` with the cycle guard, `Return` releases the guard.  The tree may change
between any two of them (`Change`).  `ListStreams` and `ListNodes` are
`DiscoverStreamNodes`.  `steady` and `seen` are history variables: the paths that
led the same way all the time, and those that existed at some time.  What the
walk owes the operator is stated with them, for a tree that does not hold still.
`IsTree` and `IsTarget` say what a walk starts from: directories that lie in one
another without a circle, a segment without a wildcard that matches one name, and
targets no deeper than the paths that `steady` and `seen` remember (`MaxPath`).

### NodeScan

One node, from `detectNodeType` to its backlog.  `control/1/config` is a sequence of
lines that declare a type or a source directory.  A line is `raw` when the regular
expression of `detectNodeType` matches it (which looks at comments too, and wants
white space and a quote after `NodeType`), `live` when `resolveNodeBufferPaths` takes it.
The words stand for what the two tell apart: "column" contains "col" but is not a
collector for `isCollector`.  A trace file is the sequence of the seconds of this
node's entries, with `Long` for a line that `bufio.Scanner` cannot hold.  The node
appends entries and starts new files, and the operator edits, between any two
steps, and every look at a file is a step of its own: `detectNodeType` reads the
config (`Detect`) and then looks for `audit_info` (`Fallback`), the worker looks for it
again (`StatAudit`) before it reads it (`ReadAudit`), `resolveNodeBufferPaths` reads
the config again (`ResolveConfig`), and `detectNodeType` may follow once more
(`Redetect`, `Refallback`).  `due`, `versions` and `missed` are history variables;
`versions` is what config and `audit_info` have been since the first look, and
`KindsDisjoint` and `ShownAsDeclared` speak of all of them.  `IsTrace` says what
nodes write: each entry in a file of its day, and none older than one written
before it.

### Pipeline

`Init` picks a scenario: layers of configuration, a tree, a node.  The first is
loaded; if it is accepted, the walk runs over its targets, and if that finds a
node, a cycle reads the node's files with the look-back and the threshold of the
configuration.  The other goroutines are the subject of the other modules.

## 3. What the runs check

| Run | Instance | Shows |
|---|---|---|
| `exporter` | 2 targets, 2 good reloads, 1 refused | `QuietTotalExact`, `QuietWatchListCurrent`, `NoLostReload`, `StopWaitsForLoops`, types |
| `exporter_live` | 1 target, 1 good reload, 1 refused | `ReloadServed`, `Converges`, `StopTerminates` |
| `exporter_edit` | 2 targets, one leaves the file | **violated**: `EditTakesEffect` |
| `cache` | 2 scrapes, 2 batches, errors, a reload | `SnapshotsAreWhole`, `ErrorsCoverShown`, `ScrapesNeverGoBack`, types |
| `cache_live` | 2 scrapes, 2 batches | `StoreSpec` (refinement with liveness), `BatchPublished` |
| `cache_cold` | 1 scrape, 1 batch | **violated**: `ColdStartHidden` |
| `scan_cycle` | up to 3 entries (the last leads to the directory of the first), 1 node, 2 slots; one directory may be capped or faulty | eight invariants and `CycleEnds` |
| `scan_cycle_capped` | 1 directory, 1 node | **violated**: `BacklogIsWhole` |
| `scan_cycle_hung` | 1 directory that hangs, 1 node | **violated**: `HardTimeout` |
| `dir_scan` | all directories of up to 4 entries, caps from -1 to 3, chunks of 2 | count, truncation flag, timestamps, `EndsAsScanCycleSays`, `ScanEnds` |
| `dir_scan_stat_cap` | caps up to 4 | **violated**: `StatCapKeepsCountWithFileCap` |
| `pipeline` | families of scenarios, see below | `WatchListComplete`, `WatchListSound`, `LabelsIdentify`, `NodesComplete`, `LatestReported`, `KindsDisjoint`, `ShownAsDeclared`, `ConfigUsable`, `PipelineEnds`, types |

**Bounds.**  Two targets are what it takes for a walk to be half done when the
world changes.  Two reloads are what it takes for one to be absorbed by the
other's signal, with a third party (the discovery loop) competing for the same
slot.  Volumes change without a bound.  Two readers and two batches let one
scrape straddle a publication while another queues behind it, and let a client
compare two answers.  Three entries with two slots make a dispatcher wait
for a slot when the deadline passes, and let two workers of one directory run side
by side or one after the other, around one whose result is a backlog.  Chunks of two and four entries give empty,
partial, full and several chunks, and every position of either cap in them.
Counters (`watchedTotal`, `reloadTotal`, errors) are bounded by the number of
targets, requests and batches, so nothing is cut off.

The scenarios of `pipeline` are families, each rich in one part and plain in the
others: every tree of three directories with up to two links anywhere, under
twelve lists of targets (depths -1 to 3, patterns of up to three segments with
wildcards, literals, `#include`, one that matches nothing, explicit directories
with repetitions, one that does not parse); trees with up to one link and one
change at any moment; trees of four directories with a stream and a node, one of
them unreadable, and two targets of which one may lie in the other; configs of up
to two type lines out of ten with every audit file and name, and one edit; traces
of two days with up to two files of up to two entries, parts numbered 1, 2 or 9,
10, and one entry, rotation or edit; nodes that nothing is sure about, with two edits; every setting with every pair of values of -1
to 3 in file and environment.  Two links are the smallest cycle that is not a link
to an ancestor, and two ways to one directory.  Two files in one day are what it
takes to choose the wrong one.  One change suffices to separate any two looks; with
two, `audit_info` comes and goes between the look that finds it and the one that
reads it, or a node changes its type twice.

**Symmetry** is used for requests and scrapes, in runs without liveness.

**Fairness.**  Goroutines that can run do (weak fairness of each step), system
calls return, timers tick.  Go's `select` picks at random among the branches that
are ready, so a branch that is ready again and again is taken: strong fairness
for the stop branch and the reload branch.  Nothing is assumed of the operator's
signal, of remounting, or of the scan timer.  For the cache, weak fairness of the
steps is enough since the lock itself makes a reader wait for a pending writer.
In `ScanCycle` the clock runs, and as long as any goroutine of the cycle can go on,
one does (`Progress`); a cycle has finitely many such steps, so none is put off for
ever, and nothing more is assumed.  Scans of the directories in `Hung` are exempt.  In `Pipeline` the
program's steps are weakly fair together, as those of one goroutine, and the
environment owes nothing.

## 4. Disagreements between the text and the code

* **`exporter_edit`.**  README.md:111 tells the operator to edit `targets.yml` and
  trigger a reload.  `Discover` walks the targets that were loaded at start-up.
* **`cache_cold`.**  metrics.go:19-21 promises that only
  `directory_cache_ready` is emitted before the first scan completes.  A scrape
  that copies the maps just before the first `SetBatch` and loads `ready` just
  after it is rendered in full without a batch.
* **`scan_cycle_capped`.**  buffer.go:14-22 calls the backlog the file count of the
  SourceDirectory.  When that directory is watched, a count cut off by a cap is
  reused and reported as a success.
* **`scan_cycle_hung`.**  exporter.go:144 speaks of a hard wall-clock timeout.  The
  cycle waits for its workers without one.
* **`dir_scan_stat_cap`.**  scanner.go:99 wants the accurate count past the stat
  cap.  With a file cap set as well, line 121 ends the scan at the next chunk
  boundary.

Noted while modelling, without a run of their own:

* README.md:56 and :79 call `directory_file_count` "always exact".  When `ReadDir`
  fails on the way (scanner.go:125), the count is short, and the result is neither
  marked as truncated nor counted as an error.  `UntruncatedCountExact` excludes the
  case (`readErr`); `EndsAsScanCycleSays` shows that it is the only one.
* scanner.go:18 names the file cap, the stat cap and the context as reasons for
  `Truncated`, as the code has it and `TruncationExplained` shows.  cache.go:28 and the
  log text at exporter.go:202 leave the stat cap out.
* cache.go:24-25 give a timestamp of 0.0 "when the directory is empty", and metrics.go:90
  omits timestamps for a count of 0 only.  A directory whose files vanish between listing and
  `lstat` has a count and timestamps of 0.0 (`StampsFromSample` says exactly when).
* activity.go:160, :188 and :216 speak of the latest entry and of the newest files
  first.  Part 10 of a day is read after part 9, and an unreadable file or a line too
  long for the scanner hides what follows it.  `LatestReported` excludes these cases
  by `NamesInAgeOrder` and `missed`.
* metrics.go:77 speaks of one time series per watched directory.  `LabelsIdentify`
  holds within one target; two targets with the same base or label can give two
  directories the same labels.
* README.md:76 calls `directory_watched_total` the number of directories being
  monitored.  A directory that two targets lead to counts twice, and has one of its
  two label sets in `/metrics`, that of the worker which finished last.
* `Stop` (exporter.go:87) waits for the loops that have registered.  A loop whose
  goroutine has not run yet when `Wait` is called registers later and may still scan.

## 5. What is proved

The theorems hold for every value of the constants, under the named assumptions
of each module: at least one target and `Explicit` a set of targets (`Exporter`);
bounds that are natural numbers (`Cache`); at least one entry and one slot, `Path` a
function from entries to directories, `BufferDir` one from nodes to directories or none
(`ScanCycle`); chunks of at least one entry and
timestamps that are positive (`DirScan`); scenarios that satisfy `IsTree`,
`IsTarget` and `IsNode`, and a generated secret that is not empty (`Pipeline`).
Bounds such as `MaxBatch`, `MaxPath` and the number of changes are constants like
any other, so a theorem covers behaviours of every length.  TLC evaluates every
assumption on the instances of section 3.

**`ExporterProofs`.**  `TypeCorrect` needs `WgExact` (the WaitGroup counts exactly
the loops that have registered and not left) and `LoopsAfterMain`, since types
alone do not keep a counter from turning negative.  `StopIsGraceful` follows from
`WgExact`.  `ListCurrentWhenQuiet` and `TotalExactWhenQuiet` rest on `RaceInv`:
a walk that has seen an unchanged world has collected what is visible
(`WalkFaithful`); nobody walks beside `main` before the loops start
(`MainAlone`); and whenever the list, or its stored length, is outdated, the
discovery loop is before a repairing walk or a signal for one is on its way
(`ListRepaired`, `TotalRepaired`).  The last two are why the properties are not
inductive alone: they say nothing while a walk is under way, and that is when the
damage is done.  `NoReloadIsLost` is inductive together with the types.

**`CacheProofs`.**  `FieldsExact` says which fields of the cache are one batch
behind at each point of `SetBatch`, `LockExact` that no reader holds the lock
then, and `SnapExact` what a reader has copied so far.  `SnapshotsWhole` and the
refinement theorem `CacheRefinesStore` follow; its step lemma shows that
`WriteTime` is a `Publish`, `CopyEntries` a `Take`, and most other steps stutter.
`ErrorsFitBatch` adds `ErrorsExact` (the atomic counter lags the published batch
by what `AddErrors` has still to add) and `ErrorsSeen` (what a reader's copy
implies about the counter it will load).  `AnswersNeverGoBack` adds bounds on
what clients have been told (`ToldBounded`) and on what a scrape under way has
read, relative to what was told before it began (`Answers`).

**`ScanCycleProofs`.**  `PoolExact` describes one fan-out: the semaphore counts
the workers that hold a slot, the WaitGroup those that have not left plus the one
being admitted, and no item the dispatcher is still to reach has a worker.  `StageExact` ties
the fan-outs to the course of `ScanAll`.  From the two follow `SlotsSuffice` and
`HandOver`.  `LateExact`, `DirsExact` and `BufsExact` describe what the workers leave
behind: which scans have ended, and in a way their directory allows; that a partial
one means that the deadline has passed; that the error counter is the number of
failed scans, whether or not the map still holds them; that no backlog worker is
admitted once there is a partial one.  `MapExact` relates the map to the scans: it
holds an entry of the very directory that is its key, one whose worker has recorded,
and lacks no directory of which a worker has.  From these follow the five other
theorems.

**`DirScanProofs`.**  The properties speak of the end of a scan; `IInv` says the same
of its middle.  `CountSoFar` counts the files among the entries handled, by
cardinality of a set that grows with `pos`; `CapsHold` bounds the two counters;
`GoesToTheEnd` says that a scan nothing disturbed is past its chunk when it leaves
it, and leaves the loop only on an error or `io.EOF`; `Explained` and `Stamps` carry
the reason of a truncation and the witnesses of the timestamps; `LooksSoFar` relates
`statsDone` to the files that could be looked at, which is how `Stamps` knows that the
sample stops at the stat cap.  `ScanCycleIsRight` puts them together: it is what allows `ScanCycle`
to take a scan as one step.  The theorems hold for directories of every length, every chunk size and every pair of caps.

**`PipelineProofs`.**  `AcceptedUsable` goes setting by setting through the three
layers, for every integer in each of them.  `NodeKindsDisjoint` rests on `KindInv`,
which says for each point of the cycle what the files must have said by then: the
traces are searched only for a node that is not taken for a collector and, if for
nothing, had no `audit_info` at some time; a backlog is counted only for one that may be
a collector and, if discovery found no type, was once said to be one.  It holds for
every config, trace and edit between any two looks.  What it leaves cannot be excluded:
where the first declaration is a word that `detectNodeType` does not know, or is followed
by a colon, or comes only later, and another look says collector, the node is searched
for in the traces and has a backlog counted as well.

`NodeShownAsDeclared` adds `ShownInv` to it: a collector's activity is never shown
for what is taken for a distributor, and a node whose config declares one type in all
its versions has that type from the first look on, and a collector ends with a backlog;
`DeclaredReaders` shows that both parsers then read the same type.
What `LatestIsReported` says of the end of the search, `SearchInv` of
`NodeScanProofs` says of its middle: until an entry is found, the one that was the
latest when the search began (`due`) is still ahead of the reader, which goes from
today backwards and takes the files of a day by their names (`Ahead`), unless a file
on the way was unreadable (`missed`).  What the writer may do meanwhile enters
through `Grows`: files change only at their ends.

The theorems about the walk and the node search are read off `DiscoveryInv` of
`DiscoveryProofs`.  Each of its parts is there because the next ones fail without
it:

* `TreeInv`, `HistoryInv`: a directory that exists is where `home` says, `steady` is
  among the paths that exist now and those among `seen`.
* `WalkInv`: the stack has one call for each prefix of the path at hand, and the
  guard holds the real paths of exactly these calls, no one twice.  This is where a
  `Return` that released too little or too much would show; `GuardIsTheStack` states it.
* `RealInv`: a call on the way to a steady path is in the directory of that way;
  hence the guard turns a steady path away only if the path itself runs in a circle.
* `CompleteInv`: a steady path that the target asks for is on the list, accounted for
  by an error, or *pending*: on the way of the call at hand or behind an entry that is
  still to be picked.  `NothingIsMissed` is the case in which nothing is pending any
  more.  `WantedPrefix` shows that `matchPatternPrefix` never prunes such a way.
* `TodoInv`, `EntriesInv`: a name leaves a listing when it is picked, so what the walk
  may still come to (`Upcoming`) only shrinks and is not on the list yet; hence no path
  twice.  `Fits` says that an entry has the labels of its path; `LabelsGivePath` and
  `ExplicitLabelsGivePath`, that labels give the path back, from which
  `OneSeriesPerEntry` follows: what is left out of the type label are segments that
  match one name only.
* `SeenInv`, `SoundInv`: every call but the first is for a path that was there at some
  time, and so is every entry, which on a tree that holds still has no circle on its
  way (`TopHasNoCycle`, from the guard).
* `NodesInv`: a node that was in its place all the time is found, or its stream is
  still to be looked into.

**Recursive functions.**  `Exists`, `Way` and `Kept` recurse over the parents of a
directory, over a path and over a list.  The induction theorems of the library take
an operator as a parameter, which the provers cannot instantiate.  `DataInduction`
states induction for the *set* of the numbers that have a property (`InductionTo`,
from `LeastNat`, which is the well-foundedness of `<`), and `Iteration` constructs
the function that a primitive recursion defines.  `ExistsRule`, `WayRule` and `KeptRule`
derive from it that the three functions satisfy their equations; the rest of the
proofs uses these and never the definitions.

## 6. Only model-checked

Liveness (`ReloadServed`, `Converges`, `StopTerminates`, `BatchPublished`,
`CycleEnds`, `ScanEnds`, `PipelineEnds`, the liveness half of `StoreSpec`) is out of
the prover's reach, as is every statement with ENABLED: `CacheRefinesStore` is the
safety half of the refinement.  Every invariant and every action property that a
passing run checks is a theorem.  The five violated properties of section 4 are
counterexamples and have nothing to prove.

## 7. Not modelled

* **Text.**  Layout, sorting and escaping in `RenderMetrics`; the four layouts in
  which `parseDistributorLine` reads a time; `listen_addr`, a string handed on.
* **Container health check, GET /-/healthy, ValidateTargets.**  No state.
* **A second signal** after the first, which ends the process at once because
  `stop()` restores the default handler, and any other sudden death: nothing is
  persisted, so a restart is `Init`.
* **The 15 s limit of `srv.Shutdown`.**  `Shutdown` is one step.
* **Several nodes at once in `NodeScan`.**  Workers share nothing but their map,
  which `ScanCycle` guards; one node stands for each.
* **Midnight during a trace search.**  `now` is taken once, and the look-back counts
  from it, so a new day's files are simply not looked at until the next cycle.
* **Directories that move to another place** within one walk, and links to files.

## 8. Plan

What a next step would add:

1. The other seam as a theorem: that `ScanPublish` of `Exporter` allows what
   `ScanCycle` publishes.  (`ScanCycleIsRight` is the seam below `ScanCycle`.)
2. A second node in `NodeScan`, and labels across targets in `Discovery`, for two
   targets that share a base or a label.
3. Runs of their own for the disagreements that section 4 notes without one, the
   search for the latest trace entry first.
