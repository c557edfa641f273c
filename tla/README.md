# Verification of snmp-collector

TLA+ models of the collector's concurrent parts, checked with TLC on small
instances, and theorems about them checked with TLAPS for every value of the
constants. Paths are relative to the repository (`src/` stands for its root).

## 1. The system

One process polls SNMP devices and ships JSON. Its parts, in the order in which
data passes through them:

| Part | State | Operations | Talks to |
|---|---|---|---|
| Scheduler (`internal/scheduler`) | heap of devices by next run, under `s.mu`; the pool it submits to | loop, `SetPool`, `Reload`, `Stop` | workers, by `TrySubmit` on a buffered channel |
| Workers (`internal/poller/worker.go`) | the `jobs` channel, N goroutines | loop, `Stop` | session pool; decoders through `rawCh` |
| Session pool (`internal/poller/pool.go`) | per device: LIFO stack of idle sessions, a channel as semaphore; `closed` | `Get`, `Put`, `Discard`, `Close` | devices, over UDP |
| Poller (`internal/poller/poller.go`) | none | `Poll`: Get, SNMP operation, Put or Discard | session pool |
| Decoder, producer, formatter (`internal/decoder`, `producer`, `format`) | only `CounterState`: the last sample of every counter | `Decode`, `Produce`, `Format` | the next stage, through `decodedCh`, `metricCh`, `formattedCh` |
| Transports (`internal/plugin/transport`) | file: the open file and its size; Kafka: queue and batch | `Send`, `Close` | file system, broker |
| App (`internal/app/app.go`) | the channels, the worker pool in use, the pipeline context | `Start`, `Stop`, `Reload`, the stage goroutines | all of the above |
| HA manager (`internal/ha/ha.go`, wired in `cmd/snmpcollector/main.go`) | active or standby, failure count, `stopOnce` | `/demote` handler, health checks, transitions | the peer over HTTP; App by callbacks |
| Configuration (`internal/config`) | none after loading; the enum registry | `Load` | file system; the producer, by the registry it gets at `Start` |
| Settings (`main.go`, `collector_config.go`) | none after start | file, flags, defaults; selection of the output | everything above, by its parameters |

What is hard in it:

* **Concurrency.** Hundreds of workers share the session pool; five stages are
  connected by bounded channels; `Reload` replaces the worker pool under a running
  scheduler, from another goroutine than `Stop`'s and without a lock.
* **Shutdown.** It is a cascade: every channel is closed by somebody who has to know
  that its last sender is gone. A stage that leaves early blocks the ones before it.
* **Failure.** Dials, polls and sends fail; the transport retries; in a pair of nodes
  either may crash, and calls between them are lost, late or time out.
* **Callbacks.** The HA manager sets its state, unlocks, and only then starts or
  stops the App, so the state and what the App does can disagree.
* **Arithmetic and order.** Counter deltas depend on the order of samples and on the
  width of the counter.

What makes each part correct is in the properties below; `PROJECT.json` lists the
hazards line by line, the ones no property covers yet with the reason.

## 2. Modules

| Module | Models | Run (cfg) |
|---|---|---|
| `ConnectionPool` | `pool.go`, with `Poll` and the worker loop as its clients | `ConnectionPool.cfg` |
| `SessionLease` | what the pool promises: an abstract specification | refined by `ConnectionPool` |
| `Pipeline` | the stages of `app.go`, the worker loop, `App.Stop` | `Pipeline.cfg`, `PipelineStop.cfg` |
| `AppLifecycle` | `App.Reload` against `App.Stop`, the scheduler and the workers | `AppLifecycle.cfg` |
| `HA` | two HA managers with their callbacks, calls, crashes and restarts | `HA.cfg`, `HADemote.cfg` |
| `Counters` | `normalize.go`: counter state, deltas, resets, purging | `Counters.cfg`, `CountersShared.cfg` |
| `Scheduler`, with `LoadConfig` and `ResolveJobs` | `scheduler.go`, `loader.go`, `resolve.go` | `Scheduler.cfg` |
| `Collect`, with `Decode` and `Enums` | one poll job: `poller.go`, `decoder`, `metrics/poll.go`, `enrich.go`, what the formatter refuses | `Collect.cfg` |
| `Outputs`, composed of `Settings`, `KafkaTransport` and `RotatingFile` | processes launched one after another, the transport each selects, the retry loop with it | `Outputs.cfg`, `OutputsReopen.cfg` |
| `Outbox` | what a queueing transport promises: an abstract specification | refined by `Outputs` |
| `ConnectionPool_proofs`, `Pipeline_proofs`, `Counters_proofs`, `Scheduler_proofs`, `Collect_proofs`, `Outputs_proofs` | theorems about the module named | |
| `Node_proofs` | theorems about `AppLifecycle` and `HA`, the two views of a node; it extends both, which is why `AppInit`, `AppNext` and so on of the first carry their prefix | |
| `LoopLemmas` | lemmas for proofs about loops: least and greatest numbers, induction over a set of numbers, functions defined by recursion | |

The modules overlap at the channels: `Scheduler` ends at the job queue, `Pipeline` begins
there and treats a message as an identity, `Collect` looks into what happens to one
message between job and bytes, `Counters` at the counters in it, `Outputs` behind
`formattedCh`. `HA` says when App is started and stopped, `Outputs` what that does to a transport.

`...MC` modules give the constants of a run their values. Operators introduced by
"MUTANT" or listed under "Plausible bugs" are no part of a specification: each is an
action with a plausible bug, kept to see that a property notices it
(`PROJECT.json`, "mutants").

### ConnectionPool

A worker's program counter `pc` walks through `Get` (`create`, `check`, `acquire`,
`pop`, `dial`), the SNMP operation (`poll`) and `Put` or `Discard`; the code between
two lock, channel or network operations is one action. `dp.sem` is the count `sem`,
`dp.idle` the sequence `idle`, whose oldest `stale` entries have outlived the idle
timeout (the stack is ordered by the time of `Put`, so these are a prefix). `home`
says which device a session is connected to, so that leaked and shared sockets can be
seen. `Close` closes the channel, takes the lock and drains device by device.

Checked: the tokens in the semaphore are those of workers inside a call; a session is
used by one worker at a time and never idle and used; every open session has an
owner; a device has at most its limit plus its idle places of sockets; no session
that has outlived the timeout is reused; after a Close that found no worker inside,
no socket is open; every call of Get comes to an end and a closed pool comes to rest.
The pool implements `SessionLease`, in which a worker asks for a device, is granted a
session while fewer than the limit are out, and gives it back: stack, semaphore,
dialling and the lock steps are all invisible there.

Bounds: 2 workers, 2 devices, 2 session identities (a closed one is used again), limit
1 or the default, 1 idle place. Two workers on one device contend for its only token;
on two devices they create pools and close them independently.

### Pipeline

Channel `c` is the input of stage `c`. A message keeps its identity from job to bytes,
and `fate` records what became of it, which is all the properties ask. The job queue
is `chan[1]`; a poller, unlike the other stages, also watches the context. A closer
goroutine is the action `CloseOutput`. The transport goroutine's retry loop is
`SendFails`, `Retry` and `QuitsRetrying`.

Checked: nobody sends on a closed channel; a message is in exactly one place until it
is settled; after a Stop in which the transport goroutine did not leave early no result
is left in a channel; while the pipeline runs each message is settled eventually,
however often the transport fails; Stop returns, under the same condition. Without it
Stop hangs: `PipelineStop.cfg` shows the transport goroutine returning in a retry
(`app.go:508-510`) with `formattedCh` full and the formatter blocked.

Bounds: channels of one place, 3 messages (enough for the transport goroutine,
`formattedCh` and the formatter to hold one each), two decoders, one retry.
Fairness: every goroutine that can move does, and Send returns. Nothing makes the
scheduler fire, a poll fail or anybody call Stop. `CHECK_DEADLOCK FALSE` in both
configurations: the pipeline really may stop for good, as just said.

### AppLifecycle

The pools are numbered in the order of their making; a pool is its number of queued
jobs, whether its queue is closed, and what its workers do. `Reload` and `Stop` are
split at every step another goroutine can see. `panicked` records a send on a closed
channel or a second close; `overlapped` that Stop and Reload have been under way
together. Of the goroutines behind `rawCh` there is only what `App.Stop` waits for in
`a.wg.Wait` besides the reloader: whether they are up, have all returned, or have been left by
the transport's goroutine, which returns in a retry once the context is done.

Checked, for two reloads and a Stop at any moment: the scheduler never submits to a
closed queue (in every interleaving); nothing panics and no worker outlives the
closing of `rawCh` unless Stop and a reload overlapped; a replaced pool has polled all
its jobs; a reload that has begun and a Stop come to an end (`CallsReturn`), together or
not, unless they made the process panic or, for Stop, the transport's goroutine has returned in a
retry and the stages it has left never do: the hang of `PipelineStop.cfg`, seen from here. The overlap is a real exception: Stop waits for
the old pool's workers only and closes `rawCh` under the new ones, since `a.workerPool` is
read without a lock (`app.go:321-323`, `367-376`).
Fairness: weak for goroutines that can move; strong for the two selects that must see
a done context although a timer may be ready too, because Go chooses at random; and the stages
return after `rawCh` is closed as long as the transport's goroutine has not left early, which is
`StopReturns` of `Pipeline`. Of stages it has left nothing is assumed: they may be stuck in a full
channel or not. A worker that waits at a full `rawCh` needs no fairness of its own: the
stages go on (`FlowGoesOn`), or the context is done and it returns (`worker.go:105-109`).

### HA

`state` is what a Manager says, `pipes` the number of pipelines its App really runs.
A `/demote` call is `sent`, then handled on the Standby (`stopping` while the callback
runs) and answered (`yielded`), independently of whether the Primary still waits. The
health check reads the state (`snap`), probes, counts, and promotes in separate steps.
`App.Start` and `App.Stop` have no lock between them; when they overlap, Stop may find
nothing, the new pipeline, or block for ever, and the model allows each; without an overlap
it may block too (see Pipeline). Processes crash and restart at any time and lose
everything. After a signal a process ends in order, in the steps of `leave`: the context is
done, the Manager's loop ends, `stopApp` stops the App or waits for the handler that does, main
returns; until then `/health` answers. `why` records which known reasons for trouble have
occurred.

Checked: both nodes poll together only for a recorded reason (the demotion timed out, a
failed probe promoted the Standby after its demotion, `stopOnce` was used up, two
demotions overlapped, Start and Stop raced); outside of callbacks the state of either node
tells whether it polls; a `/demote` is answered, and main returns after a signal, only when the
pipeline has stopped, unless one of the last three reasons applies; if one node stays up,
somebody polls from some time on, unless `App.Start` failed, raced, or `App.Stop` hangs; a
Primary that stays up becomes Active. `HADemote.cfg`, in which callbacks do not even race,
shows that the second demotion in one life of the Standby is answered with its pipeline
running, because `stopApp` is a `sync.Once` per process.

Bounds: 2 boots of each process, threshold 2, one probe that fails by accident (two in `HADemote.cfg`), one signal. One
accident is enough for a threshold of 2, since a probe of a crashed Primary that comes back
is the other failure. Fairness: weak for the loops of a running process (tickers tick, HTTP
clients time out) and strong for its shutdown, as its select must see the end of the context
although the ticker may be ready too, and Go chooses at random. Nobody has to crash, boot, send
a signal or deliver a call.

### Counters

A counter of a device grows, rolls over at its width, and restarts when the device
reboots. `Poll` reads it (and lets it grow beforehand: growth in between is not observed), a
produce goroutine holds the sample until `Produce` calls `Delta`. With several goroutines
samples arrive in any order. `total`, `credited`, `newest` and `irregular` are history:
what really grew, what the deltas say, and what was odd about the samples. The widths
are constants; `Uint64` wraps as the machine does.

Checked: a delta is the growth between its two samples, across rollovers and in any
order of arrival, unless the device rebooted or a 32-bit counter grew by more than half
its range; the deltas never exceed the growth while samples arrive in order; they lose
nothing while samples are regular, so the purger does not take a baseline too early.
Where two samples do arrive in the wrong order, growth is counted twice
(the condition "order" of `NoOvercount` is needed). `CountersShared.cfg` has the two objects
of IF-MIB whose counters share a key; `CountersMC` derives key and width from
object definitions through `Decode` (`DecodedAssumption`), so that the clash is
that of the code.

Bounds: widths 3 and 7, growth up to 5 in steps up to 3, three instants, one reboot, a
maximal age of 1: a counter rolls over, jumps and resets within two samples.
`CHECK_DEADLOCK FALSE`: the last instant ends the run. Assumed: a 64-bit counter does not
roll over (`normalize.go:77-78`).

### Scheduler, LoadConfig, ResolveJobs

`LoadConfig` turns a tree of files into a configuration (last file wins, a file that
does not parse contributes nothing, objects nobody needs are dropped), `ResolveJobs` a
configuration into jobs. `Scheduler` runs the loop on relative times: an entry is due in so
many seconds, negative when overdue. Steps of the program take no time. `Reload` swaps the heap
under `s.mu` and does not touch the timer.

Checked: nothing is overdue, unless a reload found the loop asleep, and then by no more
than the longest sleep (`scheduler.go:151` promises "immediately", which the code does not
do); each firing submits exactly the objects the files mean, once each and with the interval they
give the device, whatever reload comes in between; everything configured is polled again and again even if the queue is
always full. `Meant` says what the files mean without the loops of the code.

Bounds: 2 devices, intervals 2 to 4 and one left out (60 by default), the idle wait as 1, a queue
of 2 for up to 5 jobs, four trees (a broken file, a name defined twice, a missing definition, a
device without jobs).
Fairness: weak for the loop and for time; workers may never take a job.

### Collect, Decode, Enums

One job from the first request to the message for the transport. OIDs are short sequences of
numbers; of a value its kind is kept, which decides whether it converts to the attribute's
syntax (`types.go:88-231`), and its number or OID where a label depends on it. The agent may
answer a batch with an unknown OID properly, with nothing, or with errors only; any request may
fail, a walk at any point. Attributes are a Go map, so `doGet` asks in any order. `Enums` reads
the files of labels, the later ones replacing entries of the earlier, and resolves a value by its
column's table, as an OID, or bit by bit. The stages drop a message with nothing in it, and the
formatter one with a NaN.

Checked: a successful poll yields every cell the device has, from the most precise column, with
the tags of its own row and the label that the files have for it; what is missing was missed by
a single request of the fall-back (whose failure the code passes over). Nothing is made up, on
any path. Both say what should be there column by column, without prefixes or grouping, and
what a value means from the files, without a registry.

Bounds: a table with a two-number index, a tag column, two columns of one name and one column of
each kind of enum; a group of four scalars and batches of two; two definitions that give one name
to two tags, or to two metrics of the same precision; an object without attributes;
three files of labels, of which one does not parse and one replaces entries; devices with any of
five variables missing, or one with a value of another kind, a bit or a number without a label,
a negative number with one.

`CollectsEverything` excepts objects with a value that does not convert: `Parse` stops there
(`varbind.go:109`) and loses the variables behind it, although the comment says it "should not
abort the rest of the batch" (`varbind.go:107`); objects with a NaN or an infinity, for which
the formatter gives up the message with all its other metrics (`formatter.go:101-107`); and ambiguous
definitions (not `Unambiguous`), where the order of arrival decides which of two columns counts:
no document says what should.

Assumed of the data, and evaluated by TLC on the run: a device has one variable under an OID and
nothing below it (`MIBsAssumption`); no column of a definition lies below another that a device
has variables of, and a scalar has the instance 0 (`ColumnsAssumption`): both are rules of SMI, from
which definitions and agents are generated. `LabelsAssumption` is a rule for the files of labels, which
nothing enforces: they have no text for a column's own OID, and a column with names of bits is an
`EnumBitmap` under the OID it is looked up with. Section 4 says what happens otherwise.
A label is kept with the number it stands for, as the text has them in the numbers' order.

### Outputs, Settings, KafkaTransport, RotatingFile, Outbox

`Settings` is what `main.go` makes of a YAML file and flags, as far as the output, the retries and
HA are concerned: which settings a launch means, whether `run` refuses it, which transport it
gets. `KafkaTransport` has the channel, the worker with its batch, ticker, drain and flush, and
Close. `RotatingFile` gives the outcomes of a write: renames, open and write succeed or fail, a
message may be torn, and the newline is a write of its own (the renames of one rotation, all
in one directory, succeed or fail together). `Outputs` launches processes one
after another on one host, puts the retry loop of `app.go` around the transport, and stops or
kills them; with HA a process may also stop App and start it again, and then exits without
stopping it (`stopOnce`). App closes a transport after its last Send only.

Checked: the Kafka transport implements `Outbox`: it settles (delivers or logs as failed) messages
in the order in which Send accepted them, none twice, and all of them by the end of Close, with
every new transport; only the end of the process may lose some. None waits for ever in a batch
that does not fill. Whatever fails, and whatever limits the processes had that wrote them, the files
hold what was written last, in order, complete until there are as many backups as the least limit
allows; a message for which Send returned nil is among it whole, and a file that is
opened again is rotated in time. Every process runs with the settings the documents promise its
launch (`LaunchedAsMeant`): a flag wins over the file and the file over the default (`Meant`, from
`main.go:50`), the output is the one that the file enables or, without a file, the flags describe
(`docs/plugin.md:193-194`), and no number stops a worker or a ticker. That is what the documents
say, and the run has launches for which the code does otherwise: with a file, flags about the output's limits, TLS and SASL are ignored
(`FlagIgnored`); zero retries become three (`RetriesAnyhow`); an interval of half a second becomes
five seconds, as its fraction is cut off and a zero means the default (`AgesLonger`). The property
excepts these three, by name, and no more: without any one of the exceptions TLC finds it violated.
Section 4 quotes the documents. `OutputsReopen.cfg`: after a rotation that cannot open the
file there is none any more, and as the size restarts at zero no later write rotates again.

Bounds: two launches out of seventeen (either output or none, by file or flags, with HA or not, with
flags against the file, and six that are refused), three messages, channels of one or two,
batches of two or three, a file of two messages, at most two backups, up to three retries; so
a file is rotated more often than it has backups, and continued with other limits, a negative one
included. Nothing refuses a negative limit; the loop that moves the backups does nothing with it
and `.1` is overwritten (`rotate.go:163-170`), so `LogIsKept` says nothing of the order from then on. Fairness: the Kafka
worker goes on (its library's calls return) and Close takes note of its end.
`CHECK_DEADLOCK FALSE`: a closed program is done.

## 3. What is proved

Proofs hold for every value of the constants that satisfies the modules' named assumptions:
finite sets of workers and sessions, positive capacities, at least one goroutine per stage
(`StaffedAssumption`), finite directories and files (`TreesAssumption`), settings of the types of
their fields (`IsGiven`), and the like. TLC evaluates each on a run. The inductive invariants
were checked with TLC on the runs before they were proved.

* `ConnectionPool_proofs`: `IInv` is the conjunction of the type invariant and the
  four safety invariants. None is inductive alone: that a session is exclusive needs that
  an idle one is connected to the device whose stack it is on, and the socket bound
  needs the token count and that no session is lost. From it: `Typing`,
  `TokensAlwaysAccounted`, `SessionsAlwaysExclusive`, `NoSessionEverLost`,
  `SocketsAlwaysBounded`, and, step by step, `StaleNeverReused`. `CloseLeavesNoSocket` adds
  `DrainedBehind`: unless Close was overtaken, all workers have exited and the stacks
  that it has passed stay empty. `PoolKeepsLease`: every step is a step of `SessionLease` or a stutter, a
  request being read off `pc`.
* `Pipeline_proofs`: `Typing` (channels keep to their capacities) and
  `ClosedAfterLastSender`, together inductive; `AlwaysConserved`, with the invariant that
  no message is twice in the channels and hands (`OnePlace`); `StopsGracefully`, which needs that a
  goroutine behind `rawCh` has returned only after its input was closed and drained, or a message
  was lost (`GoneDrained`), that such an input stays as it is, and that every stage has a goroutine.
* `Node_proofs`, about `AppLifecycle`: `Phases` (where the pools are at each step of Reload), `Alone`
  (what each of Stop and Reload finds until they overlap) and `Manned` (which pools have
  workers and jobs) strengthen the safety invariants to an inductive one. From it all
  five safety invariants of the run. About `HA`: `DualPollingAlwaysExplained`, `StateAlwaysTrue` and
  `HandoffInOrder`, for any threshold
  and any number of boots, signals and faults. `IInv` says of a process that is down that it
  has nothing (`DownIsEmpty`), of each node what its state, pipelines and callbacks may be
  together (`PrimaryInOrder`, `StandbyInOrder`), that a pipeline has somebody who started it
  and will stop it (`PipelineHasOwner`), and what an answered `/demote` still guarantees while
  its answer is under way or believed (`AnswerIsKept`): this last one is what excludes that
  both poll.
* `Counters_proofs`: `Typing`, `DeltaIsAlwaysGrowth`, `NeverOvercounts` and `NoGrowthEverLost`, for any
  widths, objects, increments and number of goroutines; the last three when no two objects share a
  key, which `CountersShared.cfg` shows to be necessary. `CountersInv` says of any
  two samples the program still knows, on their way or stored, and of each of them and the
  device, that their values differ by the growth between them or by one turn of the counter
  less; with the half-range rule that determines the growth. `LedgerInv` adds that, while samples
  arrive in order, the stored baseline is the newest sample produced unless it was old enough to be
  purged (`BaselineIsNewest`).
* `Scheduler_proofs`: `AlwaysOnTime` and `AlwaysFiresWhatIsMeant`, for any trees of files, any queue and
  any reloads. `SchedulerInv` joins `EntriesRight` (the heap holds the devices of the
  configuration in force, each with the interval and the objects the files mean),
  `FiringRight` (the popped device is not in the heap; what is submitted and what is left make up
  its objects) and `SleepRight` (how far a due time may lie behind the timer). That the loops of
  `LoadConfig` and `ResolveJobs` compute what `Meant` says without loops is proved for every
  input: their folds are functions along a sequence, `LoopLemmas` proves that such a function exists
  and induces over the set of numbers up to which it is right.
* `Collect_proofs`: `AlwaysAsksOnce`, `AlwaysCollectsEverything` and `NothingEverMadeUp`, for any
  definitions, devices, agents and files of labels within the assumptions above, and any size of
  batch. The argument follows an answer on its way. What arrives with a value and an attribute is a
  cell, and its varbind says so (`VarbindsAreCells`: the longest prefix is the cell's column, what
  follows it the row); with all values convertible nothing of it is lost (`CellsAreVarbinds`). The loop
  over the files leaves for each OID what the last one says (`RegistryHas`), and `Resolve` turns a value
  into its meaning (`MeaningIs`). So whatever is built is grounded in cells (`BuildIsGrounded`), and
  all of it is built from the most precise column (`AllBuilt`). What remains are the requests: `IInv` says
  that doGet has yet to ask for each OID at most once, and that what it no longer waits for was
  answered with what the device has or was missed (`Asking`), which makes a successful poll
  complete (`Complete`).
* `Outputs_proofs`: `KafkaInOrder` (what Send accepted is what is settled, in the batch and in the
  channel, in this order) and from it `KafkaIsOutbox`, the refinement; `AlwaysLaunchedAsMeant`, for any
  YAML files and flags, against what the documents promise, with the three exceptions named in section 2; `LogAlwaysKept`. Its invariant `LogInv` says that the files divide the end of
  all that was written: each has a position where it begins and ends where the next younger
  one begins, and the oldest begins at the beginning as long as there are fewer backups than the
  least limit so far. An append extends the youngest, a rename of all files shifts the
  positions, and a limit that is enforced is never below the least one.

Only model-checked: what needs fairness, which is out of this prover's reach: `GetReturns` and
`ClosedQuiesces` of the session pool, `FlowGoesOn` and `StopReturns` of the pipeline, `CallsReturn`,
`SomeonePolls` and `PrimaryReclaims` of the nodes, `PolledForEver` of the scheduler,
`FlushedInTheEnd` of the outputs. Every other property of a passing run is a theorem. The four runs
that exhibit a disagreement have nothing to prove.

## 4. Where the code and its documents disagree

Four disagreements have a run that exhibits them (`PROJECT.json`, "findings"): the hang of
Stop, the second demotion, the shared counter key and the file that is not opened again. Three are
named exceptions of `LaunchedAsMeant`: the flags that a file overrules, zero retries and an interval
below a second. Met
while modelling and described above, without a run of their own: Stop overlapping a reload
(`app.go:300`), new devices after a reload (`scheduler.go:151`), values that do not convert
(`varbind.go:107`). In the models, or seen beside them:

* Configuration files. `loader.go:90-91` says "Errors from individual files are accumulated and
  returned together", while `loader.go:164-171` skips a file that does not parse with a warning: a
  reload in the middle of an edit removes the devices of that file. `FiresWhatIsMeant` takes the
skipping for granted.
* Reload. `docs/configuration.md:238-240` lists enums among what is reloaded and promises that
  changed devices are picked up. `App.Reload` reads the enum files but does not hand them to the
  producer (`app.go:238`, `350-380`), and the session pool keeps a device's semaphore for ever and its
  sessions, with the old address and credentials, until they have been idle for the timeout.
* Flags (`FlagIgnored`). "A CLI flag set explicitly always overrides whatever is in the YAML file"
  (`docs/configuration.md:46`): with `-config` the output's flags are ignored, as its settings
  come from the file alone (`main.go:236-292`). Kafka is selected by its `enabled` key then, not by its
  brokers (`docs/configuration.md:327-328`). `poller.job_queue_size` is parsed and never used.
* Zero (`RetriesAnyhow`, `AgesLonger`). `TransportMaxRetry` ("0 means no retries", `app.go:104`, and
  "0 = no retry", `main.go:141`) and `CounterPurgeInterval` (`app.go:94`) say that 0 disables, but
  0 becomes the default (`app.go:134-138`). Durations below a second become 0 on their way
  through the flags (`main.go:467-475`), which then means the default, or "never".
* BITS. `docs/decoder.md:246` has `EnumBitmap` yield an integer. An SNMP agent sends BITS as an octet
  string, which `toInt64` refuses, and `Parse` stops there.
* Labels. `resolveBitmap` returns a number where its comment says "the raw integer string"
  (`enrich.go:109`). A scalar defined with its ".0" is looked up without it (`poll.go:109-115`), but known to be
  a bitmap with it (`loader.go:476-484`): an `EnumBitmap` defined so never has its bits decoded. A text entry for
  an attribute's own OID labels every value of it. A tag of an enum syntax keeps its number (`poll.go:77`).
* Shutdown. "no messages are dropped on graceful shutdown" (`docs/kafka-transport.md:87`) does not hold
  once `stopOnce` is used up: the process exits with Kafka's queue. A node whose `App.Stop` hangs
  answers `/health` and polls nothing. With HA an empty `health.addr` is not refused, although the peer
  needs it (`docs/ha.md:71`).
* Retries. A torn write that is retried leaves its fragment on the line before the whole message.

## 5. Not modelled, and the plan

In the order of importance:

1. Composition: the scheduler's drops with the worker pool's queue under `SetPool`, and the
   counters behind a pipeline with several decoders and producers, for the order in which
   samples of one counter can really arrive.
2. Versions of a device's configuration in `ConnectionPool`, for what a reload leaves in the pool.
3. The remaining fall-backs for devices and the conversion of object definitions in `LoadConfig`, and
   what converted values look like (`types.go`), as operators against a reference definition.

Left out for good: session parameters (`session.go`), the layout of JSON, settings that are
only sizes, directories or log formats, the SCRAM conversation, and the interfaces and records of
`plugin` and `models`: no state of their own, or a library's. `CounterState.Remove` has no caller.
Also abstracted: the renames of one rotation succeed or fail together (`rotate.go:160-169` ignores the
error of each; one that fails alone would let the next overwrite a backup), `Poll` of `Counters`
reads a value and stamps it in one step (`poller.go:86-95` stamps after the walk; no property depends on
it), and the one message a stage may drop by itself is in `Pipeline` and `Collect` apart.
