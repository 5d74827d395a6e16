# TLA+ models of the metrika agent's pipeline core

This directory holds TLA+ models of the Go code under `src/`, TLC
configurations that check them on small instances, and TLAPS proofs of the
watcher's safety invariants. `PROJECT.json` lists every component, run,
mutant, finding and hazard, and maps each modelling definition to the source
lines it translates.

## The system

| part | source | what it does |
|---|---|---|
| Lifecycle primitive `Watch` | `src/unnamed/part_003` | `Start` runs `StartUnsafe` once through a `sync.Once`. `Stop` returns if `Running` is false, else clears it, runs `StopFn` and sends on `StopKey`, a channel with one slot. `Subscribe` appends a channel to `listeners`. `Emit` sends the message to every listener in slice order, each send blocking. |
| Scheduled producer `TimerWatch` | `src/unnamed/part_002` | `StartUnsafe` also spawns `timerLoop`: `select` between `time.After(Interval)` (then `Emit(0)`) and `<-StopKey` (then return) |
| Stream registry | `fingerprint.go` 108-145 | `Register` appends streams. `Start` calls each stream's `Start` with the shared context, the WaitGroup and one shared channel. |
| Fingerprint validator | `fingerprint.go` 1-107 | `New` hashes a value (SHA-256, formatted as hex). `validate` compares that with the previous digest. `NewWithValidation` composes the two, and `Write` persists the digest. |
| Netclass collector | `fingerprint.go` 145-469 | A Prometheus collector over `/sys/class/net`. `Describe` and `Collect` each call `getNetClassInfo` (list the devices, then read each) and send descriptors or metrics for `up`, `info` and each optional attribute. |
| Algorand discovery adapter | `src/unnamed/part_001` | a stub: every method panics or returns a constant |
| `src/unnamed/part_000` | | the project's user documentation |

How they interact (spec.md section 2): watchers such as TimerWatch emit
samples to subscribed channels. A collector pushes samples onto the
registry's shared channel. The streams (sinks) started by the registry read
from that channel until the context is cancelled or the channel is closed,
and main waits for them on the WaitGroup. At each start the agent validates
the fingerprint of the node it observes against the digest persisted by the
previous run, before it trusts the node configuration that discovery kept.

## Modules

### `TimerWatch.tla`: Watch and TimerWatch together

Actors: the caller of `Start`, the `timerLoop` goroutine, goroutines
that each call `Stop` once (the constant `Stoppers`), goroutines calling
`Subscribe`, and listeners draining their own buffered channels (capacity
`ChanCap`).

State:
- `running` is `Watch.Running`, and `started` is the `startOnce` gate.
- `loop` is the control point of `timerLoop`.
- `listeners` is the slice. Each entry also records, as a ghost field, how
  many fires had happened when it was subscribed.
- `inbox` holds each channel's buffer, and `stopKey` the number of values
  buffered in `StopKey`.
- `stopPc` is the control point of each `Stop` call.
- `teardowns` counts the runs of `StopFn`, and `sent` records every message
  `Emit` has sent.

The actions:

- `Start` is `Start` with `StartUnsafe`, and spawns the loop.
- `Tick` is a fire chosen by `select`. It takes the slice header (`range`
  evaluates it once) and begins `Emit`.
- `EmitSend` is one blocking send to the next snapshot slot, and `EmitDone`
  ends the range.
- `LoopExit` is the `StopKey` case of `select`.
- `StopCheck`, `StopFlip` and `StopSend` are the three steps of `Stop`: read
  `Running`, clear it and run `StopFn`, then send.
- `Subscribe` is `append`.
- `Receive` is a listener reading its channel.

Time is abstract: a fire can happen whenever the loop is in `select`.

`WatchLifecycle.tla` is the abstract specification of what `Watch` promises
(spec 4.1): Created, then Running after `Start`, then Stopped after `Stop`,
and nothing else. `TimerWatch` maps its state to it: Created while
`startOnce` has not fired, otherwise Running or Stopped according to
`Running`. `LifecycleRefined` is that instance's specification. A second
`Stop` that read `Running` before the first cleared it maps to a stutter of
Stopped. A `Stop` before `Start` maps to a stutter of Created.

### `StreamRegistry.tla`: the registry and the pipeline around it

`Register` and `RegistryStart` translate the code. The producer, the sinks'
run loops and main are modelled from spec sections 4.3, 5 and 6:

- The producer sends up to `MaxSamples` samples on the channel (capacity
  `ChCap`) and then closes it, or stops on cancellation.
- Each started sink receives from the shared channel. It returns on a closed
  and drained channel or on cancellation, and calls `wg.Done` when it returns.
- Main cancels the context and then waits for the WaitGroup to reach zero.

The run loops and main are not under `src/`, so their use of the WaitGroup
(`wg.Done`, `wg.Wait`) is modelled from the spec alone. The project states
no property about it: a property there would check the spec's words, not the
code. What the code does to the WaitGroup, `wg.Add(len(streams))` in
`Start`, enters only the type invariant and its proof.

### `Fingerprint.tla`: fingerprint validation across restarts

`New`, `validate` and `NewWithValidation` are operators and `Persist` is
`Write`. `Write` may store any prefix of the digest (`0..64` bytes) and then
returns an error, unless the constant `AtomicStore` makes a failed write leave
the old content. A digest is a record "first `len` characters of the hex
digest of identity `of`". SHA-256 is taken to be collision-free, so record
equality is string equality, and `len(prevHash) > 1` is modelled exactly. The
caller comes from the spec, because no caller is under `src/`. At each start
it observes the node (`Boot`) and runs `NewWithValidation` (`Validate`). On a
`ValidationError` it calls `ResetConfig`. It then runs `Discover`, which keeps
a configuration it already has (spec 4.5 step 1), and persists the digest. Any
other error ends the process. `Crash` kills the agent at any point, and
`Drift` gives the node a fresh identity, as a container restart does.

### `NetClass.tla`: the netclass collector against a changing sysfs

`Register` is the registry calling `Describe`, and `Scrape` is a scrape
calling `Collect`. The steps of `getNetClassInfo` are:

- `BeginCall` lists the devices, or the listing fails.
- `ReadDevice` reads the next device in sorted order, skipping it if it is
  ignored.
- `ReadFail` is a listed device that is gone: the caller logs and sends
  nothing.
- `SendAll` runs the send loop (`Collected` for `Collect`, `Described` for
  `Describe`).

The kernel adds and removes devices and changes their attributes between any
two steps. Metric values, help texts and label values are left out. A
descriptor is its metric name, since the device is a variable label.

### Proofs and MC modules

`TimerWatchProofs.tla`, `StreamRegistryProofs.tla`, `NetClassProofs.tla`
and `FingerprintProofs.tla` hold the TLAPS proofs. `MCTimerWatch.tla` and
`MCStreamRegistry.tla` give model values, sets and symmetry to TLC.

## Runs

Runs expected to pass:

| run | checks | shows |
|---|---|---|
| `timerwatch` (`MCTimerWatch.cfg`) | `TypeOK`, `NoReplay`, `EmitReachesAll`, `StopEndsLoop`, `LifecycleRefined` | `Emit` sends each fire exactly to the channels subscribed before it (no replay, no drop) even with `Subscribe` concurrent with `Emit`. A `Stop` that found the watcher running ends the loop. `Start` and `Stop` implement the abstract lifecycle; without `startOnce` a second `Start` would restart a stopped watcher. |
| `registry` (`MCStreamRegistry.cfg`) | `TypeOK` | Main's single `Start` adds `len(streams)` to a counter that then stays within `0..MaxSinks`, whatever the order of `Register`, sends, receives and cancellation. Its mutant, a second `Start`, starts every stream again and breaks that range. |
| `netclass` | `AllOrNothing` | A scrape reports every device that stayed present throughout, or nothing at all. |
| `netclass_live` (`MCNetClass_Live.cfg`, `FairSpec`) | `CallsReturn` | Every `Describe` and `Collect` call returns, even when a listed device vanishes before it is read, and when an ignored device has vanished. |
| `fingerprint_atomic` (`Fingerprint_Atomic.cfg`) | `ValidateContract` | With a store where a failed write leaves the old digest, `validate` passes only an empty store or the digest of the node observed. The hole found by `fingerprint_one_byte_store` needs a short write. |

Runs that find a violation; each one is a finding in `PROJECT.json`:

| run | property | counterexample |
|---|---|---|
| `timerwatch_emit_after_stop` | `NoEmitAfterStop` | `select` picks a fire over a pending `StopKey` value, so a sample is sent after `Stop` returned (spec 4.2 and 8 say none is). |
| `timerwatch_double_stop` | `TeardownOnce` | Two concurrent `Stop`s both read `Running` as true, so `StopFn` runs twice (spec 4.1 and 8 say once). |
| `registry_same_samples` | `AllSinksSeeSameSamples` | The sinks compete on one channel and each sample reaches one of them (spec 4.3 and 8 say all see all). |
| `fingerprint_one_byte_store` | `ValidateContract` | A write stops after one byte, and the next `validate` ignores the one-character digest. |
| `fingerprint_silent_drift` | `NoSilentDrift` | Writes are atomic here. A crash between the first `Discover` and the first `Write` leaves the store empty, the node restarts, and the next start takes the empty store for a first run and keeps the old configuration. |
| `timerwatch_stop_blocks` | `StopReturns` | Three `Stop`s race. All read `Running` as true; the first send fills `StopKey`, the loop takes it and exits, the second send fills it again, and the third blocks forever (spec 4.1 says every `Stop` returns). |
| `netclass_describe` | `CollectedWereDescribed` | `carrier` appears after `Describe` ran, and `Collect` sends a metric that was never described. |

Each property of a passing run has a mutant in `PROJECT.json`: a plausible
bug in one mapped action that TLC catches with that property. Examples are
`Emit` ranging over the live slice, `Emit` ending one slot early, `Stop`
skipping its send, a second `Start` of the registry, and `Collect`
sending the partial map after an error.

### Bounds

- **TimerWatch:** 2 listeners, 3 subscriptions, 2 fires and 2 Stop callers.
  That allows a subscription before, between and during the fires, an Emit
  that is blocked on a full channel while a Subscribe appends, and the race
  of two Stops. `timerwatch_stop_blocks` uses 3 Stop callers, the least
  number for which a send finds the exited loop's slot full.
- **Registry:** 2 sinks, 3 samples and a one-slot channel. That allows
  backpressure, the competition of two sinks, and registration on either
  side of `Start`.
- **NetClass:** 3 devices. A partial result needs a device read, then a
  device gone, then a device still unread. The model also has 2 attributes,
  2 scrapes and 2 changes.
- **Fingerprint:** 2 node identities and all 65 write lengths. The atomic run
  uses 3 identities, so a store can hold a digest two drifts old.
- **NetClass liveness:** 3 devices, the last one ignored, 1 attribute, 2
  scrapes and 2 changes. An ignored device may vanish after the listing.

### Fairness

- **TimerWatch:** goroutines that can run keep running (weak
  fairness), and so do listeners that drain. `select` chooses at
  random among ready cases, so a `StopKey` value that stays available is
  eventually taken (strong fairness on `LoopExit`).
- **Registry:** the run checks a safety property only and uses `Spec`,
  with no fairness.
- **NetClass:** `FairSpec` is weakly fair on `ReadDevice`, `ReadFail` and
  `SendAll`. `Describe` and `Collect` run `getNetClassInfo` on the caller's
  goroutine with no blocking step, so nothing but the scheduler can stop it.
  The kernel's changes and the scrapes are environment and are not fair.
- **Not assumed:** the calls of `Start`, `Subscribe`, `Register` and the
  termination signal come from outside and are not assumed to happen.
- **Termination:** when a behaviour has exhausted its bounds, a `Terminating`
  stutter step marks its end. Deadlock is checked everywhere else.

## What is proved

`TimerWatchProofs.tla` proves, for every value of the constants
(`ConstantsAssumption`: a non-empty set of listeners, a finite set of Stop
callers, a positive capacity and natural bounds):

- `IInvariant`: `Spec => []IInv`.
- `TypeCorrect`: `Spec => []TypeOK`.
- `NoReplayHolds`: `Spec => []NoReplay`.
- `EmitReachesAllHolds`: `Spec => []EmitReachesAll`.

`NoReplay` and `EmitReachesAll` are not inductive by themselves: a step of
`Emit` or `Subscribe` can break them from a state that is unreachable. The
strengthening `IInv` adds what an Emit in progress looks like:

- The snapshot is a prefix of the slice, and the cursor lies within it.
- An Emit runs only after a fire.
- Every entry was subscribed at or before the current fire.
- The entries subscribed before the current fire are exactly the snapshot.
- The slots before the cursor have been sent the current fire.
- Every sent message names an existing slot and a past fire.

`IInv` was first checked by TLC as an invariant of the `timerwatch` run. The
proof shows `Init => IInv` and that each action preserves each conjunct
(`NextTypeOK`, `NextEmitInv`), and concludes with temporal logic.

`TimerWatchProofs.tla` also proves `LifecycleRefinement`:
`Spec => LifecycleRefined`. `Init` maps to Created. `Start` maps to the
abstract Start, because `startOnce` makes it fire only while `started` is
false. `StopFlip` maps to the abstract Stop, or to a stutter when `Running`
was already false or the watcher never started. Every other action leaves
`started` and `Running` alone. No invariant is needed.

`StreamRegistryProofs.tla` proves, for any positive number of sinks
(`RegistryAssumption`), any number of samples and any channel capacity:

- `RegistryTypeCorrect`: `Spec => []TypeOK`.

The inductive invariant `IInv` (proved as the lemma `RegistryIInv`) carries
`WaitGroupCountsRunning`, defined in the proof module: it says `wg` equals the number of sinks whose run loop
is running. It is not inductive on its own, because `Start` adds
`len(streams)` to the counter. That is right only if no loop was running
before. `IInv` therefore adds `SetupUnstarted`: while main has not called
`Start`, every slot is unstarted. With that fact, `Start` moves the counter
from 0 to `Cardinality(1..Len(streams))`. A loop's return removes one slot
and calls `Done` once (`FS_RemoveElement`). The counter's range
`0..MaxSinks`, part of `TypeOK`, follows from the count itself. The count
is a step of the proof, not a claim about the code: `Done` is spec-modelled.

`NetClassProofs.tla` proves, for any number of devices, attributes, ignored
devices, scrapes and changes (`NetClassAssumption`: natural bounds):

- `NetClassIInv`: `Spec => []IInv`.
- `AllOrNothingHolds`: `Spec => []AllOrNothing`.
- `NetClassTypeCorrect`: `Spec => []TypeOK`.

`AllOrNothing` is not inductive: `SendAll` sets the reported devices from
the map and the kept ones from `stable`, and nothing in the property
relates them. `IInv` adds four facts:

- Only a finished `Collect` has reported devices.
- The map is empty outside a call.
- While a call runs, every device that stayed present is in the map or still
  to be read.
- No ignored device is in `stable`.

The third fact is the argument. When `ReadDevice` takes a device from `todo`
and the device is in `stable`, it is not ignored, so the guard makes it
present and the device enters the map. When it finishes, `SendAll` reports a
superset of `stable`. `ReadFail` reports nothing. The proof needs no fact
about `Min`, since any choice from `todo` keeps the invariant.

`FingerprintProofs.tla` proves, for any positive number of identities
(`FingerprintAssumption`):

- `FingerprintTypeCorrect`: `Spec => []TypeOK`, for an atomic store and
  for a non-atomic one.

`NewDigest` records that `New` never fails: the hex length 64 is not below
`BlockSize`. The validation contract is not proved: it rests on the store's
writes being atomic, which the code does not promise (`Persist` expects
short writes), so it stays a model-checked result on the atomic instance.

## What is only model-checked

- Liveness: `StopEndsLoop` and `CallsReturn`, which are beyond TLAPS's
  reach here.
- `fingerprint_atomic` checks `ValidateContract` on 3 identities only.
- The fingerprint violations are counterexamples on the bounds above.
- Induction over data, and `ENABLED`, are beyond the provers used here.

## What is not modelled

- The sinks' run loops and main's `wg.Wait` are not under `src/`; they are
  modelled from the spec so that `Start` has its environment, and no
  property is claimed about them.
- The Algorand adapter has no behaviour: it is a stub.
- `NewTimerWatch`'s interval default only affects timing, which the model
  abstracts.
- `StopFn` and `StartFn` are the no-ops `NewWatch` installs. `StartFn` is
  never called.
- In `New`, sha256's `Write` never fails, and the hex length (64) equals the
  `BlockSize` compared with. The model keeps that check, but it never fires.
- Prometheus's registry itself is not modelled, nor are the metric values and
  descriptor help texts.
