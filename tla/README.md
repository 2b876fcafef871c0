# Verification of TorFS

TorFS (`src/`, Rust) simulates the clients of a Tor network over months of
recorded consensuses: which circuits each client builds and keeps, which guards
it uses, and which packets its user's requests cause. This directory holds TLA+
models of its core logic, TLC instances that check them, and proofs that TLAPS
checks. Paths below are relative to `src/src/`.

## 1. The system

| Component | Code | State | Operations |
|---|---|---|---|
| simulator | `sim.rs` | clients, consensus iterator, exit numbers | `run`: per consensus an epoch; all clients in parallel (rayon); join |
| client | `client.rs` 35-121 | user model (a `Peekable`), circuit manager | `handle_new_epoch` |
| circuit manager | `client.rs` 123-497 | `circuits`, `port_needs`, `last_triggered`, `guards` | `timed_client_updates`, `handle_request` |
| port needs | `needs.rs` | map port -> need (expiry, stable, `covered`); handles (`Weak<Need>`) in the circuits | `add_need`, `remove_expired`, `get_uncovered_need`, `cover_need_if_necessary`, drop of a handle |
| guard handling | `guard.rs` | `sampled_guards`, `confirmed_guards`, `primary_guards` | `timed_updates`, `get_guard_for_circuit`, `mark_as_confirmed` |
| user model | `user.rs` | flow model's clock, current flow | `next` |
| packet and stream model | `packet_model/` | Markov chains: state, time, stopped | `get_next`, `advance_to`, `generate_timestamps` |
| trace pipeline | `trace.rs` | two global counters, a buffer per thread, bounded channel, worker, file | `make_trace_entries`, `write_entries`, `flush`, `drop`, worker loop, `stop_and_join` |
| observer, exit numbers | `observer.rs` | counts, map exit -> number | `notify_*`, `add_consensus`, `get` |
| adversary | `adversaries.rs` | extra relays | `modify_consensus`, which computes the bandwidth weights anew |
| consensus archive | `input.rs` | none | find the files of the timespan, load one |
| command line, entry | `cli.rs`, `main.rs`, `utils.rs` | none | the edges of the timespan, the options of the adversary |

How they interact. `Simulator::run` finds the consensus files between the two edges
of the timespan. For each of them, and after a look at the next one, which ends the
epoch, the adversary changes it, its exits get numbers, a circuit generator is made
from it (an external crate), and all clients are simulated with it in parallel. A client, on one thread, brings its circuit manager up to the start of
the epoch, then takes the requests of the epoch from its user model one by one;
for each one it calls `timed_client_updates` and `handle_request` with the
request's time. The manager asks the guard handling for the guard of a new
circuit and tells it which guard a request used. A served request's packets
become trace entries, numbered from two global counters, and travel through the
thread's writer and the channel to the trace worker. Clients share nothing else.

What is hard here, and what must hold:

* **Needs and handles.** A counter in the need is changed from wherever a handle
  is made or dropped; handles outlive needs, needs outlive circuits. The counter
  has to be exact, or the covering loop covers too much, too little or forever.
* **State from an old consensus.** Circuits and guards outlive the consensus they
  were chosen from. Lookups must not fail, and nothing stale may be used.
* **Times at a boundary.** Dirtiness, idleness, lifetimes and epochs are compared
  with `<`, `<=`, `>=`, each with a meaning.
* **Guards.** Three lists that refer to one another, two lifetimes, jitter: a
  client must keep its guard for months and still let it go in time.
* **Two books about one thing.** The manager has the circuits; the guard handling has
  its own lists of guards, and the observer numbers of exits, one consensus at a time.
  They must agree although each reads the consensus for itself.
* **Arithmetic with many cases.** Seven formulas for bandwidth weights, most of them
  unchecked; edges of a timespan in four precisions over the ends of months and years.
* **Concurrency.** Threads share counters and a bounded channel; any of thread,
  worker, disk or consensus may fail at any point.
* **Three clocks in the user model**, moved by hand so that requests do not overlap.

`PROJECT.json` lists the hazards with their lines and the properties that
would catch them, and the components that are not modelled with the reason.

## 2. The modules

| Module | Models | Checked by | Proved in |
|---|---|---|---|
| `CircuitManager` | `client.rs` (manager, calls of the client), `needs.rs` | `MCCircuitManager`, `CM_*.cfg` | `CircuitManager_proofs` |
| `NeedCover` | what covering needs promises, abstractly | as `ImplementsNeedCover` | `CircuitManager_proofs` |
| `GuardHandling` | `guard.rs` | `MCGuardHandling`, `GH_*.cfg` | `GuardHandling_proofs` |
| `Client` | one client: `CircuitManager` and `GuardHandling` together, and the numbers of its exits | `MCClient`, `CL_*.cfg` | `Client_proofs` |
| `UserRequests` | `user.rs`, clocks of `packet_model/`, loop of `handle_new_epoch`, epoch ranges | `MCUserRequests`, `UR_*.cfg` | `UserRequests_proofs` |
| `TracePipeline` | `trace.rs`, the parallel loop of `sim.rs` | `MCTracePipeline`, `TP_*.cfg` | `TracePipeline_proofs` |
| `Simulator` | `sim.rs` from setup to end, relays of the adversary, numbers of exits (`observer.rs`) | `MCSimulator`, `SM_*.cfg` | `Simulator_proofs` |
| `Archive` | edges of the timespan (`cli.rs`), selection of files (`input.rs`) | with `Simulator` | `Archive_proofs` |
| `BandwidthWeights` | `recompute_bw_weights` (`adversaries.rs`) as operators | with `Simulator` | `BandwidthWeights_proofs` |

`Simulator` extends `Archive` and `BandwidthWeights`. `Client` instantiates
`CircuitManager` and `GuardHandling`. `CircuitManager` instantiates `NeedCover`. The proof
modules follow: `Simulator_proofs` extends those of its two parts, and `Client_proofs`
instantiates those of its two.

In each module a definition with the suffix `Bug` is a seeded fault; nothing
uses it. Each property has one that breaks it.

### CircuitManager

The manager is called while `phase = "idle"`. `NewEpoch` and `NextRequest` are
`timed_client_updates` up to its loop, in one step, because nothing in between
can fail or be seen: initial need, expiry, the three reasons to close a circuit.
The covering loop takes one step per circuit (`CoverNeed`; the need is any that
lacks cover, as the order of a hash map is) and may fail (`BuildFails`, which ends
the simulation). `handle_request` is one step: `UseDirty`, `UseClean` or
`UseNew`, each with `Serve`: the observer is told, and then the need for the port is
remembered (`Remember`), or the observer fails (an exit without a number, a trace that
cannot be written) and the simulation ends, with the circuit marked as used and its
cover given up. `NeedCover!Fail` allows for that one spare circuit.

A need is identified by port and time of creation. A handle is that pair, so
`Weak::upgrade` succeeds iff the pair is in the map, and a handle of an expired
need never matches a need added later. `covered` is stored and changed as the code
changes it; that it equals the number of handles is a property
(`CoverCountExact`). Circuits keep their index in the order of insertion because
the loops take the first that fits.

The circuit generator is external: `CanBuild` says what the manager may rely on.
Its guard need not be `Valid`, because the guard handling looks at `Running` only.
Left out, because they cannot vary: `is_internal` (always false), `fast` (always
true). The code is written for any user model; the two it has ask for port 443
only, so with them the long-lived port of the run `cm_leaving` does not occur.

### GuardHandling

Rounds of `TimedUpdates`, any number of `GetPrimary`/`GetSampled`, and perhaps
`MarkAsConfirmed`, all at one time. `RandomPast` gives every date that
`random_past` can. Sampling is one step (`Samples`): the loop in `usable_guards`
is not left before the sample is full, and sees nothing of the outside. `Only`
is a filter that keeps the order of a `Vec`; it is a `CHOOSE`, not a recursive
definition, so that its results can be proved. `open` is
the guards of the circuits that may still be open (at most those the manager keeps);
`since` is a history variable. `NoGuard` is an `unwrap` that fails.

`GuardSticks` speaks of places in the lists, not of dates: guards sampled in one go have
one date, and which of them circuits get is a matter of their order in the `Vec`. The
last guard handed out is left only when it is gone or not listed; for one before
it among the confirmed guards; or, while it is not confirmed, for a confirmed one or one
before it in the sample, which was missing before and is back.

### Client

The composition. A step is one of the manager together with what it calls in the
guard handling: an update of both, a covering circuit with `get_guard_for_circuit`
(`CoverNeed`), a request with `mark_as_confirmed` (`Use...`). When no circuit can take
the request, `DrawGuard` comes first and `UseNew` builds the circuit with the guard
it got; in between the generator may fail. The variables `now` and `consensus` are
shared; `GuardView` is what `guard.rs` looks up in a consensus. `GuardHandling`'s
`open`, its guess at the circuits, runs beside the real `circuits`, with a
`CircuitLifetime` of `IdleTimeout + MaxDirtiness`. `numbered` is the set of exits with
a number; `AddConsensus` runs before the clients are triggered, as in `sim.rs:137`, and
gives numbers to the relays with the Exit flag (`Exits`). The flag is a field of the
consensus apart from the exit policy, by which the generator chooses exits: whether it
also looks at the flag is not known here. So a circuit may be built through an exit
without the flag, `Notify` then fails (the `expect` at observer.rs:285), and the
simulation ends before the guard is confirmed. The history variable `unflagged` has the
circuits that were built that way; `ExitsNumbered` says that the `expect` cannot fail for any
other, although exits lose the flag while circuits through them are open.
There is no fairness in `Client`.

### TracePipeline

One process per thread of the pool, the trace worker and the main thread. A
thread takes any waiting client (rayon gives no order), draws the flow's number and
the packets' numbers in two steps (two locks), sends its buffer when it is longer
than `FlushAt`, at the end of a client, and when it leaves. `Send` waits for room;
`SendFails` and `DropPanics` are the error paths when the worker is gone, a panic in
a panicking thread is an abort. The worker may fail at every write, after any part
of a batch. `Disconnect` is `recv` failing after `run` has returned with an error;
the process may also end before that (`Terminated` is enabled in every state with
`Ended`). Entries carry the flow they belong to, for the properties only.

### UserRequests

One step per iteration of the loops in `PrivcountUser::next`,
`generate_timestamps` and `handle_new_epoch`. Of a Markov chain the time and
`stopped` are kept; event and delay are free. `Advance` is the arithmetic of
`get_next`, with the comparison that may have a negative right-hand side when a flow
starts after the end of the simulation. `due` is a history variable. `WrongEvent` is the
panic over an event that belongs to the other kind of chain (models read from the
wrong file).

### Simulator, Archive, BandwidthWeights

`Setup` and `SetupFails` are what comes before the loop, with the panics of indices
that are no bytes and of dates that do not exist. `BeginEpoch` is the loop's body up
to the clients: the consensus, the end of the epoch from a `peek` at the next one (an
error there is looked away from and met again in the next iteration; an unwrap is
not), `ModifyConsensus`, `AddConsensus`. `WeightsPanic` and `IncompleteRelay` are the
panics of `recompute_bw_weights` (its check, its `expect`s). `BeginFails` may always happen, because the
circuit generator may refuse a consensus. `EpochDone` and `ClientFails` stand for all
clients. `Finish` may be an error, because the trace worker may return one.

The calendar is a constant, so that a year can be two months of two or three days: what matters is
the ends of days, months and years. `Matching` has both tests of `find_consensuses`,
the one on directories and the one on files, with the comparisons of the code. That a
file lies in the directory of its month (`InMonth`) is an assumption about the archive, which
the code makes and nowhere checks.

`Recompute` has the cases of `recompute_bw_weights` in their order, with the integer
division of Rust (`Quot`); `Panics` is the check of case 2b that fails. Integers are
not bounded: the code's `i64` is enough for totals below 10^13 (kilobytes per second).
`weights` are those of the current epoch, `None` without an adversary.

## 3. What is checked

Times are small integers; only their order and the sums with the constants
matter to the code. The bounds per run are in the `.cfg` files.

| Run | Question | Instance, and why it is enough |
|---|---|---|
| `cm_leaving` | counters, lookups, lifetimes, fit circuits, refinement of `NeedCover`; each call ends (`FairSpec`) | `CoverNum` = 2 as in the code, two ports (one long-lived), an exit that leaves or goes down and returns; four instants with a need lifetime of 2: needs expire, are added again while old handles are around, circuits grow idle and dirty |
| `gh_churn` | all guard properties | three guards, two sampled, two primary; one goes down, the others go down together, the guard left is not `Valid`, or none has the Guard flag; dates of two values; four instants: both lifetimes (2 and 1) pass, guards are removed, reconfirmed, sampled again |
| `cl_churn` | manager, guards and numbers agree; both parts keep their specifications | two guards, a middle, two exits; at first one of them has the Exit flag and the other allows a port without it, so that the observer fails for it; then a guard goes down and the flag passes from one to the other; `MaxDirtiness` = 2, so that circuits are reused at a later time; four instants, one cover per need. Deadlock is checked: neither part ever refuses what the other does |
| `tp_pipeline` | unique numbers, order, completeness, errors; the simulation ends (`FairSpec`) | two threads, two clients, two epochs, flows of one or two packets, a channel of two places; deadlock checked. `MaxFlows` = 1: two flows of one client within an epoch are left to `ClientsInOrder` and `FlowsStayTogether`, which hold for any number |
| `ur_requests` | requests, packets, order of calls | three epochs, delays 0 to 2, two packets per request, end in the middle of the last epoch |
| `sm_epochs` | the right consensuses, epochs without gaps, numbers for life, weights | eleven edges of all precisions, three of which do not exist; four consensuses at the ends of months and of the year, one of them faulty in three ways; every load of 0 to 7 per total, which reaches all cases of the weights |

Deadlock is not checked where the system really stops: a failed build or `unwrap`
ends the simulation (`CM_*`, `GH_*`), the simulation is over (`UR_*`, `SM_*`), or the
simulated time has reached `MaxTime`, which bounds it. `AlikeSymmetry` (`gh_churn`) is
of two guards that are alike in every consensus, and that run has no liveness property.

Fairness. `CircuitManager!FairSpec` has weak fairness of the steps inside a call
(`Covering \/ Serving`): a client runs on one thread, which goes on with what it
has begun; nothing is assumed of new calls. `TracePipeline!FairSpec` has weak
fairness for each thread, the worker and the main thread: the operating system runs
every thread. No fairness is assumed of which clients or needs are chosen. The other
specifications have no liveness property and no fairness.

### Disagreements between code and documentation

Six runs end in a counterexample, each to something the code says of itself:

* `cm_renewal` - client.rs:415 "add need or update expiration". The update is in
  a branch that is never taken: expired needs have just been removed. A need lapses
  60 minutes after it was added, however often its port is used.
* `cm_prebuilt` - needs.rs:4-5, circuits for predicted ports "are built
  proactively, before they are actually needed". When an exit's policy changes, a
  circuit goes on covering a port it can no longer carry.
* `cl_forgotten` - in the composed client: a guard that guard.rs:76 removes, "too old",
  is confirmed again by the next request on a circuit through it that is still open, and
  is then confirmed without being sampled; no later update removes it.
* `sm_middle` - adversaries.rs:282-283, "Too much bandwidth at middle position" is
  "case 2b3 (Wmd=0)". With more than a third of all bandwidth in the middle, the weights of that case do not
  pass the check that follows, and line 308 panics.
* `ur_late_start` - cli.rs:19 "Begin of simulation timespan" is where user models
  begin, but the first epoch begins with the first consensus. With `--from` at half
  past, say, a request in the first half hour is never in an epoch, stays in the
  `Peekable` and blocks all requests of its client.
* `ur_delay` - markov.rs:70-71: the next event is at "current time + delay".
  `advance_to` after a stream with packets overwrites that time, so the delay between
  the streams of a flow is replaced by the length of the stream.

## 4. What is proved

For every value of the constants (under the `ASSUME`s of the modules, which TLC
evaluates in each run): every invariant, every action property and every refinement
that a passing run checks. TLC checked the properties, and the inductive invariants,
first.

`CircuitManager_proofs`. The inductive invariant is `Inv`: the types; every counter
equals the number of circuits that hold a handle to its need (`Counted`); only clean
circuits hold handles; every handle is of a time that has passed, so that a need
added *later* has no holders; control (`phase`, `request`) is consistent. It is
stated about any `needs` and `circuits` (`Good`), because a served request goes
through two changes - give up what the circuit covered, then cover the port -
and each is a lemma that preserves `Good`. The heart is cardinality: closing
a set of circuits takes exactly the holders in that set away. From it follow
`TypeCorrect`, `CountersExact` and `SpareCircuitsCover`; `NeverOver` adds that
handles are given out below the limit only. `CallInv` is about the time within a call:
from `timed_client_updates` on, all circuits are up and young; with it come
`LookupsFound` and `CoverReady`. Three theorems are action properties: `DirtyStays`;
`LifetimesKept`, from `LifeInv` (no need in the map has expired, and each was given
its lifetime: the housekeeping before every call leaves no other, so `add_need` never
meets one to renew); and `ServedFit`, from `CallInv` and `UsedInv` (a dirty circuit got
dirty in the past, and was not idle for too long then).
`Implementation` proves `Spec => Cover!Spec`: each step maps to a step of
`NeedCover` or a stutter.

`UserRequests_proofs`. Of the inductive invariant `IInv`, the conjunct that carries
the argument relates the clocks: the current flow's chain and the flow model are
never before the last packet of the last request, and the packets being made are not
before the request and not after the chain's time, which is why the next request
cannot begin earlier. `Clock` relates the manager's clock to the epoch, `Front` says
that a waiting request is not before the current epoch if the first epoch starts
with the simulation. `TypeCorrect`, `NoOverlap`, `PacketsOnTime`, `ClockForward`,
`NobodyStuck`. `ClockForward` is what `CircuitManager` (guards of `NewEpoch` and
`NextRequest`) and `GuardHandling` (`t \in now .. MaxTime`) take for granted.

`GuardHandling_proofs`. `IInv` has the types, `NoDuplicates`, `PrimaryUsable` and
`AlwaysAGuard`, and what relates the lists to the world: a sampled guard is listed iff
it runs in this consensus (`Listings`), its date of addition is at most `AddedJitter`
before the true one (`AddedDates`), so is that of a confirmation (`ConfirmedDates`), and within
a round no guard is left that should have been removed (`KeptForCause`).
The last is needed because lifetimes are tested once per round only, and a
confirmation in between sets a new date. The ground is what `Ascending` and `Only`
return: a subsequence, in order, of the guards asked for. That `Ascending` exists at all is an induction over
finite sets, done without the induction theorems of the library: a least
counterexample (`WFMin` on the strict subset ordering of a finite set). From `IInv`:
`TypeCorrect`, `NeverTwice`, `PrimaryNotStale`, `GuardsSuffice`, `AllRetire` and the
action properties `HandedOutRuns` and `RunningStay`. `ChangedForCause` (circuits get another
guard for cause only) compares two rounds, so it needs the order of the lists: `Orders` says
that the cache of primary guards, if not empty, is what it would be if it were computed
now (`CacheFresh`), so that its first guard is before all other confirmed ones that are listed.
The other part is the one that is easily missed (`NoneUnlessHanded`): the cache is computed
at the start of a round, and a confirmed guard that had been removed may be sampled again later in
that round. The cache then stays empty although there is a primary guard; but that is
the guard that was handed out, because it is the first one offered. `OnlyInOrder` and
`PrimaryIsFirst` say that the cache keeps the order of the confirmed guards, so that its first
entry is before the guard that was handed out last, if that one is still usable.

`Client_proofs`. `IInv` says of every circuit that it is young by the clock that
applies to it (clean or dirty) and that its guard was handed out when it was built
(`Known`); of a guard that is drawn, that nothing but the new circuit can serve the request (`Drawn`); and that the exits of the current consensus
with the Exit flag have numbers (`Numbered`). The update is the step that matters: what the three rules
for closing leave is a part of what `StillOpen` takes to be open. Hence
`CircuitsAreKnown`. `ExitsHaveNumbers`: no step changes the exit of an open circuit or takes a
number away, and circuits are only built while the flagged exits of the consensus have
their numbers (`ExitsStay`, `NumbersStay`), so an exit that had the flag then keeps a number,
whatever becomes of the flag. `PartsAreKept` proves that each step of the
client is a step, or a stutter, of `CircuitManager` and of `GuardHandling`, in the
environment they were specified in. The theorems about the parts are then those of
the client: `Client_proofs` instantiates both proof modules, shows that its own constants
meet their assumptions (`TimesAssumed`, `ViewsAssumed`, ...), and obtains
`ManagerKeepsPromises` and `GuardsKeepPromises`, the promises of both as statements about
`Client!Spec`, and `TypeCorrect`. `MissingCarryNothing` is about both at once: the manager closes
circuits by looking at their relays in the consensus, the guard handling marks guards as missing by
looking at its sample; that the two agree follows from `Through` (every
circuit's guard runs in the current consensus) with `Listings`, the part of the guard
handling's invariant that says a sampled guard is listed iff it runs.

`TracePipeline_proofs`. `TypeInv` has the types, what a thread holds at each point
(`Shape`), and that the message to stop is the last in the channel (`StopIsLast`),
which gives `WriteErrorsAreReported`. `Complete`: until the worker fails, the entries in
buffers, channel, worker and file have all numbers drawn so far; with empty buffers
and channel at the end, `SuccessWritesAll`. `Owners`: a client is with one thread, and
its next flow is new. `Numbers`: numbers are below the counters, and a drawn
destination is its thread's own; hence `NumbersAreUnique`. `Apart` and `InOrder`: file,
channel and buffers are each in order, and each is earlier than the next;
buffers of different threads have different clients. Every cut of a buffer and every
send keeps that, hence `FlowsStayTogether` and `ClientsInOrder`.

`Archive_proofs`. `EdgesDescribe`: `first_datetime` and `last_datetime` are the least and the greatest
second that a year, month, day or hour describes. The days before a month are a
cardinality (of the days of earlier months), so the lemmas are about unions: a month's days follow
those of the months before it, and the first of the next month, the way the code takes to the last day, is one
past. `NoDirectoryIsMissed`: the test on directories, by year and by month, drops none that has an
hour of the timespan, also when it crosses the end of a year. So the files that
match are those with an hour in the timespan.

`BandwidthWeights_proofs`. `RecomputedAreShares` goes through the cases of `Recompute`:
each weight is a quotient whose numerator is between 0 and its denominator, by what
the case has assumed of the totals; `QuotShare` bounds it. Case 2b needs no such
argument, because the code checks it. `RecomputedAreOptimal`: what the worst-off of three
positions can get is bounded by four sums of loads (all there is for guards, for exits,
half of what is for both, a third of everything). In each case the weights bring all
three positions up to *one* of the four bounds, less what the divisions round away, and that
is enough (`Reaches`). Products of weights and loads are named, `QuotTimes` says how far
rounding puts each from its exact value, and what is left is linear. The rounding of the code
loses a little, hence a margin: a third of ten parts in `Scale` of the total load per position, what
the code's own check of case 2b allows, on both sides of the comparison.

`Simulator_proofs`. `WeightsInv` (the weights are those computed from the current totals, and that did not
panic) carries both facts to the states: `WeightsStayShares`, `WeightsStayOptimal`.
`IdsInv` (numbers are distinct and below their count) gives `NumbersAreForLife`, `TypeInv`
`SimulatorTyped`. About the loop, the inductive invariant is `EpochsInv`. `HandlesInv`: the
files still to come match the timespan and are in strict order. `WholeInv`: every file that
matches is either still to come or had an epoch. `TilesInv`: each epoch begins at the
time of a matching file and where the one before ended, and none ends after the timespan.
That is not inductive by itself, because an epoch's end comes from a look at the next
file and its successor's beginning from loading that file later. `ContinuesInv` is the
link: the last epoch ends at the time of the file ahead, *or* that file cannot be used, in which
case the look ahead hid an error which the next iteration does meet. Hence `ConsensusesAreRight`,
`EpochsAreTiled` and `SuccessCoversTimespan`.

Assumptions. The sets of relays, clients and threads need not be small; finite are the
threads, clients, flow lengths (`TracePipeline`), the guards and exits of a consensus
and the files of an archive. Times, lifetimes and capacities are any natural numbers
(the dirtiness a circuit may reach and the lifetime of a need are not 0: client.rs and
needs.rs have constants of minutes), jitters are positive and at most the lifetimes they
belong to, the sizes of the guard sample are positive. `MaxTime`, `MaxFlows` and
`MaxEpochs` bound the behaviours but not the theorems: they are any number.

`Client` names its own assumptions, the union of what its parts ask for: its
consensuses are consensuses of the manager with finitely many relays, the constants of
client.rs and guard.rs have the signs they have there (`CoverNum` is a natural number), and
`None`, which stands for the absence of a time, guard or port, is no number, relay or port.

Only model-checked: the two liveness properties, `CallsEnd` and `Terminates`: liveness under
fairness and `ENABLED` are beyond the prover. So are recursive operators and induction over
data, so the models have none of the first, and where the second was needed (that
`Ascending` and `Only` return what they choose) it is a least counterexample.
The six runs that end in a counterexample show behaviours and need no proof.

## 5. What is not modelled

* The circuit generator, rayon, crossbeam and zstd are external; the models state
  what the code relies on.
* Distributions, weights of transitions and random numbers: any value they can give.
  Building a Markov chain from JSON (`packet_model/parse.rs`, half of `markov.rs`).
* The observer's report and log (`observer.rs` but for the numbers of exits), the
  progress thread, CSV and zstd formats: output without decisions. What a failed
  frame end in zstd's `drop` does cannot be seen in this code (trace.rs:151).
* `main.rs` (seed and call), `utils.rs` (a helper; its effect is in the models that
  use it), `DummyUser` (unused), the text format of the command line.
* Reproducibility for one seed. It relates two runs of the program, and the numbers in
  the trace do depend on scheduling (main.rs:38).

## 6. Plan

Written: `CircuitManager` with `NeedCover`, `GuardHandling`, `TracePipeline`,
`UserRequests`, `Client`, `Simulator` with `Archive` and `BandwidthWeights`, and the proofs
above. What could come next:

1. `TraceFile`: an abstract trace, to which flows are appended whole and a client's in order, that
   `TracePipeline` implements; `Numbers`, `Apart` and `InOrder` are the invariants it needs.
2. A version of `NeedCover` for the whole client: what a user of the simulator may rely on,
   without circuits, implemented by `Client` by way of `PartsKept`.
3. Reproducibility: two pipelines with one seed, and what of the trace depends on
   scheduling.
