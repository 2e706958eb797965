# TLA+ specifications of the NexusLab simulator

NexusLab simulates AI training clusters deterministically: a single-threaded
event kernel drives chunks over links, collectives over chunks and training jobs
over collectives. Nothing runs concurrently in the program, but within simulated
time everything does: failures, cancellations, completions and arrivals
interleave in orders that no test enumerates. These modules model those orders.

Paths below are relative to `src/simulator/`.

## Inventory

| Part | Source | State | Modelled by |
| --- | --- | --- | --- |
| Event kernel | `src/sim/simulation.cpp`, `event_queue.cpp`, `event_id.cpp`, `include/.../simulation.hpp` | heap, pending and cancelled ids, current event, lifecycle | `SimKernel`, `EventOrder`, `EventScheduler` |
| Event trace | `src/sim/trace.cpp` | record sequence | `SimKernel` (records, no encoding) |
| Link queue and serializer | `src/transport/link_queue.cpp`, `link_service.cpp` | active chunk, waiting chunks, statistics, scheduled completion | `DirectedLink`, `LinkService` |
| Serialization delay | `src/transport/timing.cpp` | none | `SerializationDelay` |
| Chunk transport | `src/transport/runtime.cpp`, `progress.cpp`, `failure.cpp` | chunks, transfers, services | `Transport` |
| Topology graph | `src/topology/graph.cpp`, `entities.cpp` | entities, adjacency, state and revision | `Topology`; its state also in `Routing`, `Transport` |
| Topology generators, validation, export and import | `src/topology/families.cpp`, `clos.cpp`, `validation.cpp`, `export.cpp`, `import.cpp` | none | `Topology` |
| Routing | `src/routing/*.cpp` | path cache, decisions | `Routing` |
| Ring all-reduce | `src/collective/*.cpp` | collective records, transfers under way | `CollectiveService` (contract), `RingCollective`, `CollectiveFabric` (over the transport) |
| Placement | `src/scheduling/*.cpp` | GPU inventory | `Placement`, `Inventory` |
| Training jobs | `src/workload/engine.cpp`, `metrics.cpp`, `scheduling.cpp`, `telemetry.cpp`, `run.cpp`, `dispatcher.hpp` | job records, assignments | `Workload`; the dispatcher also in `CollectiveFabric` |
| Telemetry | `src/telemetry/session.cpp`, `summary.cpp`, `metrics.cpp` | series, samples, attributions | `Telemetry`, `TelemetryTrace`, `Attribution` |
| Telemetry text, topology summary, scenarios, digest, report, CLI, benchmarks | | none | not modelled (I/O) |

## How the modules relate

`EventOrder` is the order of the event queue. `EventScheduler` is the abstract
kernel: a set of live events, the least of which is delivered, and cancellation
that removes an event at once. `SimKernel` is the code, in which a cancelled event
stays in the heap until it surfaces; it is shown to implement `EventScheduler`.
`Transport` and `Workload` use the kernel as `EventScheduler` describes it: their
`events` variable is the set of live events and they dispatch `First(events)`.

`Topology` builds, validates, exports and imports the graph that `Routing` and
`Transport` take as constants.

`DirectedLink` holds the operations of one link as operators on a record.
`LinkService` puts one link under an arbitrary environment, `Transport` composes
several with routes, transfers and failures.

Collectives are specified at three levels, each an implementation of the one
before it:

- `CollectiveService` is the contract jobs rely on: a collective ends once, as
  cancelled exactly when it was cancelled before, and its result is handed over
  once. It knows no ranks, rounds or bytes.
- `RingCollective` is the executor over an abstract fabric, which ends each
  transfer once, whole or in part, or finds no route. Its `ImplementsService` is the
  refinement; `Calls`, `Ready` and `Told` map its records to the contract.
- `CollectiveFabric` extends `Transport` by the executor and the first half of the
  dispatcher's `pump()`. A transfer here is chunks on links, ended by deliveries, full
  buffers and failures. Its `ImplementsRing` is the refinement: the entries of
  `transfers_` and `locals_` are the abstract transfers. So what `RingCollective`
  assumes of the fabric is discharged, liveness included.

`Workload` uses collectives as `CollectiveService` describes them: each ends at a
time and with an outcome of TLC's choice, and `cancel()` merely marks it.

`Attribution` is the state machine of the summary that derives a job's phase from
its reported transitions. `Telemetry` drives it with arbitrary observations,
`Workload` with those the engine emits. `TelemetryTrace` states what the complete
trace of a session says about its summary.

A handler is one action, with everything it calls. Handlers that call each other
(`Workload`) are operators that transform a record of the engine's state, so the
order of the calls is the order of the code. `pump()` of the dispatcher is two
alternating actions, `DispatchWaiting` and `HandleResults`, because that is its
loop; invariants about its result are stated for `pc = "idle"`.

Definitions with the comment "Mutated form" are deliberately wrong variants of
the definition after them. No specification uses them; each shows that a property
fails when the code has that mistake.

`std::sort` of the placement policies is `Ranked`: the element with `i - 1`
predecessors comes at position `i`. `SerializationDelay` computes with `Power`, the
powers of two of the word, and `Telemetry` counts its samples as pairs of a frame and
a metric; both are forms that TLC evaluates and the prover can reason about.

## Runs

Each `.cfg` checks one `MC` module.

| Run | States | What it shows |
| --- | --- | --- |
| `MCSimKernel` | 214,076 | containers, trace, counters and result agree under any calls, throwing handlers and throwing telemetry; refinement of `EventScheduler`; the run terminates |
| `MCLinkService` | 147,570 | buffer bound, completion event, traffic conservation, exact busy time and metrics |
| `MCTransport` | 479,199 | each chunk is in one place, services agree with the kernel's events, drops are booked once, no overtaking, every transfer completes |
| `MCTransportRegistered` | 21,926 | the same accounts when chunks are registered one at a time and a port fails; a clock that runs out, which only chunks that waited can meet after they were accepted |
| `MCRingCollective` | 140,028 | a success has reduced every shard at every rank; bytes conserved; drains before it ends; implements `CollectiveService` |
| `MCCollectiveFabric` | 541,216 | collectives over the transport implement `RingCollective`; the executor's entries, the transport's transfers and the delivered bytes agree after every step, and no round is issued in the past |
| `MCInventory` | 68,320 | placements use free healthy GPUs; rack-local is local when possible |
| `MCWorkload` | 1,428,107 | exclusive GPUs, no lost wakeup, work outstanding for each active job, buckets in order, time billed within allocation, reported phases match the job's state, the run ends |
| `MCRouting` | 30,259 | cache coherent with the revision, totals right after eviction, decisions on shortest usable paths |
| `MCTelemetry` | 885,730 | samples true at their boundary, job time attributed exactly, the summary equal to what the complete trace says (ADR-011) |
| `MCTopology` | 238,781 | any order of construction calls leaves a consistent graph, generated graphs validate, export and import reproduce a graph exactly |
| `MCSerializationDelay` | 56,146 | the delay is the rounded-up quotient or absent because it does not fit |

### Bounds

- Kernel: three ids, so that the counter runs out; two times and two priorities,
  so that every tie-break decides.
- Link and transport: a buffer that some chunks overflow, fit exactly or exceed
  alone; a second hop that is slower and has no buffer; up to two state changes,
  placed at the current instant or the next so that they coincide with arrivals
  and completions.
- Clock: `MaxTime` is the last instant. In `MCTransportRegistered` it is so small
  that routes are refused and waiting chunks overflow; in `MCTransport` waiting
  chunks may; in `MCCollectiveFabric` it is out of reach.
- Collectives: one to four ranks, fewer bytes than ranks, a remainder, ranks that
  share a NIC; two collectives at a time.
- Collectives over the fabric: two at a time, of one to three ranks on two NICs and
  a switch, two routes one way and one back, a buffer of one chunk that two rings
  at once overflow, and a link that fails two or five instants after its change is
  scheduled, so that a transfer without a route comes before or after one with a
  route in the same round. Failures by loss and by a missing
  route happen, also of cancelled collectives, and transfers between the same NICs
  on different routes. A ring whose shards differ in size has rounds that a delivery
  ends and rounds that a transfer on one NIC ends, the last one included: the next
  round then starts at the time of that local event. There is one change of state; two take many times the states. The
  transport's limits are out of reach, because exceeding them ends the run. Jobs
  call `submit()` and `cancel()` at times of fabric events.
- Workload: four GPUs, up to three jobs of which two can reduce at once, two
  controls. `ControlTimes` are chosen so that one comes while collectives are in
  flight: a job is cancelled with its collective outstanding while another job
  reduces, and one event ends collectives of two jobs while a third waits. Jobs
  and controls are scheduled in the order `run_training` uses. `ControlGpus`
  limits which GPUs change health.
- Routing: three switches between two ends and a link between two of them (the
  graph never holds parallel links), a cache of two pairs and five entries,
  and two revisions, so that eviction, overflow and the last revision happen.
  Three two-hop paths exceed the limit on entries; that lookup throws.
- Topology: two racks, NICs and GPUs, a switch and four links in every order of
  calls, with unknown, refused and repeated arguments; generators up to four GPUs
  and four switches, with configurations they refuse; one change of state, before,
  during or after construction. Nothing is built on top of a generated graph.
- Telemetry: five accepted observations, within which each limit (series, samples,
  decisions, records, edges, counters) is reached; those on decisions, records and
  edges each without the other two.
- Serialization delay: words of five bits, all arguments.

### Fairness

`run()` is a loop that takes the least event while there is one, so some run step
is always taken eventually. The kernel states this as weak fairness of the loop's
steps. `Transport`, `RingCollective` and `Workload` state it as "if there is work
for ever, a step of the run happens infinitely often", which is the same for steps
that stay enabled; in `CollectiveFabric` a step of the run is one that takes an event,
an outcome or a result away. The environment (submissions, failures, cancellations) is never
assumed fair. Taking completions is fair because the dispatcher does so after
every event.

Deadlock is checked except in the telemetry run, whose session may simply receive
no more observations, and in the serialization delay run, whose computation
returns. In the kernel, transport, collective, fabric and workload runs a final state has
an explicit stuttering step, so a handler that would throw on one of its
consistency checks shows up as a deadlock. In the link, inventory, routing and
topology runs some call can always be made, one that changes nothing if need be,
and the absence of deadlock says nothing more.

## Proofs

Every theorem holds for all values of the constants that the named assumption
allows; TLC evaluates the assumptions on every run. The assumptions say that sizes,
times and ids are natural numbers, and that `None`, the absence of a value, is none
of the values it stands in for.

`InductionLemmas` states induction over the naturals, and sums over finite sets, for
a property given as a set, a form the installed provers can instantiate. All
arguments over lengths, sums and ranks below rest on it.

**Kernel.** `SimKernelProofs` (`KernelAssumption`):

- `KernelTypeCorrect`: `Spec => []TypeOK`;
- `KernelBookkeeping`: `Spec => []BookkeepingAgrees`;
- `KernelAccounting`: `Spec => []EveryEventAccountedFor`;
- `KernelTraceFaithful`: `Spec => []TraceTellsTheRun`;
- `KernelRefinesScheduler`: `Spec => ImplementsEagerScheduler`.

The inductive invariant `IInv` adds to the type and the bookkeeping that pending ids
are below the next one (`Fresh`, without which a new event could collide with an old
one) and how the lifecycle relates to the current event (`LifecycleOK`). That the
queue has a least event comes from `FirstIsLeast`, which rests on the
well-foundedness of finite subsets. Accounting needs cardinalities and is a second
invariant, `Counted`, on top of `IInv`. The trace is a third, `LogInv`: it relates
the records to the containers (an event that is pending and not cancelled has a
Scheduled record and no other, so the next record about it is the first of its kind)
and the terminal records to the result. The refinement maps the live events to those
of the heap that are not cancelled: a discard is a stutter, each other step one step
of the abstract scheduler.

**Link.** `LinkProofs` (`LinkAssumption`: any valid configuration, any chunk sizes):

- `SerializerAgrees`: `Spec => []SerializerAgreesWithKernel`;
- `LinkConservesTraffic`: `Spec => []TrafficConserved`;
- `LinkBusyTimeExact`: `Spec => []BusyTimeExact`.

The three need each other and are proved as one invariant, `LinkInv`: a completion
subtracts the head of the buffer from the occupancy and closes a busy interval, so
conservation and busy time rest on the agreement of serializer and kernel. There is
a lemma for each way a chunk is admitted or dropped, and `SumAppend` and `SumTail` say
what enqueuing and dequeuing do to the sum of a buffer.

**Serialization delay.** `DelayProofs` (`WidthAssumption`) proves `DelayIsExact`:
`Spec => []DelayExact`, for words of every width, hence also for the 64 bits and the
multiplier of the code. The loop invariant is `Dividing`: quotient and remainder
divide the fractional bytes times the bits of the multiplier read so far. That no
doubling or addition wraps follows from the remainder being below the divisor.

**Collectives.** `RingProofs` and `RingDataProofs` (`RingAssumption`: any requests of
one or more participants and bytes, any limits):

- `CollectivesDrain`: `Spec => []DrainsBeforeEnd`;
- `ExecutorIsService`: `Spec => Service!Safety`, the safety part of
  `ImplementsService`;
- `RingAllReduces`: `Spec => []AllReduced`;
- `RingConservesBytes`: `Spec => []BytesConserved`.

`DrainsBeforeEnd` says that the pending count of a collective is the number of its
transfers under way, all of the current round, and is zero exactly when it has
finished. To be inductive it needs three things more, which `Draining` adds: the
shape of the records, that only finitely many transfers are under way (or the count
means nothing), and that each belongs to a collective that exists (or the first
round of a new one would find some under its id). A round makes one entry for each
transfer it issues (`EntriesFacts`), and nothing else of the collective is
outstanding then; a completion removes one. The refinement needs the same
invariant: a transfer under way shows that its collective has not finished, so its
end is the only one.

That the plan is an all-reduce needs to know what every rank holds in the middle of
a round. `Holds` says it: in round `k` of the first phase the copy of a shard that is
`k` ranks away from its name holds the contributions of the arc of ranks up to it,
one rank longer once its transfer has ended; in the second phase an arc of ranks is
complete. `Moving` says that the transfers under way are those the round planned.
Byte conservation adds that what was issued so far is the volume of the rounds begun
(`Booked`), which rests on the shards of one round being all shards (`LabelledSum`), so
that each round moves all the bytes, remainder included.

**Placement.** `InventoryProofs` (`PlacementAssumption`, `InventoryAssumption`: any
finite cluster, any racks, NICs, scores and requests):

- `PlacementIsSound`: `Spec => []PlacementSound`;
- `PlacementIsLocal`: `Spec => []LocalWhenPossible`.

Each policy sorts by a strict total order (`IdOrderLinear`, `RandomLinear`,
`LocalLinear`, `CompactLinear`), and `RankedLists` shows that sorting by such an order
lists every free GPU once. `InventoryInv` records that ownership agrees with the
grants (`Owned`) and that the last decision is what `place()` returns for a view in
which the job owned nothing (`Explained`). Locality then follows from which GPUs come
first in the order (`LeadersFirst`), and the bound on the edges that leave a rack
from walking the ring (`RingClosed`, `RingEdges`): a set of positions closed under the
next one is the whole ring.

**Telemetry.** `TelemetryProofs` (`TelemetryAssumption`: any jobs, observations,
modes, interval and limits):

- `AttributionIsExact`: `Spec => []AttributionExact`;
- `EndedJobsAreFinal`: no step changes the attribution of a job that has ended;
- `SamplesAreTrue`: `Spec => []SamplesTrue`.

For the attribution, the inductive invariant `TimesOrdered` adds to the equation that
no job's last transition is later than the clock, without which an interval could be
negative, and that an unseen job has no time attributed, without which the equation
would not hold at its arrival. For the samples, `SamplingInv` adds that a boundary not
yet passed would get the current values and that in an open session every boundary
passed lies before the clock: then an observation changes no series a frame was
taken of. `EmitKeeps` is the argument about `emit_samples_until()`, thrown or not.

### Only model-checked

- Liveness (`RunTerminates`, `TransfersComplete`, `RunEnds`, and the liveness in
  `ImplementsService` and `ImplementsRing`) is outside what the prover handles.
- `SummaryTellsTrace`, `RoundTrip`, `GeneratedValid` and `ConstructionConsistent` compare
  folds over a trace, or graphs built by recursion, with their definition; what such
  a recursion computes for every input is an induction over data.
- The invariants of `Transport`, `CollectiveFabric`, `Workload` and `Routing`.

## Not modelled

- A handler that catches an exception of its context and goes on.
- Exceptions of telemetry inside transport, collective and workload handlers, and
  limits whose violation ends the run: timelines, decision and allocation records,
  chunk, transfer, flow and decision ids.
- Overflow of 64-bit counters.
- Jobs, collectives and transport at once: `CollectiveFabric` composes the last two,
  and `Workload` uses the contract they implement.
- The catalogue of metrics and the checks of one observation's labels
  (`metrics.cpp`), and the serialization of a finished snapshot as JSON
  (`serialization.cpp`): tables and formatting. A series stands for a metric with
  its labels.
- Digests (`digest.cpp`, the hash in `trace.cpp`): straight-line hashing of fields in
  a fixed order, in 64-bit arithmetic that TLC's integers do not hold.
- The executor's checks that a local transfer's time fits the clock, and the reports
  of synchronization phases, which `Attribution` accepts and the engine never makes.
- Text formats (malformed topology documents, DOT output), scenario files, reports,
  the command line, benchmarks.

## Plan

1. Proofs for `Transport` (a chunk is in one place, services agree with the kernel's
   events) from the lemmas about one link, for the exclusive GPUs of `Workload` from
   those about placement, and for the path cache of `Routing`.
2. Two changes of state in `MCCollectiveFabric`.
